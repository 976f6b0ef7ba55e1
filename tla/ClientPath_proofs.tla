-------------------------- MODULE ClientPath_proofs --------------------------
(***************************************************************************)
(* The client path's safety, for any number of connections, any ring, any  *)
(* early-reply queue and any load.  The invariant is built in layers: who  *)
(* owns a slab entry (Owned) and who is on the roll (Roll), which give     *)
(* ConnectionsAccounted; the order of a connection's requests on their way *)
(* through the reader (Ordered), which gives ShedStaysShed; what the       *)
(* response stage has heard of (Heard), the slots and replies under way    *)
(* (Slots), and what a client will have seen once its buffers are flushed  *)
(* (SeenWhole), which give RepliesReachClients.                            *)
(***************************************************************************)
EXTENDS ClientPath, SequenceTheorems, FiniteSetTheorems, WellFoundedInduction,
        NaturalsInduction, TLAPS

-----------------------------------------------------------------------------
(* Types *)

Request == [from : Conns, id : Nat, kind : Kinds]
Ask == [conn : Conns, id : Nat]
Slot == [conn : Conns, id : Nat, last : BOOLEAN]
Reply == [conn : Conns, id : Nat, kind : {"early", "rejected"}]
Bytes == [k : {"response", "end", "early"}, id : Nat]
Account == [out : SUBSET Nat, mid : Nat, bad : BOOLEAN]
Completion == [idx : Nat, res : {"Data", "Empty", "Closed"}, frames : Seq(Request),
               terminal : BOOLEAN]
Receive == [idx : Nat, conn : Conns, cancel : BOOLEAN]
RecvStates == {"Idle", "Armed", "Parked", "ParkedCancelling", "Resuming", "Dying"}

\* The states of an entry that a completion may still name.
Engaged == {"Armed", "ParkedCancelling", "Resuming", "Dying"}

ClientTypes ==
  /\ sock \in [Conns -> {"none", "open", "shut"}]
  /\ sent \in [Conns -> Nat]
  /\ wire \in [Conns -> Seq(Request)]
  /\ client \in [Conns -> Account]

AcceptTypes ==
  /\ accepting \in Conns \cup {0} /\ announced \in BOOLEAN
  /\ regs \in Seq(Conns)
  /\ control \in Seq({"Connected", "Disconnected"} \X Conns)

SlabTypes ==
  /\ slab \in Seq(Conns \cup {0}) /\ free \in Seq(Nat)
  /\ recv \in Seq(RecvStates) /\ Len(recv) = Len(slab)
  /\ buf \in Seq(Seq(Request)) /\ Len(buf) = Len(slab)
  /\ shed \in Seq(Nat) /\ Len(shed) = Len(slab)
  /\ ops \subseteq Receive /\ cq \in Seq(Completion)
  /\ busy \in Nat

QueueTypes ==
  /\ batch \in Seq(Ask) /\ staged \in Seq(Reply)
  /\ input \in Seq(Ask) /\ early \in Seq(Reply)
  /\ half \in BOOLEAN /\ output \in Seq(Slot)
  /\ tails \subseteq Conns \X Nat /\ onRing \subseteq Conns \X Nat

StageTypes ==
  /\ rpc \in {"read", "snap", "drain", "turn", "gate", "idleFlush", "waitFlush", "slotFlush",
              "waiting", "resnap", "redrain", "release"}
  /\ take \in Nat /\ snap \in Nat /\ between \in BOOLEAN
  /\ table \subseteq Conns
  /\ sendbuf \in [Conns -> Seq(Bytes)]

\* What the response stage took note of is there.
Bounds ==
  /\ take <= Len(output) /\ snap <= Len(early)
  /\ rpc \in {"gate", "waitFlush", "waiting", "resnap", "redrain", "release"} => take > 0

Types == ClientTypes /\ AcceptTypes /\ SlabTypes /\ QueueTypes /\ StageTypes /\ Bounds

-----------------------------------------------------------------------------
(* Who owns a slab entry *)

\* The free list: vacant entries, each once, with nothing left of their tenant.
FreeVacant ==
  /\ \A k \in DOMAIN free : free[k] \in Entries /\ slab[free[k]] = 0
  /\ \A k, l \in DOMAIN free : free[k] = free[l] => k = l
  /\ \A i \in Entries : slab[i] = 0 => recv[i] = "Idle" /\ buf[i] = <<>> /\ shed[i] = 0

\* An armed receive is of the connection its entry holds, one to an entry.
OpsOwned ==
  /\ \A op \in ops : op.idx \in Entries /\ slab[op.idx] = op.conn /\ recv[op.idx] \in Engaged
  /\ \A op, o \in ops : op.idx = o.idx => op = o

\* A completion names an entry still held; a terminal one is the last of its
\* receive.
CqOwned ==
  /\ \A k \in DOMAIN cq :
       /\ cq[k].idx \in Entries /\ slab[cq[k].idx] # 0 /\ recv[cq[k].idx] \in Engaged
       /\ cq[k].res # "Data" => cq[k].terminal
       /\ \A l \in DOMAIN cq[k].frames : cq[k].frames[l].from = slab[cq[k].idx]
       /\ cq[k].terminal => \A op \in ops : op.idx # cq[k].idx
  /\ \A k, l \in DOMAIN cq : k < l /\ cq[k].terminal => cq[l].idx # cq[k].idx

\* Between calls nothing is pushed or staged; a call is over a living entry.
BusyOwned ==
  \/ busy = 0 /\ batch = <<>> /\ staged = <<>>
  \/ busy \in Entries /\ slab[busy] # 0 /\ recv[busy] # "Dying"

WireOwned == \A c \in Conns : \A k \in DOMAIN wire[c] : wire[c][k].from = c

Owned == FreeVacant /\ OpsOwned /\ CqOwned /\ BusyOwned /\ WireOwned /\ BytesUnderOwner

-----------------------------------------------------------------------------
(* The roll of connections *)

\* A connection that the accept loop is done with.
Known(c) == sock[c] # "none" /\ accepting # c

\* What the reader and the queues name is known.
ReaderKnown ==
  /\ \A i \in Entries : slab[i] # 0 => Known(slab[i])
  /\ \A k \in DOMAIN regs : Known(regs[k])

QueuesKnown ==
  /\ \A k \in DOMAIN batch : Known(batch[k].conn)
  /\ \A k \in DOMAIN input : Known(input[k].conn)
  /\ \A k \in DOMAIN output : Known(output[k].conn)
  /\ \A k \in DOMAIN staged : Known(staged[k].conn)
  /\ \A k \in DOMAIN early : Known(early[k].conn)

\* A connection is shut before the response stage is told of its end.
EndsShut ==
  /\ \A c \in Named("Disconnected") : Known(c) /\ sock[c] = "shut"
  /\ \A k \in DOMAIN cq : cq[k].res = "Closed" => sock[slab[cq[k].idx]] = "shut"

\* The accept loop's connection, and those the response stage holds.
RollKept ==
  /\ accepting # 0 => sock[accepting] # "none"
  /\ accepting # 0 /\ announced => accepting \in table \cup Named("Connected")
  /\ accepting # 0 /\ ~announced => accepting \notin table \cup Named("Connected")
  /\ accepting = 0 => ~announced
  /\ \A c \in table \cup Named("Connected") : sock[c] # "none"
  /\ table \cap Named("Connected") = {}
  /\ \A c \in Conns : Known(c) /\ c \notin table \cup Named("Connected") => sock[c] = "shut"
  /\ \A c \in Conns : sendbuf[c] # <<>> => c \in table /\ Known(c)

Roll == ReaderKnown /\ QueuesKnown /\ EndsShut /\ RollKept /\ PermitsCounted

-----------------------------------------------------------------------------
(* The order of a connection's requests *)

Ascending(s) == \A k, l \in DOMAIN s : k < l => s[k].id < s[l].id
Precede(a, b) == \A k \in DOMAIN a : \A l \in DOMAIN b : a[k].id < b[l].id
Upto(s, n) == \A k \in DOMAIN s : s[k].id <= n
Below(n, s) == \A k \in DOMAIN s : n < s[k].id

\* One entry to a connection.
Placed ==
  /\ \A i, j \in Entries : slab[i] = slab[j] /\ slab[i] # 0 => i = j
  /\ \A k, l \in DOMAIN regs : regs[k] = regs[l] => k = l
  /\ \A k \in DOMAIN regs : \A i \in Entries : slab[i] # regs[k]

WireOrdered == \A c \in Conns : Ascending(wire[c]) /\ Upto(wire[c], sent[c])

CqOrdered ==
  /\ \A k \in DOMAIN cq :
       /\ Ascending(cq[k].frames) /\ Upto(cq[k].frames, sent[slab[cq[k].idx]])
       /\ Precede(cq[k].frames, wire[slab[cq[k].idx]])
       /\ Precede(buf[cq[k].idx], cq[k].frames)
  /\ \A k, l \in DOMAIN cq : k < l /\ cq[k].idx = cq[l].idx => Precede(cq[k].frames, cq[l].frames)

BufOrdered ==
  \A i \in Entries : slab[i] # 0 =>
    /\ Ascending(buf[i]) /\ Upto(buf[i], sent[slab[i]]) /\ Precede(buf[i], wire[slab[i]])

\* Request n of c is past the socket and the completions.
Fetched(c, n) ==
  /\ n <= sent[c] /\ Below(n, wire[c])
  /\ \A k \in DOMAIN cq : slab[cq[k].idx] = c => Below(n, cq[k].frames)

\* Request n of c is past the parse buffer too.
Past(c, n) ==
  /\ Fetched(c, n)
  /\ \A i \in Entries : slab[i] = c => Below(n, buf[i])

\* A request of a shed tail is past, or in the part of the buffer still to shed.
ShedPast(c, n) ==
  /\ Fetched(c, n)
  /\ \A i \in Entries : slab[i] = c => \A k \in DOMAIN buf[i] : k > shed[i] => n < buf[i][k].id

PastKept ==
  /\ \A p \in onRing : Past(p[1], p[2])
  /\ \A p \in tails : ShedPast(p[1], p[2])
  /\ \A i \in Entries : shed[i] <= Len(buf[i])

Ordered == Placed /\ WireOrdered /\ CqOrdered /\ BufOrdered /\ PastKept /\ ShedStaysShed

-----------------------------------------------------------------------------
(* What the response stage has heard of *)

Heard ==
  /\ rpc \notin {"snap", "drain"} =>
       \A k \in 1..take : output[k].conn \notin Named("Connected")
  /\ rpc \notin {"drain", "redrain"} =>
       \A k \in 1..snap : early[k].conn \notin Named("Connected")
  /\ NoReplyLost

-----------------------------------------------------------------------------
(* The slots and replies under way *)

Pair(x) == <<x.conn, x.id>>
Queue == input \o batch
Replies == early \o staged

\* Requests are queued once, and answered on the ring or early, never both.
Once ==
  /\ \A k \in DOMAIN Queue : Pair(Queue[k]) \in onRing
  /\ \A k, l \in DOMAIN Queue : Pair(Queue[k]) = Pair(Queue[l]) => k = l
  /\ \A k \in DOMAIN output : Pair(output[k]) \in onRing
  /\ \A k \in DOMAIN Replies : Pair(Replies[k]) \notin onRing
  /\ \A c \in Conns, n \in Nat : (\E k \in DOMAIN Replies : Pair(Replies[k]) = <<c, n>>) => Past(c, n)
  /\ \A k, l \in DOMAIN Replies : Pair(Replies[k]) = Pair(Replies[l]) => k = l

\* The slots alternate, a request's last after its first, and none follows a last.
Alternate ==
  /\ \A k \in DOMAIN output : k + 1 \in DOMAIN output =>
       /\ output[k + 1].last = ~output[k].last
       /\ ~output[k].last => Pair(output[k + 1]) = Pair(output[k])
  /\ \A k, l \in DOMAIN output : k < l /\ output[k].last => Pair(output[l]) # Pair(output[k])
  /\ \A k \in DOMAIN output : output[k].last => \A l \in DOMAIN Queue : Pair(Queue[l]) # Pair(output[k])

\* Where the next slot of the matching stage, and of the response stage, falls.
Turns ==
  /\ half => input # <<>>
  /\ output # <<>> => output[Len(output)].last = ~half /\ output[1].last = ~between
  /\ output # <<>> /\ half => Pair(output[Len(output)]) = Pair(Head(input))
  /\ output = <<>> => between = ~half

\* The request whose first slot was sent, and not its last.
Unfinished == IF output # <<>> THEN Pair(output[1]) ELSE Pair(Head(input))

Slots == Once /\ Alternate /\ Turns

-----------------------------------------------------------------------------
(* What a client will have seen *)

\* A client's account once it has taken in what the egress holds for it.
Seen(c) == FoldLeft(observe, client[c], sendbuf[c])

\* The response stage was told of c, and has let go of it.
Gone(c) == Known(c) /\ c \notin table \cup Named("Connected")

\* Request n of c is on its way to the reader, or in its hands.
Coming(c, n) ==
  \/ \E k \in DOMAIN wire[c] : wire[c][k].id = n
  \/ \E k \in DOMAIN cq : slab[cq[k].idx] = c /\ \E l \in DOMAIN cq[k].frames : cq[k].frames[l].id = n
  \/ \E i \in Entries : slab[i] = c /\ \E k \in DOMAIN buf[i] : buf[i][k].id = n

\* Request n of c is past the reader, and not answered yet.
Going(c, n) ==
  \/ \E k \in DOMAIN Queue : Pair(Queue[k]) = <<c, n>>
  \/ \E k \in DOMAIN output : Pair(output[k]) = <<c, n>>
  \/ \E k \in DOMAIN Replies : Pair(Replies[k]) = <<c, n>>

UnderWay(c, n) == Coming(c, n) \/ Going(c, n)

\* The request of c whose reply is half out, 0: none.
Midway(c) == IF ~between /\ Unfinished[1] = c THEN Unfinished[2] ELSE 0

SeenWhole ==
  /\ \A c \in Conns : ~Seen(c).bad
  /\ \A c \in Conns : ~Gone(c) =>
       /\ Seen(c).mid = Midway(c)
       /\ \A n \in Nat : UnderWay(c, n) => n \in Seen(c).out
  /\ \A c \in Conns : Upto(sendbuf[c], sent[c])
  /\ rpc \in {"resnap", "redrain", "release"} => between

Inv == Types /\ Owned /\ Roll /\ Ordered /\ Heard /\ Slots /\ SeenWhole

-----------------------------------------------------------------------------
(* Sequences *)

LEMMA EmptyEffect ==
  ASSUME NEW S, NEW t, t = <<>>
  PROVE  t \in Seq(S) /\ Len(t) = 0 /\ DOMAIN t = 1..0
BY EmptySeq

LEMMA SeqFacts ==
  ASSUME NEW S, NEW s \in Seq(S)
  PROVE  /\ Len(s) \in Nat /\ DOMAIN s = 1..Len(s) /\ (\A k \in 1..Len(s) : s[k] \in S)
         /\ (s = <<>> <=> Len(s) = 0) /\ (s # <<>> => Len(s) >= 1 /\ Head(s) = s[1])
BY EmptySeq, LenProperties, ElementOfSeq

LEMMA AppendEffect ==
  ASSUME NEW S, NEW s \in Seq(S), NEW e \in S, NEW t, t = Append(s, e)
  PROVE  /\ t \in Seq(S) /\ Len(t) = Len(s) + 1 /\ t[Len(s) + 1] = e /\ DOMAIN t = 1..Len(t)
         /\ \A k \in 1..Len(s) : t[k] = s[k]
BY AppendProperties, LenProperties

LEMMA PutEffect ==
  ASSUME NEW S, NEW s \in Seq(S), NEW i \in 1..Len(s), NEW e \in S, NEW t, t = [s EXCEPT ![i] = e]
  PROVE  /\ t \in Seq(S) /\ Len(t) = Len(s) /\ t[i] = e /\ DOMAIN t = 1..Len(t)
         /\ \A k \in 1..Len(s) : k # i => t[k] = s[k]
BY ExceptSeq, LenProperties

LEMMA TailEffect ==
  ASSUME NEW S, NEW s \in Seq(S), s # <<>>, NEW t, t = Tail(s)
  PROVE  /\ t \in Seq(S) /\ Len(s) \in Nat /\ Len(s) >= 1 /\ Len(t) = Len(s) - 1
         /\ DOMAIN t = 1..Len(t) /\ Head(s) = s[1] /\ s[1] \in S
         /\ \A k \in 1..Len(t) : t[k] = s[k + 1]
BY HeadTailProperties, LenProperties, EmptySeq

LEMMA ConcatEffect ==
  ASSUME NEW S, NEW s \in Seq(S), NEW u \in Seq(S), NEW t, t = s \o u
  PROVE  /\ t \in Seq(S) /\ Len(t) = Len(s) + Len(u) /\ DOMAIN t = 1..Len(t)
         /\ \A k \in 1..Len(s) : t[k] = s[k]
         /\ \A k \in 1..Len(u) : t[Len(s) + k] = u[k]
<1>1. /\ t \in Seq(S) /\ Len(t) = Len(s) + Len(u)
      /\ \A i \in 1..(Len(s) + Len(u)) : t[i] = IF i <= Len(s) THEN s[i] ELSE u[i - Len(s)]
  BY ConcatProperties
<1>2. Len(s) \in Nat /\ Len(u) \in Nat /\ DOMAIN t = 1..Len(t)
  BY <1>1, LenProperties
<1>3. \A k \in 1..Len(s) : t[k] = s[k]
  BY <1>1, <1>2
<1>4. ASSUME NEW k \in 1..Len(u) PROVE t[Len(s) + k] = u[k]
  <2>1. Len(s) + k \in 1..(Len(s) + Len(u)) /\ ~(Len(s) + k <= Len(s)) /\ Len(s) + k - Len(s) = k
    BY <1>2
  <2>2. QED
    BY <1>1, <2>1
<1>5. QED
  BY <1>1, <1>2, <1>3, <1>4

\* An element of a concatenation is of the one or of the other.
LEMMA ConcatSplit ==
  ASSUME NEW S, NEW s \in Seq(S), NEW u \in Seq(S), NEW t, t = s \o u, NEW k \in DOMAIN t
  PROVE  \/ k \in 1..Len(s) /\ t[k] = s[k]
         \/ k - Len(s) \in 1..Len(u) /\ t[k] = u[k - Len(s)] /\ k > Len(s)
<1>1. /\ Len(t) = Len(s) + Len(u) /\ DOMAIN t = 1..Len(t)
      /\ \A j \in 1..Len(s) : t[j] = s[j]
      /\ \A j \in 1..Len(u) : t[Len(s) + j] = u[j]
  BY ConcatEffect
<1>2. Len(s) \in Nat /\ Len(u) \in Nat
  BY LenProperties
<1>3. CASE k <= Len(s)
  BY <1>1, <1>2, <1>3
<1>4. CASE k > Len(s)
  <2>1. k - Len(s) \in 1..Len(u) /\ Len(s) + (k - Len(s)) = k
    BY <1>1, <1>2, <1>4
  <2>2. QED
    BY <1>1, <1>4, <2>1
<1>5. QED
  BY <1>1, <1>2, <1>3, <1>4

LEMMA PrefixEffect ==
  ASSUME NEW S, NEW s \in Seq(S), NEW n \in 0..Len(s), NEW t, t = SubSeq(s, 1, n)
  PROVE  t \in Seq(S) /\ Len(t) = n /\ DOMAIN t = 1..n /\ \A k \in 1..n : t[k] = s[k]
<1>1. Len(s) \in Nat /\ n \in Nat /\ \A i \in 1..n : s[i] \in S
  BY SeqFacts
<1>2. /\ t \in Seq(S) /\ Len(t) = (IF 1 <= n THEN n - 1 + 1 ELSE 0)
      /\ \A i \in 1..(n - 1 + 1) : t[i] = s[1 + i - 1]
  BY <1>1, SubSeqProperties
<1>3. QED
  BY <1>1, <1>2, LenProperties

LEMMA SuffixEffect ==
  ASSUME NEW S, NEW s \in Seq(S), NEW n \in 0..Len(s), NEW t, t = SubSeq(s, n + 1, Len(s))
  PROVE  /\ t \in Seq(S) /\ Len(t) = Len(s) - n /\ DOMAIN t = 1..Len(t)
         /\ \A k \in 1..Len(t) : n + k \in 1..Len(s) /\ t[k] = s[n + k]
<1>1. Len(s) \in Nat /\ n \in Nat /\ \A i \in (n + 1)..Len(s) : s[i] \in S
  BY SeqFacts
<1>2. /\ t \in Seq(S) /\ Len(t) = (IF n + 1 <= Len(s) THEN Len(s) - (n + 1) + 1 ELSE 0)
      /\ \A i \in 1..(Len(s) - (n + 1) + 1) : t[i] = s[n + 1 + i - 1]
  BY <1>1, SubSeqProperties
<1>3. Len(t) = Len(s) - n /\ DOMAIN t = 1..Len(t)
  BY <1>1, <1>2, LenProperties
<1>4. ASSUME NEW k \in 1..Len(t) PROVE n + k \in 1..Len(s) /\ t[k] = s[n + k]
  <2>1. k \in 1..(Len(s) - (n + 1) + 1) /\ n + 1 + k - 1 = n + k /\ n + k \in 1..Len(s)
    BY <1>1, <1>3
  <2>2. QED
    BY <1>2, <2>1
<1>5. QED
  BY <1>2, <1>3, <1>4

\* What 0 has, and every number up to n that its predecessor hands it, n has.
LEMMA Climb ==
  ASSUME NEW n \in Nat, NEW T, 0 \in T, \A k \in 1..n : k - 1 \in T => k \in T
  PROVE  \A k \in 0..n : k \in T
<1> SUFFICES ASSUME NEW j \in 0..n, j \notin T PROVE FALSE
  OBVIOUS
<1> DEFINE S == {k \in 0..n : k \notin T}
<1>1. S \subseteq Nat /\ S # {}
  OBVIOUS
<1>2. \E x \in S : \A y \in S : ~(<<y, x>> \in OpToRel(<, Nat))
  BY <1>1, WFMin, NatLessThanWellFounded
<1>3. PICK x \in S : \A y \in S : ~(y < x)
  BY <1>1, <1>2 DEF OpToRel
<1>4. x # 0 /\ x \in 1..n
  BY <1>3
<1>5. x - 1 \in 0..n /\ x - 1 < x
  BY <1>4
<1>6. x - 1 \in T
  BY <1>3, <1>5
<1>7. QED
  BY <1>3, <1>4, <1>6

-----------------------------------------------------------------------------
(* Folds.  A fold over a sequence is the last of the run of its steps. *)

LEMMA MaxTop ==
  ASSUME NEW m \in Nat, NEW T, T \subseteq 1..m, m \in T
  PROVE  Max(T) = m
<1>1. \A y \in T : m >= y
  OBVIOUS
<1>2. Max(T) \in T /\ \A y \in T : Max(T) >= y
  BY <1>1 DEF Max
<1>3. Max(T) \in 1..m /\ Max(T) >= m
  BY <1>2, Zenon
<1> DEFINE x == Max(T)
<1>4. x \in 1..m /\ x >= m
  BY <1>3
<1> HIDE DEF x
<1>5. x = m
  BY <1>4
<1>6. QED
  BY <1>5 DEF x

Solves(g, st, s, n) ==
  g = [T \in SUBSET (1..n) |-> IF T = {} THEN st ELSE observe(g[T \ {Max(T)}], s[Max(T)])]

LEMMA FoldIs ==
  ASSUME NEW st, NEW s, NEW n, DOMAIN s = 1..n
  PROVE  FoldLeft(observe, st, s) = (CHOOSE g : Solves(g, st, s, n))[1..n]
BY DEF FoldLeft, MapThenFoldSet, Solves

LEMMA Solvable ==
  ASSUME NEW st, NEW s, NEW n \in Nat
  PROVE  \E g : Solves(g, st, s, n)
<1> DEFINE A == {m \in Nat : \E g : Solves(g, st, s, m)}
<1>1. 0 \in A
  <2> DEFINE g == [T \in SUBSET (1..0) |-> st]
  <2>1. \A T \in SUBSET (1..0) : T = {}
    OBVIOUS
  <2>2. g = [T \in SUBSET (1..0) |-> IF T = {} THEN st ELSE observe(g[T \ {Max(T)}], s[Max(T)])]
    BY <2>1, Zenon
  <2>3. QED
    BY <2>2 DEF Solves
<1>2. ASSUME NEW m \in 1..n, m - 1 \in A PROVE m \in A
  <2>1. PICK g : Solves(g, st, s, m - 1)
    BY <1>2
  <2> DEFINE P == SUBSET (1..(m - 1))
             Q == SUBSET (1..m)
             h == [T \in Q |-> IF m \in T THEN observe(g[T \ {m}], s[m]) ELSE g[T]]
             W(T) == IF T = {} THEN st ELSE observe(h[T \ {Max(T)}], s[Max(T)])
  <2>2. \A T \in P : g[T] = IF T = {} THEN st ELSE observe(g[T \ {Max(T)}], s[Max(T)])
    <3>1. g = [T \in P |-> IF T = {} THEN st ELSE observe(g[T \ {Max(T)}], s[Max(T)])]
      BY <2>1 DEF Solves
    <3>2. QED
      BY <3>1
  <2>3. \A T \in Q : m \notin T => T \in P
    BY <1>2
  <2>4. \A T \in P : T \in Q /\ m \notin T
    BY <1>2
  <2>5. ASSUME NEW T \in Q PROVE h[T] = W(T)
    <3>1. CASE m \in T
      <4>0. m \in Nat /\ T \subseteq 1..m
        OBVIOUS
      <4>1. Max(T) = m
        BY <3>1, <4>0, MaxTop
      <4>2. T \ {m} \in Q /\ m \notin T \ {m} /\ T # {}
        BY <3>1
      <4>3. h[T \ {m}] = g[T \ {m}] /\ h[T] = observe(g[T \ {m}], s[m])
        BY <3>1, <4>2
      <4>4. QED
        BY <4>1, <4>2, <4>3
    <3>2. CASE m \notin T
      <4>1. T \in P /\ h[T] = g[T]
        BY <2>3, <3>2
      <4>2. T \ {Max(T)} \in P
        BY <4>1
      <4>3. h[T \ {Max(T)}] = g[T \ {Max(T)}]
        BY <2>4, <4>2
      <4>4. g[T] = IF T = {} THEN st ELSE observe(g[T \ {Max(T)}], s[Max(T)])
        BY <2>2, <4>1
      <4>5. QED
        BY <4>1, <4>3, <4>4
    <3>3. QED
      BY <3>1, <3>2
  <2>6. h = [T \in Q |-> W(T)]
    <3> HIDE DEF W
    <3>1. \A T \in Q : h[T] = W(T)
      BY <2>5
    <3>2. h = [T \in Q |-> h[T]]
      OBVIOUS
    <3>3. [T \in Q |-> h[T]] = [T \in Q |-> W(T)]
      BY <3>1, Zenon
    <3>4. QED
      BY <3>2, <3>3, Zenon
  <2>7. Solves(h, st, s, m)
    BY <2>6 DEF Solves
  <2>8. QED
    BY <1>2, <2>7
<1>3. QED
  <2> HIDE DEF A
  <2>1. n \in A
    BY <1>1, <1>2, Climb
  <2>2. QED
    BY <2>1 DEF A

\* h is the run of observe over s from st.
IsRun(h, st, s) == h[0] = st /\ \A k \in 1..Len(s) : h[k] = observe(h[k - 1], s[k])

\* What a client's account is after the frames of s (Outstanding::observe).
Fold(st, s) == FoldLeft(observe, st, s)

LEMMA FoldRuns ==
  ASSUME NEW st, NEW S, NEW s \in Seq(S)
  PROVE  \E h : IsRun(h, st, s) /\ Fold(st, s) = h[Len(s)]
<1>0. Len(s) \in Nat /\ DOMAIN s = 1..Len(s)
  BY LenProperties
<1> DEFINE n == Len(s)
           g == CHOOSE g : Solves(g, st, s, n)
           h == [k \in 0..n |-> g[1..k]]
<1>1. Solves(g, st, s, n)
  BY <1>0, Solvable
<1>2. Fold(st, s) = g[1..n]
  BY <1>0, FoldIs DEF Fold
<1>3. \A T \in SUBSET (1..n) : g[T] = IF T = {} THEN st ELSE observe(g[T \ {Max(T)}], s[Max(T)])
  <2> HIDE DEF g
  <2>1. g = [T \in SUBSET (1..n) |-> IF T = {} THEN st ELSE observe(g[T \ {Max(T)}], s[Max(T)])]
    BY <1>1 DEF Solves
  <2>2. QED
    BY <2>1
<1> HIDE DEF g
<1>4. h[0] = st
  <2>1. 1..0 = {} /\ 1..0 \in SUBSET (1..n) /\ 0 \in 0..n
    BY <1>0
  <2>2. QED
    BY <1>3, <2>1
<1>5. ASSUME NEW k \in 1..n PROVE h[k] = observe(h[k - 1], s[k])
  <2>1. 1..k \in SUBSET (1..n) /\ 1..k # {} /\ (1..k) \ {k} = 1..(k - 1) /\ k \in 0..n /\ k - 1 \in 0..n
    <3>1. n \in Nat /\ k \in Nat /\ k <= n /\ k >= 1
      BY <1>0
    <3>2. 1..k \in SUBSET (1..n) /\ k \in 0..n /\ k - 1 \in 0..n /\ k \in 1..k
      BY <3>1
    <3>3. ASSUME NEW x PROVE x \in (1..k) \ {k} <=> x \in 1..(k - 1)
      BY <3>1
    <3>4. QED
      BY <3>2, <3>3
  <2>2. Max(1..k) = k
    <3>1. k \in Nat /\ 1..k \subseteq 1..k /\ k \in 1..k
      BY <1>0
    <3>2. QED
      BY <3>1, MaxTop
  <2>3. g[1..k] = observe(g[(1..k) \ {k}], s[k])
    BY <1>3, <2>1, <2>2
  <2>4. QED
    BY <2>1, <2>3
<1>6. h[n] = g[1..n]
  BY <1>0
<1>7. QED
  <2> HIDE DEF h
  <2>1. IsRun(h, st, s)
    BY <1>4, <1>5 DEF IsRun
  <2>2. QED
    BY <1>2, <1>6, <2>1

LEMMA RunUnique ==
  ASSUME NEW st, NEW S, NEW s \in Seq(S), NEW g, NEW h, IsRun(g, st, s), IsRun(h, st, s)
  PROVE  \A k \in 0..Len(s) : g[k] = h[k]
<1> DEFINE A == {k \in 0..Len(s) : g[k] = h[k]}
<1>0. Len(s) \in Nat
  BY LenProperties
<1>1. 0 \in A
  BY <1>0 DEF IsRun
<1>2. ASSUME NEW k \in 1..Len(s), k - 1 \in A PROVE k \in A
  <2>1. g[k] = observe(g[k - 1], s[k]) /\ h[k] = observe(h[k - 1], s[k]) /\ k \in 0..Len(s)
    BY <1>0 DEF IsRun
  <2>2. QED
    BY <1>2, <2>1
<1>3. QED
  <2> HIDE DEF A
  <2>1. \A k \in 0..Len(s) : k \in A
    BY <1>0, <1>1, <1>2, Climb
  <2>2. QED
    BY <2>1 DEF A

LEMMA FoldOfRun ==
  ASSUME NEW st, NEW S, NEW s \in Seq(S), NEW h, IsRun(h, st, s)
  PROVE  Fold(st, s) = h[Len(s)]
<1>1. PICK g : IsRun(g, st, s) /\ Fold(st, s) = g[Len(s)]
  BY FoldRuns
<1>2. \A k \in 0..Len(s) : g[k] = h[k]
  BY <1>1, RunUnique
<1>3. Len(s) \in 0..Len(s)
  BY LenProperties
<1>4. QED
  BY <1>1, <1>2, <1>3

LEMMA FoldEmpty ==
  ASSUME NEW st
  PROVE  Fold(st, <<>>) = st
<1>1. <<>> \in Seq(Bytes) /\ Len(<<>>) = 0
  BY EmptySeq
<1>2. PICK h : IsRun(h, st, <<>>) /\ Fold(st, <<>>) = h[Len(<<>>)]
  BY <1>1, FoldRuns
<1>3. QED
  BY <1>1, <1>2 DEF IsRun

LEMMA FoldOne ==
  ASSUME NEW st, NEW x
  PROVE  Fold(st, <<x>>) = observe(st, x)
<1> DEFINE h == [k \in 0..1 |-> IF k = 0 THEN st ELSE observe(st, x)]
<1>1. <<x>> \in Seq({x}) /\ Len(<<x>>) = 1 /\ <<x>>[1] = x
  OBVIOUS
<1>2. h[0] = st /\ h[1] = observe(st, x) /\ 1 - 1 = 0
  OBVIOUS
<1> HIDE DEF h
<1>3. ASSUME NEW k \in 1..1 PROVE h[k] = observe(h[k - 1], <<x>>[k])
  <2>1. k = 1
    OBVIOUS
  <2>2. QED
    BY <1>1, <1>2, <2>1
<1>4. IsRun(h, st, <<x>>)
  BY <1>1, <1>2, <1>3 DEF IsRun
<1>5. Fold(st, <<x>>) = h[Len(<<x>>)]
  BY <1>1, <1>4, FoldOfRun
<1>6. QED
  BY <1>1, <1>2, <1>5

\* t is a, then b.
Cat(a, b, t) == t = a \o b

LEMMA FoldConcat ==
  ASSUME NEW st, NEW S, NEW a \in Seq(S), NEW b \in Seq(S), NEW t, Cat(a, b, t)
  PROVE  Fold(st, t) = Fold(Fold(st, a), b)
<1>0. t = a \o b
  BY DEF Cat
<1>1. /\ t \in Seq(S) /\ Len(t) = Len(a) + Len(b) /\ Len(a) \in Nat /\ Len(b) \in Nat
      /\ \A k \in 1..Len(a) : t[k] = a[k]
      /\ \A k \in 1..Len(b) : t[Len(a) + k] = b[k]
  BY <1>0, ConcatEffect, LenProperties
<1>2. PICK h : IsRun(h, st, t) /\ Fold(st, t) = h[Len(t)]
  BY <1>1, FoldRuns
<1>3. h[0] = st /\ \A k \in 1..Len(t) : h[k] = observe(h[k - 1], t[k])
  BY <1>2 DEF IsRun
<1>4. IsRun(h, st, a)
  <2>1. ASSUME NEW k \in 1..Len(a) PROVE h[k] = observe(h[k - 1], a[k])
    <3>1. k \in 1..Len(t) /\ t[k] = a[k]
      BY <1>1
    <3>2. QED
      BY <1>3, <3>1
  <2>2. QED
    BY <1>3, <2>1 DEF IsRun
<1>5. Fold(st, a) = h[Len(a)]
  BY <1>4, FoldOfRun
<1> DEFINE g == [k \in 0..Len(b) |-> h[Len(a) + k]]
<1>6. IsRun(g, Fold(st, a), b)
  <2>1. g[0] = Fold(st, a)
    BY <1>1, <1>5
  <2>2. ASSUME NEW k \in 1..Len(b) PROVE g[k] = observe(g[k - 1], b[k])
    <3>1. Len(a) + k \in 1..Len(t) /\ Len(a) + k - 1 = Len(a) + (k - 1) /\ k \in 0..Len(b) /\ k - 1 \in 0..Len(b)
      BY <1>1
    <3>2. h[Len(a) + k] = observe(h[Len(a) + (k - 1)], b[k])
      BY <1>1, <1>3, <3>1
    <3>3. QED
      BY <3>1, <3>2
  <2> HIDE DEF g
  <2>3. QED
    BY <2>1, <2>2 DEF IsRun
<1>7. g[Len(b)] = h[Len(t)]
  BY <1>1
<1> HIDE DEF g
<1>8. Fold(Fold(st, a), b) = g[Len(b)]
  BY <1>6, FoldOfRun
<1>9. QED
  BY <1>2, <1>7, <1>8

LEMMA ObserveFacts ==
  ASSUME NEW st \in Account, NEW f \in Bytes
  PROVE  /\ observe(st, f) \in Account
         /\ ~observe(st, f).bad => ~st.bad
<1>1. st.out \subseteq Nat /\ st.mid \in Nat /\ st.bad \in BOOLEAN /\ f.id \in Nat
      /\ f.k \in {"response", "end", "early"}
  BY DEF Account, Bytes
<1>2. CASE f.k = "response"
  <2>1. observe(st, f) = [st EXCEPT !.bad = @ \/ st.out = {} \/ st.mid \notin {0, f.id}, !.mid = f.id]
    BY <1>2 DEF observe
  <2>2. observe(st, f) = [out |-> st.out, mid |-> f.id, bad |-> st.bad \/ st.out = {} \/ st.mid \notin {0, f.id}]
    BY <1>1, <2>1 DEF Account
  <2>3. QED
    BY <1>1, <2>2 DEF Account
<1>3. CASE f.k = "end"
  <2>1. observe(st, f) = [out |-> st.out \ {f.id}, mid |-> 0,
                          bad |-> st.bad \/ f.id \notin st.out \/ st.mid \notin {0, f.id}]
    BY <1>3 DEF observe
  <2>2. QED
    BY <1>1, <2>1 DEF Account
<1>4. CASE f.k = "early"
  <2>1. observe(st, f) = [out |-> st.out \ {f.id}, mid |-> 0,
                          bad |-> st.bad \/ f.id \notin st.out \/ st.mid # 0]
    BY <1>4 DEF observe
  <2>2. QED
    BY <1>1, <2>1 DEF Account
<1>5. QED
  BY <1>1, <1>2, <1>3, <1>4

\* The account stays one, and a bad one stays bad.
LEMMA FoldFacts ==
  ASSUME NEW st \in Account, NEW s \in Seq(Bytes)
  PROVE  /\ Fold(st, s) \in Account
         /\ ~Fold(st, s).bad => ~st.bad
<1>1. PICK h : IsRun(h, st, s) /\ Fold(st, s) = h[Len(s)]
  BY FoldRuns
<1>2. Len(s) \in Nat /\ \A k \in 1..Len(s) : s[k] \in Bytes
  BY SeqFacts
<1>3. h[0] = st /\ \A k \in 1..Len(s) : h[k] = observe(h[k - 1], s[k])
  BY <1>1 DEF IsRun
<1> DEFINE A == {k \in 0..Len(s) : h[k] \in Account /\ (~h[k].bad => ~st.bad)}
<1>4. 0 \in A
  BY <1>2, <1>3
<1>5. ASSUME NEW k \in 1..Len(s), k - 1 \in A PROVE k \in A
  <2>1. h[k - 1] \in Account /\ (~h[k - 1].bad => ~st.bad) /\ s[k] \in Bytes /\ k \in 0..Len(s)
    BY <1>2, <1>5
  <2>2. h[k] \in Account /\ (~h[k].bad => ~h[k - 1].bad)
    BY <1>3, <2>1, ObserveFacts
  <2>3. QED
    BY <2>1, <2>2
<1>6. Len(s) \in A
  <2> HIDE DEF A
  <2>1. \A k \in 0..Len(s) : k \in A
    BY <1>2, <1>4, <1>5, Climb
  <2>2. Len(s) \in 0..Len(s)
    BY <1>2
  <2>3. QED
    BY <2>1, <2>2
<1>7. QED
  BY <1>1, <1>6

-----------------------------------------------------------------------------
(* The release: the early replies of a snapshot join a connection's buffer. *)

\* A buffer once the reply r went to c's (release_early_replies).
added(c, acc, r) == IF r.conn = c THEN acc \o EarlyFrames(r) ELSE acc

\* c's buffer st after the replies of s.
Joined(c, st, s) ==
  FoldLeft(LAMBDA acc, r : IF r.conn = c THEN acc \o EarlyFrames(r) ELSE acc, st, s)

Joins(g, c, st, s, n) ==
  g = [T \in SUBSET (1..n) |-> IF T = {} THEN st ELSE added(c, g[T \ {Max(T)}], s[Max(T)])]

LEMMA JoinedIs ==
  ASSUME NEW c, NEW st, NEW s, NEW n, DOMAIN s = 1..n
  PROVE  Joined(c, st, s) = (CHOOSE g : Joins(g, c, st, s, n))[1..n]
BY DEF Joined, FoldLeft, MapThenFoldSet, Joins, added

LEMMA Joinable ==
  ASSUME NEW c, NEW st, NEW s, NEW n \in Nat
  PROVE  \E g : Joins(g, c, st, s, n)
<1> DEFINE A == {m \in Nat : \E g : Joins(g, c, st, s, m)}
<1>1. 0 \in A
  <2> DEFINE g == [T \in SUBSET (1..0) |-> st]
  <2>1. \A T \in SUBSET (1..0) : T = {}
    OBVIOUS
  <2>2. g = [T \in SUBSET (1..0) |-> IF T = {} THEN st ELSE added(c, g[T \ {Max(T)}], s[Max(T)])]
    BY <2>1, Zenon
  <2>3. QED
    BY <2>2 DEF Joins
<1>2. ASSUME NEW m \in 1..n, m - 1 \in A PROVE m \in A
  <2>1. PICK g : Joins(g, c, st, s, m - 1)
    BY <1>2
  <2> DEFINE P == SUBSET (1..(m - 1))
             Q == SUBSET (1..m)
             h == [T \in Q |-> IF m \in T THEN added(c, g[T \ {m}], s[m]) ELSE g[T]]
             W(T) == IF T = {} THEN st ELSE added(c, h[T \ {Max(T)}], s[Max(T)])
  <2>2. \A T \in P : g[T] = IF T = {} THEN st ELSE added(c, g[T \ {Max(T)}], s[Max(T)])
    <3>1. g = [T \in P |-> IF T = {} THEN st ELSE added(c, g[T \ {Max(T)}], s[Max(T)])]
      BY <2>1 DEF Joins
    <3>2. QED
      BY <3>1
  <2>3. \A T \in Q : m \notin T => T \in P
    BY <1>2
  <2>4. \A T \in P : T \in Q /\ m \notin T
    BY <1>2
  <2>5. ASSUME NEW T \in Q PROVE h[T] = W(T)
    <3>1. CASE m \in T
      <4>0. m \in Nat /\ T \subseteq 1..m
        OBVIOUS
      <4>1. Max(T) = m
        BY <3>1, <4>0, MaxTop
      <4>2. T \ {m} \in Q /\ m \notin T \ {m} /\ T # {}
        BY <3>1
      <4>3. h[T \ {m}] = g[T \ {m}] /\ h[T] = added(c, g[T \ {m}], s[m])
        BY <3>1, <4>2
      <4>4. QED
        BY <4>1, <4>2, <4>3
    <3>2. CASE m \notin T
      <4>1. T \in P /\ h[T] = g[T]
        BY <2>3, <3>2
      <4>2. T \ {Max(T)} \in P
        BY <4>1
      <4>3. h[T \ {Max(T)}] = g[T \ {Max(T)}]
        BY <2>4, <4>2
      <4>4. g[T] = IF T = {} THEN st ELSE added(c, g[T \ {Max(T)}], s[Max(T)])
        BY <2>2, <4>1
      <4>5. QED
        BY <4>1, <4>3, <4>4
    <3>3. QED
      BY <3>1, <3>2
  <2>6. h = [T \in Q |-> W(T)]
    <3> HIDE DEF W
    <3>1. \A T \in Q : h[T] = W(T)
      BY <2>5
    <3>2. h = [T \in Q |-> h[T]]
      OBVIOUS
    <3>3. [T \in Q |-> h[T]] = [T \in Q |-> W(T)]
      BY <3>1, Zenon
    <3>4. QED
      BY <3>2, <3>3, Zenon
  <2>7. Joins(h, c, st, s, m)
    BY <2>6 DEF Joins
  <2>8. QED
    BY <1>2, <2>7
<1>3. QED
  <2> HIDE DEF A
  <2>1. n \in A
    BY <1>1, <1>2, Climb
  <2>2. QED
    BY <2>1 DEF A

\* h is the run of a release over s from st.
IsJoin(h, c, st, s) == h[0] = st /\ \A k \in 1..Len(s) : h[k] = added(c, h[k - 1], s[k])

LEMMA JoinedRuns ==
  ASSUME NEW c, NEW st, NEW S, NEW s \in Seq(S)
  PROVE  \E h : IsJoin(h, c, st, s) /\ Joined(c, st, s) = h[Len(s)]
<1>0. Len(s) \in Nat /\ DOMAIN s = 1..Len(s)
  BY LenProperties
<1> DEFINE n == Len(s)
           g == CHOOSE g : Joins(g, c, st, s, n)
           h == [k \in 0..n |-> g[1..k]]
<1>1. Joins(g, c, st, s, n)
  BY <1>0, Joinable
<1>2. Joined(c, st, s) = g[1..n]
  BY <1>0, JoinedIs
<1>3. \A T \in SUBSET (1..n) : g[T] = IF T = {} THEN st ELSE added(c, g[T \ {Max(T)}], s[Max(T)])
  <2> HIDE DEF g
  <2>1. g = [T \in SUBSET (1..n) |-> IF T = {} THEN st ELSE added(c, g[T \ {Max(T)}], s[Max(T)])]
    BY <1>1 DEF Joins
  <2>2. QED
    BY <2>1
<1> HIDE DEF g
<1>4. h[0] = st
  <2>1. 1..0 = {} /\ 1..0 \in SUBSET (1..n) /\ 0 \in 0..n
    BY <1>0
  <2>2. QED
    BY <1>3, <2>1
<1>5. ASSUME NEW k \in 1..n PROVE h[k] = added(c, h[k - 1], s[k])
  <2>1. 1..k \in SUBSET (1..n) /\ 1..k # {} /\ (1..k) \ {k} = 1..(k - 1) /\ k \in 0..n /\ k - 1 \in 0..n
    <3>1. n \in Nat /\ k \in Nat /\ k <= n /\ k >= 1
      BY <1>0
    <3>2. 1..k \in SUBSET (1..n) /\ k \in 0..n /\ k - 1 \in 0..n /\ k \in 1..k
      BY <3>1
    <3>3. ASSUME NEW x PROVE x \in (1..k) \ {k} <=> x \in 1..(k - 1)
      BY <3>1
    <3>4. QED
      BY <3>2, <3>3
  <2>2. Max(1..k) = k
    <3>1. k \in Nat /\ 1..k \subseteq 1..k /\ k \in 1..k
      BY <1>0
    <3>2. QED
      BY <3>1, MaxTop
  <2>3. g[1..k] = added(c, g[(1..k) \ {k}], s[k])
    BY <1>3, <2>1, <2>2
  <2>4. QED
    BY <2>1, <2>3
<1>6. h[n] = g[1..n]
  BY <1>0
<1>7. QED
  <2> HIDE DEF h
  <2>1. IsJoin(h, c, st, s)
    BY <1>4, <1>5 DEF IsJoin
  <2>2. QED
    BY <1>2, <1>6, <2>1
-----------------------------------------------------------------------------
(* A request more on the account *)

\* a is b with x outstanding too.
Besides(a, b, x) == a.mid = b.mid /\ a.out = b.out \cup {x} /\ (a.bad => b.bad)

LEMMA ObserveBesides ==
  ASSUME NEW a \in Account, NEW b \in Account, NEW x \in Nat, Besides(a, b, x),
         NEW f \in Bytes, f.id # x
  PROVE  Besides(observe(a, f), observe(b, f), x)
<1>1. /\ f.id \in Nat /\ f.k \in {"response", "end", "early"}
      /\ a.bad \in BOOLEAN /\ b.bad \in BOOLEAN
  BY DEF Account, Bytes
<1>2. CASE f.k = "response"
  <2>1. ASSUME NEW st \in Account
        PROVE  /\ observe(st, f).out = st.out /\ observe(st, f).mid = f.id
               /\ observe(st, f).bad <=> (st.bad \/ st.out = {} \/ st.mid \notin {0, f.id})
    BY <1>2 DEF observe, Account
  <2>2. QED
    BY <1>1, <2>1 DEF Besides
<1>3. CASE f.k = "end"
  <2>1. ASSUME NEW st \in Account
        PROVE  /\ observe(st, f).out = st.out \ {f.id} /\ observe(st, f).mid = 0
               /\ observe(st, f).bad <=> (st.bad \/ f.id \notin st.out \/ st.mid \notin {0, f.id})
    BY <1>3 DEF observe, Account
  <2>2. QED
    BY <1>1, <2>1 DEF Besides
<1>4. CASE f.k = "early"
  <2>1. ASSUME NEW st \in Account
        PROVE  /\ observe(st, f).out = st.out \ {f.id} /\ observe(st, f).mid = 0
               /\ observe(st, f).bad <=> (st.bad \/ f.id \notin st.out \/ st.mid # 0)
    BY <1>4 DEF observe, Account
  <2>2. QED
    BY <1>1, <2>1 DEF Besides
<1>5. QED
  BY <1>1, <1>2, <1>3, <1>4

LEMMA FoldBesides ==
  ASSUME NEW a \in Account, NEW b \in Account, NEW x \in Nat, Besides(a, b, x),
         NEW s \in Seq(Bytes), \A k \in 1..Len(s) : s[k].id # x
  PROVE  Besides(Fold(a, s), Fold(b, s), x)
<1>1. PICK g : IsRun(g, a, s) /\ Fold(a, s) = g[Len(s)]
  BY FoldRuns
<1>2. PICK h : IsRun(h, b, s) /\ Fold(b, s) = h[Len(s)]
  BY FoldRuns
<1>3. Len(s) \in Nat /\ \A k \in 1..Len(s) : s[k] \in Bytes
  BY SeqFacts
<1>4. /\ g[0] = a /\ \A k \in 1..Len(s) : g[k] = observe(g[k - 1], s[k])
      /\ h[0] = b /\ \A k \in 1..Len(s) : h[k] = observe(h[k - 1], s[k])
  BY <1>1, <1>2 DEF IsRun
<1> DEFINE A == {k \in 0..Len(s) : g[k] \in Account /\ h[k] \in Account /\ Besides(g[k], h[k], x)}
<1>5. 0 \in A
  BY <1>3, <1>4
<1>6. ASSUME NEW k \in 1..Len(s), k - 1 \in A PROVE k \in A
  <2>1. /\ g[k - 1] \in Account /\ h[k - 1] \in Account /\ Besides(g[k - 1], h[k - 1], x)
        /\ s[k] \in Bytes /\ s[k].id # x /\ k \in 0..Len(s)
    BY <1>3, <1>6
  <2>2. g[k] \in Account /\ h[k] \in Account
    BY <1>4, <2>1, ObserveFacts
  <2>3. Besides(g[k], h[k], x)
    BY <1>4, <2>1, ObserveBesides
  <2>4. QED
    BY <2>1, <2>2, <2>3
<1>7. Len(s) \in A
  <2> HIDE DEF A
  <2>1. \A k \in 0..Len(s) : k \in A
    BY <1>3, <1>5, <1>6, Climb
  <2>2. Len(s) \in 0..Len(s)
    BY <1>3
  <2>3. QED
    BY <2>1, <2>2
<1>8. QED
  BY <1>1, <1>2, <1>7

-----------------------------------------------------------------------------
(* What a step does to one slab entry *)

SlabSeqs ==
  /\ slab \in Seq(Conns \cup {0})
  /\ recv \in Seq(RecvStates) /\ Len(recv) = Len(slab)
  /\ buf \in Seq(Seq(Request)) /\ Len(buf) = Len(slab)
  /\ shed \in Seq(Nat) /\ Len(shed) = Len(slab)

LEMMA SlabFacts ==
  ASSUME SlabTypes
  PROVE  /\ SlabSeqs /\ Len(slab) \in Nat
         /\ \A i \in Entries : /\ i \in Nat /\ i >= 1 /\ slab[i] \in Conns \cup {0} /\ recv[i] \in RecvStates
                               /\ buf[i] \in Seq(Request) /\ shed[i] \in Nat
<1>1. SlabSeqs /\ Len(slab) \in Nat
  BY DEF SlabTypes, SlabSeqs
<1>2. ASSUME NEW i \in Entries
      PROVE  /\ i \in Nat /\ i >= 1 /\ slab[i] \in Conns \cup {0} /\ recv[i] \in RecvStates
             /\ buf[i] \in Seq(Request) /\ shed[i] \in Nat
  <2>1. i \in 1..Len(slab) /\ i \in 1..Len(recv) /\ i \in 1..Len(buf) /\ i \in 1..Len(shed)
    BY <1>1 DEF SlabSeqs, Entries
  <2>2. slab[i] \in Conns \cup {0}
    BY <1>1, <2>1, SeqFacts DEF SlabSeqs
  <2>3. recv[i] \in RecvStates
    BY <1>1, <2>1, SeqFacts DEF SlabSeqs
  <2>4. buf[i] \in Seq(Request)
    BY <1>1, <2>1, SeqFacts DEF SlabSeqs
  <2>5. shed[i] \in Nat
    BY <1>1, <2>1, SeqFacts DEF SlabSeqs
  <2>6. QED
    BY <1>1, <2>1, <2>2, <2>3, <2>4, <2>5
<1>3. QED
  BY <1>1, <1>2

\* Entry i, old or new, comes to hold c in state r, with buffer b and s to shed.
Becomes(i, c, r, b, s) ==
  /\ SlabSeqs' /\ Entries' = Entries \cup {i} /\ i \in Nat
  /\ slab'[i] = c /\ recv'[i] = r /\ buf'[i] = b /\ shed'[i] = s
  /\ \A j \in Entries : j # i =>
       slab'[j] = slab[j] /\ recv'[j] = recv[j] /\ buf'[j] = buf[j] /\ shed'[j] = shed[j]

LEMMA PutOrKept ==
  ASSUME NEW S, NEW s \in Seq(S), NEW i \in 1..Len(s), NEW e \in S, NEW t,
         t = [s EXCEPT ![i] = e] \/ (t = s /\ e = s[i])
  PROVE  /\ t \in Seq(S) /\ Len(t) = Len(s) /\ t[i] = e
         /\ \A k \in 1..Len(s) : k # i => t[k] = s[k]
<1>1. CASE t = [s EXCEPT ![i] = e]
  BY <1>1, PutEffect
<1>2. CASE t = s /\ e = s[i]
  BY <1>2
<1>3. QED
  BY <1>1, <1>2

LEMMA BecomesPut ==
  ASSUME SlabTypes, NEW i \in Entries, NEW c \in Conns \cup {0}, NEW r \in RecvStates,
         NEW b \in Seq(Request), NEW s \in Nat,
         slab' = [slab EXCEPT ![i] = c] \/ (slab' = slab /\ c = slab[i]),
         recv' = [recv EXCEPT ![i] = r] \/ (recv' = recv /\ r = recv[i]),
         buf' = [buf EXCEPT ![i] = b] \/ (buf' = buf /\ b = buf[i]),
         shed' = [shed EXCEPT ![i] = s] \/ (shed' = shed /\ s = shed[i])
  PROVE  Becomes(i, c, r, b, s) /\ Entries' = Entries
<1>0. SlabSeqs /\ Len(slab) \in Nat /\ i \in 1..Len(slab)
  BY SlabFacts DEF Entries
<1>1. /\ slab' \in Seq(Conns \cup {0}) /\ Len(slab') = Len(slab) /\ slab'[i] = c
      /\ \A k \in 1..Len(slab) : k # i => slab'[k] = slab[k]
  <2>1. slab \in Seq(Conns \cup {0}) /\ i \in 1..Len(slab)
    BY <1>0 DEF SlabSeqs
  <2>2. QED
    BY <2>1, PutOrKept
<1>2. /\ recv' \in Seq(RecvStates) /\ Len(recv') = Len(slab) /\ recv'[i] = r
      /\ \A k \in 1..Len(slab) : k # i => recv'[k] = recv[k]
  <2>1. recv \in Seq(RecvStates) /\ i \in 1..Len(recv) /\ Len(recv) = Len(slab)
    BY <1>0 DEF SlabSeqs
  <2>2. QED
    BY <2>1, PutOrKept
<1>3. /\ buf' \in Seq(Seq(Request)) /\ Len(buf') = Len(slab) /\ buf'[i] = b
      /\ \A k \in 1..Len(slab) : k # i => buf'[k] = buf[k]
  <2>1. buf \in Seq(Seq(Request)) /\ i \in 1..Len(buf) /\ Len(buf) = Len(slab)
    BY <1>0 DEF SlabSeqs
  <2>2. QED
    BY <2>1, PutOrKept
<1>4. /\ shed' \in Seq(Nat) /\ Len(shed') = Len(slab) /\ shed'[i] = s
      /\ \A k \in 1..Len(slab) : k # i => shed'[k] = shed[k]
  <2>1. shed \in Seq(Nat) /\ i \in 1..Len(shed) /\ Len(shed) = Len(slab)
    BY <1>0 DEF SlabSeqs
  <2>2. QED
    BY <2>1, PutOrKept
<1>5. SlabSeqs'
  BY <1>1, <1>2, <1>3, <1>4 DEF SlabSeqs
<1>6. Entries' = Entries /\ i \in Nat /\ Entries = Entries \cup {i}
  BY <1>0, <1>1 DEF Entries
<1>7. QED
  BY <1>1, <1>2, <1>3, <1>4, <1>5, <1>6 DEF Becomes, Entries

LEMMA BecomesNew ==
  ASSUME SlabTypes, NEW c \in Conns,
         slab' = Append(slab, c), recv' = Append(recv, "Armed"),
         buf' = Append(buf, <<>>), shed' = Append(shed, 0)
  PROVE  Becomes(Len(slab) + 1, c, "Armed", <<>>, 0) /\ Len(slab) + 1 \notin Entries
<1>0. SlabSeqs /\ Len(slab) \in Nat
  BY SlabFacts
<1>1. /\ slab' \in Seq(Conns \cup {0}) /\ Len(slab') = Len(slab) + 1 /\ slab'[Len(slab) + 1] = c
      /\ \A k \in 1..Len(slab) : slab'[k] = slab[k]
  BY <1>0, AppendEffect DEF SlabSeqs
<1>2. /\ recv' \in Seq(RecvStates) /\ Len(recv') = Len(slab) + 1 /\ recv'[Len(slab) + 1] = "Armed"
      /\ \A k \in 1..Len(slab) : recv'[k] = recv[k]
  <2>1. recv \in Seq(RecvStates) /\ "Armed" \in RecvStates /\ Len(recv) = Len(slab)
    BY <1>0 DEF SlabSeqs, RecvStates
  <2>2. QED
    BY <2>1, AppendEffect
<1>3. /\ buf' \in Seq(Seq(Request)) /\ Len(buf') = Len(slab) + 1 /\ buf'[Len(slab) + 1] = <<>>
      /\ \A k \in 1..Len(slab) : buf'[k] = buf[k]
  <2>1. buf \in Seq(Seq(Request)) /\ <<>> \in Seq(Request) /\ Len(buf) = Len(slab)
    BY <1>0 DEF SlabSeqs
  <2>2. QED
    BY <2>1, AppendEffect
<1>4. /\ shed' \in Seq(Nat) /\ Len(shed') = Len(slab) + 1 /\ shed'[Len(slab) + 1] = 0
      /\ \A k \in 1..Len(slab) : shed'[k] = shed[k]
  <2>1. shed \in Seq(Nat) /\ 0 \in Nat /\ Len(shed) = Len(slab)
    BY <1>0 DEF SlabSeqs
  <2>2. QED
    BY <2>1, AppendEffect
<1>5. SlabSeqs'
  BY <1>1, <1>2, <1>3, <1>4 DEF SlabSeqs
<1>6. Entries' = Entries \cup {Len(slab) + 1} /\ Len(slab) + 1 \in Nat /\ Len(slab) + 1 \notin Entries
  BY <1>0, <1>1 DEF Entries
<1>7. QED
  BY <1>1, <1>2, <1>3, <1>4, <1>5, <1>6 DEF Becomes, Entries

LEMMA VacateEffect ==
  ASSUME SlabTypes, NEW i \in Entries, Vacate(i)
  PROVE  /\ Becomes(i, 0, "Idle", <<>>, 0) /\ Entries' = Entries
         /\ free' = Append(free, i) /\ free' \in Seq(Nat)
<1>1. /\ slab' = [slab EXCEPT ![i] = 0] /\ recv' = [recv EXCEPT ![i] = "Idle"]
      /\ buf' = [buf EXCEPT ![i] = <<>>] /\ shed' = [shed EXCEPT ![i] = 0] /\ free' = Append(free, i)
  BY DEF Vacate
<1>2. "Idle" \in RecvStates /\ <<>> \in Seq(Request) /\ 0 \in Conns \cup {0} /\ 0 \in Nat
  BY DEF RecvStates
<1>3. Becomes(i, 0, "Idle", <<>>, 0) /\ Entries' = Entries
  BY <1>1, <1>2, BecomesPut
<1>4. i \in Nat /\ free \in Seq(Nat)
  BY SlabFacts DEF SlabTypes
<1>5. QED
  BY <1>1, <1>3, <1>4, AppendEffect

\* A teardown frees the entry, or leaves it dying (begin_teardown, on_teardown).
LEMMA TeardownEffect ==
  ASSUME SlabTypes, NEW i \in Entries, recv[i] # "Dying", BeginTeardown(i)
  PROVE  /\ sock' = [sock EXCEPT ![slab[i]] = "shut"]
         /\ control' = Append(control, <<"Disconnected", slab[i]>>)
         /\ Entries' = Entries
         /\ \/ /\ recv[i] \in {"Idle", "Parked"} /\ Becomes(i, 0, "Idle", <<>>, 0)
               /\ free' = Append(free, i) /\ free' \in Seq(Nat) /\ ops' = ops
            \/ /\ recv[i] \in {"Armed", "Resuming", "ParkedCancelling"}
               /\ Becomes(i, slab[i], "Dying", buf[i], shed[i])
               /\ free' = free /\ ops' \in {ops, Cancelled(i)}
<1>0. recv[i] \in RecvStates /\ slab[i] \in Conns \cup {0} /\ buf[i] \in Seq(Request) /\ shed[i] \in Nat
  BY SlabFacts
<1>1. /\ sock' = [sock EXCEPT ![slab[i]] = "shut"]
      /\ control' = Append(control, <<"Disconnected", slab[i]>>)
  BY DEF BeginTeardown
<1>2. CASE recv[i] \in {"Idle", "Parked"}
  <2>1. on_teardown(recv[i]) = <<recv[i], "FreeNow">>
    BY <1>2 DEF on_teardown
  <2>2. Vacate(i) /\ ops' = ops
    BY <2>1 DEF BeginTeardown
  <2>3. QED
    BY <1>1, <1>2, <2>2, VacateEffect
<1>3. CASE recv[i] \in {"Armed", "Resuming", "ParkedCancelling"}
  <2>1. on_teardown(recv[i])[1] = "Dying" /\ on_teardown(recv[i])[2] \in {"Cancel", "AwaitCancel"}
    BY <1>3 DEF on_teardown
  <2>2. recv' = [recv EXCEPT ![i] = "Dying"] /\ UNCHANGED <<slab, free, buf, shed>>
    BY <2>1 DEF BeginTeardown
  <2>3. ops' \in {ops, Cancelled(i)}
    BY <2>1 DEF BeginTeardown
  <2>4. Becomes(i, slab[i], "Dying", buf[i], shed[i]) /\ Entries' = Entries
    <3>1. "Dying" \in RecvStates
      BY DEF RecvStates
    <3>2. QED
      BY <1>0, <2>2, <3>1, BecomesPut
  <2>5. QED
    BY <1>1, <1>3, <2>2, <2>3, <2>4
<1>4. QED
  BY <1>0, <1>2, <1>3 DEF RecvStates

\* A registration takes a vacant entry, or a new one.
LEMMA RegisterEffect ==
  ASSUME SlabTypes, AcceptTypes, FreeVacant, Register
  PROVE  /\ busy = 0 /\ regs # <<>> /\ regs' = Tail(regs) /\ Head(regs) \in Conns
         /\ \E i \in Nat :
              /\ Becomes(i, Head(regs), "Armed", <<>>, 0)
              /\ \/ i \notin Entries /\ free' = free
                 \/ i \in Entries /\ slab[i] = 0 /\ free # <<>> /\ free' = Front(free) /\ i = Last(free)
              /\ ops' = ops \cup {Op(i, Head(regs))}
<1>1. busy = 0 /\ regs # <<>> /\ regs' = Tail(regs) /\ Head(regs) \in Conns
  BY SeqFacts DEF Register, AcceptTypes
<1>2. CASE free = <<>>
  <2>1. /\ slab' = Append(slab, Head(regs)) /\ recv' = Append(recv, "Armed") /\ buf' = Append(buf, <<>>)
        /\ shed' = Append(shed, 0) /\ free' = free /\ ops' = ops \cup {Op(Len(slab) + 1, Head(regs))}
    BY <1>2 DEF Register
  <2>2. Becomes(Len(slab) + 1, Head(regs), "Armed", <<>>, 0) /\ Len(slab) + 1 \notin Entries
    BY <1>1, <2>1, BecomesNew
  <2>3. Len(slab) + 1 \in Nat
    BY SlabFacts
  <2>4. QED
    BY <1>1, <2>1, <2>2, <2>3
<1>3. CASE free # <<>>
  <2> DEFINE i == Last(free)
  <2>1. i \in Entries /\ slab[i] = 0 /\ buf[i] = <<>> /\ shed[i] = 0 /\ i \in Nat
    <3>1. Len(free) \in DOMAIN free
      BY <1>3, SeqFacts DEF SlabTypes
    <3>2. QED
      BY <3>1, SlabFacts DEF FreeVacant, Last
  <2>2. /\ slab' = [slab EXCEPT ![i] = Head(regs)] /\ recv' = [recv EXCEPT ![i] = "Armed"]
        /\ buf' = buf /\ shed' = shed /\ free' = Front(free) /\ ops' = ops \cup {Op(i, Head(regs))}
    BY <1>3 DEF Register
  <2> HIDE DEF i
  <2>3. Becomes(i, Head(regs), "Armed", <<>>, 0)
    <3>1. "Armed" \in RecvStates /\ <<>> \in Seq(Request) /\ Head(regs) \in Conns \cup {0}
      BY <1>1 DEF RecvStates
    <3>2. QED
      BY <2>1, <2>2, <3>1, BecomesPut
  <2>4. QED
    BY <1>1, <1>3, <2>1, <2>2, <2>3 DEF i
<1>4. QED
  BY <1>2, <1>3

\* The reader's call on entry i begins, or none does.
CallBegins(i) ==
  \/ busy' = 0 /\ batch' = batch /\ staged' = staged
  \/ busy' = i /\ recv[i] # "Dying" /\ batch' = batch /\ staged' = staged

\* The receive state after a completion that leaves the entry to its tenant.
Afterwards(r, terminal) == IF terminal THEN after_terminal(r) ELSE r

\* A completion is kept or dropped, rearms the receive, or vacates the entry.
CqeKept(i, q) ==
  /\ \E b \in {buf[i], buf[i] \o q.frames} :
       Becomes(i, slab[i], Afterwards(recv[i], q.terminal), b, shed[i])
  /\ ~(q.terminal /\ recv[i] = "Dying")
  /\ free' = free /\ ops' = ops /\ control' = control /\ CallBegins(i)

CqeArms(i, q) ==
  /\ q.terminal /\ recv[i] # "Dying"
  /\ Becomes(i, slab[i], "Armed", buf[i], shed[i])
  /\ free' = free /\ ops' = ops \cup {Op(i, slab[i])} /\ control' = control
  /\ busy' = 0 /\ batch' = batch /\ staged' = staged

CqeVacates(i, q) ==
  /\ q.terminal
  /\ Becomes(i, 0, "Idle", <<>>, 0)
  /\ free' = Append(free, i) /\ free' \in Seq(Nat) /\ ops' = ops
  /\ \/ control' = control
     \/ q.res = "Closed" /\ control' = Append(control, <<"Disconnected", slab[i]>>)
  /\ busy' = 0 /\ batch' = batch /\ staged' = staged

LEMMA AfterTerminal ==
  ASSUME NEW r \in RecvStates
  PROVE  /\ after_terminal(r) \in RecvStates
         /\ r \in {"Armed", "Resuming"} => after_terminal(r) = "Idle"
         /\ r = "ParkedCancelling" => after_terminal(r) = "Parked"
         /\ r \in {"Idle", "Parked", "Dying"} => after_terminal(r) = r
BY DEF RecvStates, after_terminal

LEMMA HeadCqe ==
  ASSUME SlabTypes, CqOwned, cq # <<>>
  PROVE  /\ 1 \in DOMAIN cq /\ Head(cq) = cq[1] /\ cq[1] \in Completion /\ cq[1].idx \in Entries
         /\ cq[1].frames \in Seq(Request) /\ cq[1].terminal \in BOOLEAN
         /\ cq[1].res \in {"Data", "Empty", "Closed"}
         /\ slab[cq[1].idx] # 0 /\ recv[cq[1].idx] \in Engaged
<1>1. 1 \in DOMAIN cq /\ Head(cq) = cq[1] /\ cq[1] \in Completion
  BY SeqFacts DEF SlabTypes
<1>2. QED
  BY <1>1 DEF CqOwned, Completion

LEMMA TakeCqeEffect ==
  ASSUME SlabTypes, CqOwned, BusyOwned, NEW v, TakeCqe(v)
  PROVE  /\ busy = 0 /\ cq # <<>> /\ cq' = Tail(cq) /\ Entries' = Entries
         /\ \/ CqeKept(cq[1].idx, cq[1])
            \/ CqeArms(cq[1].idx, cq[1])
            \/ CqeVacates(cq[1].idx, cq[1])
<1>1. busy = 0 /\ cq # <<>> /\ cq' = Tail(cq)
  BY DEF TakeCqe
<1> DEFINE q == cq[1]
           i == q.idx
           step == on_cqe(recv[i], q.res, q.terminal)
           after == Afterwards(recv[i], q.terminal)
           kept == [buf EXCEPT ![i] = @ \o q.frames]
<1>2. /\ Head(cq) = q /\ i \in Entries /\ q.frames \in Seq(Request) /\ q.terminal \in BOOLEAN
      /\ q.res \in {"Data", "Empty", "Closed"} /\ slab[i] # 0 /\ recv[i] \in Engaged
  BY <1>1, HeadCqe
<1>3. /\ slab[i] \in Conns \cup {0} /\ buf[i] \in Seq(Request) /\ shed[i] \in Nat /\ recv[i] \in RecvStates
      /\ batch = <<>> /\ staged = <<>>
  <2>1. 0 \notin Entries
    BY DEF Entries
  <2>2. QED
    BY <1>1, <1>2, <2>1, SlabFacts DEF BusyOwned
<1>4. /\ step[2] \in {"Discard", "Nothing"} =>
           /\ recv' = [recv EXCEPT ![i] = step[1]]
           /\ NoCall /\ UNCHANGED <<slab, free, buf, shed, ops, control>>
      /\ step[2] = "Keep" =>
           /\ recv' = [recv EXCEPT ![i] = step[1]] /\ buf' = kept
           /\ NoCall /\ UNCHANGED <<slab, free, shed, ops, control>>
      /\ step[2] = "Arm" =>
           /\ recv' = [recv EXCEPT ![i] = step[1]] /\ ops' = ops \cup {Op(i, slab[i])}
           /\ NoCall /\ UNCHANGED <<slab, free, buf, shed, control>>
      /\ step[2] = "Free" => Vacate(i) /\ NoCall /\ UNCHANGED <<ops, control>>
      /\ step[2] = "Remove" =>
           /\ Vacate(i)
           /\ control' = Append(control, <<"Disconnected", slab[i]>>)
           /\ NoCall /\ UNCHANGED ops
      /\ step[2] = "Process" =>
           /\ recv' = [recv EXCEPT ![i] = step[1]] /\ buf' = kept
           /\ BeginCall(i, v)
           /\ UNCHANGED <<slab, free, shed, ops, control>>
  BY <1>2 DEF TakeCqe
<1>5. after \in RecvStates /\ (recv[i] # "Dying" => after # "Dying")
  BY <1>3, AfterTerminal DEF Afterwards, RecvStates
<1>6. NoCall => busy' = 0 /\ batch' = batch /\ staged' = staged
  BY <1>1 DEF NoCall, callVars
<1>7. BeginCall(i, v) => busy' = i /\ batch' = batch /\ staged' = staged
  BY <1>3 DEF BeginCall
<1>8. kept = [buf EXCEPT ![i] = buf[i] \o q.frames] /\ buf[i] \o q.frames \in Seq(Request)
  BY <1>2, <1>3, ConcatEffect
<1>9. (q.res # "Data" => q.terminal)
  BY <1>1, HeadCqe DEF CqOwned
<1>10. CASE recv[i] = "Dying" /\ ~q.terminal
  <2>1. step = <<recv[i], "Discard">> /\ after = recv[i]
    BY <1>10 DEF on_cqe, Afterwards
  <2> HIDE DEF q, i, step, after, kept
  <2>2. /\ recv' = [recv EXCEPT ![i] = after] /\ NoCall /\ UNCHANGED <<slab, free, buf, shed, ops, control>>
    BY <1>4, <2>1
  <2>3. Becomes(i, slab[i], after, buf[i], shed[i]) /\ Entries' = Entries
    BY <1>2, <1>3, <1>5, <2>2, BecomesPut
  <2>4. CqeKept(i, q)
    BY <1>6, <1>10, <2>2, <2>3 DEF CqeKept, CallBegins, after
  <2>5. QED
    BY <1>1, <2>3, <2>4 DEF i, q
<1>11. CASE recv[i] = "Dying" /\ q.terminal
  <2>1. step = <<recv[i], "Free">>
    BY <1>11 DEF on_cqe
  <2> HIDE DEF q, i, step, after, kept
  <2>2. Vacate(i) /\ NoCall /\ UNCHANGED <<ops, control>>
    BY <1>4, <2>1
  <2>3. CqeVacates(i, q) /\ Entries' = Entries
    BY <1>2, <1>6, <1>11, <2>2, VacateEffect DEF CqeVacates
  <2>4. QED
    BY <1>1, <2>3 DEF i, q
<1>12. CASE recv[i] # "Dying" /\ q.res = "Closed"
  <2>1. step[2] = "Remove"
    BY <1>12 DEF on_cqe
  <2> HIDE DEF q, i, step, after, kept
  <2>2. Vacate(i) /\ NoCall /\ UNCHANGED ops /\ control' = Append(control, <<"Disconnected", slab[i]>>)
    BY <1>4, <2>1
  <2>3. q.terminal
    BY <1>9, <1>12
  <2>4. CqeVacates(i, q) /\ Entries' = Entries
    BY <1>2, <1>6, <1>12, <2>2, <2>3, VacateEffect DEF CqeVacates
  <2>5. QED
    BY <1>1, <2>4 DEF i, q
<1>13. CASE recv[i] # "Dying" /\ q.res = "Empty" /\ after = "Idle"
  <2>1. step = <<"Armed", "Arm">>
    BY <1>13 DEF on_cqe, Afterwards
  <2> HIDE DEF q, i, step, after, kept
  <2>2. /\ recv' = [recv EXCEPT ![i] = "Armed"] /\ NoCall /\ UNCHANGED <<slab, free, buf, shed, control>>
        /\ ops' = ops \cup {Op(i, slab[i])}
    BY <1>4, <2>1
  <2>3. Becomes(i, slab[i], "Armed", buf[i], shed[i]) /\ Entries' = Entries
    <3>1. "Armed" \in RecvStates
      BY DEF RecvStates
    <3>2. QED
      BY <1>2, <1>3, <2>2, <3>1, BecomesPut
  <2>4. CqeArms(i, q)
    BY <1>6, <1>9, <1>13, <2>2, <2>3 DEF CqeArms
  <2>5. QED
    BY <1>1, <2>3, <2>4 DEF i, q
<1>14. CASE recv[i] # "Dying" /\ q.res = "Empty" /\ after # "Idle"
  <2>1. step = <<after, "Nothing">>
    BY <1>14 DEF on_cqe, Afterwards
  <2> HIDE DEF q, i, step, after, kept
  <2>2. /\ recv' = [recv EXCEPT ![i] = after] /\ NoCall /\ UNCHANGED <<slab, free, buf, shed, ops, control>>
    BY <1>4, <2>1
  <2>3. Becomes(i, slab[i], after, buf[i], shed[i]) /\ Entries' = Entries
    BY <1>2, <1>3, <1>5, <2>2, BecomesPut
  <2>4. CqeKept(i, q)
    BY <1>6, <1>14, <2>2, <2>3 DEF CqeKept, CallBegins, after
  <2>5. QED
    BY <1>1, <2>3, <2>4 DEF i, q
<1>15. CASE recv[i] # "Dying" /\ q.res = "Data"
  <2>1. step[1] = after /\ step[2] \in {"Keep", "Process"}
    BY <1>15 DEF on_cqe, Afterwards
  <2> HIDE DEF q, i, step, after, kept
  <2>2. /\ recv' = [recv EXCEPT ![i] = after] /\ buf' = kept /\ UNCHANGED <<slab, free, shed, ops, control>>
        /\ (NoCall \/ BeginCall(i, v))
    BY <1>4, <2>1
  <2>3. Becomes(i, slab[i], after, buf[i] \o q.frames, shed[i]) /\ Entries' = Entries
    BY <1>2, <1>3, <1>5, <1>8, <2>2, BecomesPut
  <2>4. CqeKept(i, q)
    BY <1>6, <1>7, <1>15, <2>2, <2>3 DEF CqeKept, CallBegins, after
  <2>5. QED
    BY <1>1, <2>3, <2>4 DEF i, q
<1>16. QED
  BY <1>2, <1>10, <1>11, <1>12, <1>13, <1>14, <1>15

\* The frame at the head of entry i is answered, parks the connection, or goes to
\* the ring (process_client_frames).
TailOf(i) == {<<slab[i], buf[i][k].id>> : k \in DOMAIN buf[i]}

FrameAnswered(i) ==
  /\ \E kind \in {"early", "rejected"} :
       staged' = Append(staged, [conn |-> slab[i], id |-> buf[i][1].id, kind |-> kind])
  /\ batch' = batch /\ onRing' = onRing
  /\ \E s \in Nat : /\ Becomes(i, slab[i], recv[i], Tail(buf[i]), s)
                    /\ \/ tails' = tails /\ s = (IF shed[i] > 0 THEN shed[i] - 1 ELSE 0)
                       \/ shed[i] = 0 /\ tails' = tails \cup TailOf(i) /\ s = Len(buf[i]) - 1

FrameParks(i) ==
  /\ staged' = staged /\ batch' = batch /\ onRing' = onRing
  /\ \E s \in Nat : /\ Becomes(i, slab[i], recv[i], buf[i], s)
                    /\ \/ tails' = tails /\ s = shed[i]
                       \/ shed[i] = 0 /\ tails' = tails \cup TailOf(i) /\ s = Len(buf[i])

FrameTaken(i) ==
  /\ staged' = staged /\ tails' = tails /\ shed[i] = 0
  /\ batch' = Append(batch, [conn |-> slab[i], id |-> buf[i][1].id])
  /\ onRing' = onRing \cup {<<slab[i], buf[i][1].id>>}
  /\ Becomes(i, slab[i], recv[i], Tail(buf[i]), 0)

LEMMA BusyFacts ==
  ASSUME SlabTypes, BusyOwned, busy # 0
  PROVE  /\ busy \in Entries /\ slab[busy] # 0 /\ recv[busy] # "Dying" /\ slab[busy] \in Conns
         /\ buf[busy] \in Seq(Request) /\ shed[busy] \in Nat /\ recv[busy] \in RecvStates
BY SlabFacts DEF BusyOwned

LEMMA ProcessFrameEffect ==
  ASSUME SlabTypes, BusyOwned, ProcessFrame
  PROVE  /\ busy # 0 /\ buf[busy] # <<>> /\ Entries' = Entries
         /\ FrameAnswered(busy) \/ FrameParks(busy) \/ FrameTaken(busy)
<1> DEFINE i == busy
           f == Head(buf[i])
<1>1. i # 0 /\ buf[i] # <<>> /\ UNCHANGED <<slab, recv>>
  BY DEF ProcessFrame
<1>2. /\ i \in Entries /\ slab[i] # 0 /\ slab[i] \in Conns /\ slab[i] \in Conns \cup {0}
      /\ buf[i] \in Seq(Request) /\ shed[i] \in Nat /\ recv[i] \in RecvStates
  BY <1>1, BusyFacts
<1>3. f = buf[i][1] /\ Tail(buf[i]) \in Seq(Request) /\ Len(buf[i]) \in Nat /\ Len(buf[i]) >= 1
  BY <1>1, <1>2, TailEffect
<1>4. ASSUME NEW kind \in {"early", "rejected"}, Answer(i, kind)
      PROVE  \/ /\ EarlyFits /\ buf' = [buf EXCEPT ![i] = Tail(buf[i])]
                /\ staged' = Append(staged, [conn |-> slab[i], id |-> buf[i][1].id, kind |-> kind])
             \/ ~EarlyFits /\ staged' = staged /\ buf' = buf
  BY <1>3, <1>4 DEF Answer
<1>5. ASSUME NEW s \in Nat, shed' = [shed EXCEPT ![i] = s] \/ (shed' = shed /\ s = shed[i])
      PROVE  /\ buf' = [buf EXCEPT ![i] = Tail(buf[i])] =>
                  Becomes(i, slab[i], recv[i], Tail(buf[i]), s) /\ Entries' = Entries
             /\ buf' = buf => Becomes(i, slab[i], recv[i], buf[i], s) /\ Entries' = Entries
  BY <1>1, <1>2, <1>3, <1>5, BecomesPut
<1>6. CASE /\ shed[i] > 0 /\ Answer(i, "early")
           /\ shed' = [shed EXCEPT ![i] = ShedLeft(@)]
           /\ UNCHANGED <<batch, onRing, tails>>
  <2>1. CASE EarlyFits
    <3>1. shed' = [shed EXCEPT ![i] = shed[i] - 1] /\ shed[i] - 1 \in Nat
      BY <1>2, <1>6, <2>1 DEF ShedLeft
    <3>2. buf' = [buf EXCEPT ![i] = Tail(buf[i])]
          /\ staged' = Append(staged, [conn |-> slab[i], id |-> buf[i][1].id, kind |-> "early"])
      BY <1>4, <1>6, <2>1
    <3>3. Becomes(i, slab[i], recv[i], Tail(buf[i]), shed[i] - 1) /\ Entries' = Entries
      BY <1>5, <3>1, <3>2
    <3>4. FrameAnswered(i)
      BY <1>6, <3>1, <3>2, <3>3 DEF FrameAnswered
    <3>5. QED
      BY <1>1, <3>3, <3>4
  <2>2. CASE ~EarlyFits
    <3>1. shed' = [shed EXCEPT ![i] = shed[i]]
      BY <1>2, <1>6, <2>2 DEF ShedLeft
    <3>2. buf' = buf /\ staged' = staged
      BY <1>4, <1>6, <2>2
    <3>3. Becomes(i, slab[i], recv[i], buf[i], shed[i]) /\ Entries' = Entries
      BY <1>2, <1>5, <3>1, <3>2
    <3>4. FrameParks(i)
      BY <1>2, <1>6, <3>2, <3>3 DEF FrameParks
    <3>5. QED
      BY <1>1, <3>3, <3>4
  <2>3. QED
    BY <2>1, <2>2
<1>7. CASE /\ shed[i] = 0
           /\ Answer(i, IF f.kind = "refused" THEN "early" ELSE "rejected")
           /\ UNCHANGED <<shed, batch, onRing, tails>>
  <2>1. PICK kind \in {"early", "rejected"} : Answer(i, kind)
    BY <1>7
  <2>2. CASE EarlyFits
    <3>1. buf' = [buf EXCEPT ![i] = Tail(buf[i])]
          /\ staged' = Append(staged, [conn |-> slab[i], id |-> buf[i][1].id, kind |-> kind])
      BY <1>4, <2>1, <2>2
    <3>2. Becomes(i, slab[i], recv[i], Tail(buf[i]), 0) /\ Entries' = Entries
      BY <1>5, <1>7, <3>1
    <3>3. FrameAnswered(i)
      BY <1>7, <3>1, <3>2 DEF FrameAnswered
    <3>4. QED
      BY <1>1, <3>2, <3>3
  <2>3. CASE ~EarlyFits
    <3>1. buf' = buf /\ staged' = staged
      BY <1>4, <2>1, <2>3
    <3>2. Becomes(i, slab[i], recv[i], buf[i], shed[i]) /\ Entries' = Entries
      BY <1>2, <1>5, <1>7, <3>1
    <3>3. FrameParks(i)
      BY <1>2, <1>7, <3>1, <3>2 DEF FrameParks
    <3>4. QED
      BY <1>1, <3>2, <3>3
  <2>4. QED
    BY <2>2, <2>3
<1>8. CASE /\ shed[i] = 0
           /\ batch' = Append(batch, [conn |-> slab[i], id |-> f.id])
           /\ onRing' = onRing \cup {<<slab[i], f.id>>}
           /\ buf' = [buf EXCEPT ![i] = Tail(@)]
           /\ UNCHANGED <<shed, staged, stuck, tails>>
  <2>1. buf' = [buf EXCEPT ![i] = Tail(buf[i])]
    BY <1>8
  <2>2. Becomes(i, slab[i], recv[i], Tail(buf[i]), 0) /\ Entries' = Entries
    BY <1>5, <1>8, <2>1
  <2>3. FrameTaken(i)
    BY <1>3, <1>8, <2>2 DEF FrameTaken
  <2>4. QED
    BY <1>1, <2>2, <2>3
<1>9. CASE /\ shed[i] = 0 /\ Answer(i, "early")
           /\ shed' = [shed EXCEPT ![i] = ShedLeft(Len(buf[i]))]
           /\ tails' = tails \cup TailOf(i)
           /\ UNCHANGED <<batch, onRing>>
  <2>1. CASE EarlyFits
    <3>1. shed' = [shed EXCEPT ![i] = Len(buf[i]) - 1] /\ Len(buf[i]) - 1 \in Nat
      BY <1>3, <1>9, <2>1 DEF ShedLeft
    <3>2. buf' = [buf EXCEPT ![i] = Tail(buf[i])]
          /\ staged' = Append(staged, [conn |-> slab[i], id |-> buf[i][1].id, kind |-> "early"])
      BY <1>4, <1>9, <2>1
    <3>3. Becomes(i, slab[i], recv[i], Tail(buf[i]), Len(buf[i]) - 1) /\ Entries' = Entries
      BY <1>5, <3>1, <3>2
    <3>4. FrameAnswered(i)
      BY <1>9, <3>1, <3>2, <3>3 DEF FrameAnswered
    <3>5. QED
      BY <1>1, <3>3, <3>4
  <2>2. CASE ~EarlyFits
    <3>1. shed' = [shed EXCEPT ![i] = Len(buf[i])]
      BY <1>9, <2>2 DEF ShedLeft
    <3>2. buf' = buf /\ staged' = staged
      BY <1>4, <1>9, <2>2
    <3>3. Becomes(i, slab[i], recv[i], buf[i], Len(buf[i])) /\ Entries' = Entries
      BY <1>3, <1>5, <3>1, <3>2
    <3>4. FrameParks(i)
      BY <1>3, <1>9, <3>2, <3>3 DEF FrameParks
    <3>5. QED
      BY <1>1, <3>3, <3>4
  <2>3. QED
    BY <2>1, <2>2
<1>10. QED
  BY <1>6, <1>7, <1>8, <1>9 DEF ProcessFrame, TailOf

\* The call leaves the entry to its tenant: armed anew, parked, or as it was.
CallLeaves(i) ==
  /\ sock' = sock /\ control' = control /\ free' = free
  /\ \/ /\ recv[i] \in {"Idle", "Parked"} /\ ops' = ops \cup {Op(i, slab[i])}
        /\ Becomes(i, slab[i], "Armed", buf[i], shed[i])
     \/ /\ recv[i] \in {"Idle", "Parked"} /\ ops' = ops
        /\ \E r \in {"Idle", "Parked"} : Becomes(i, slab[i], r, buf[i], shed[i])
     \/ /\ recv[i] \in Engaged /\ ops' \in {ops, Cancelled(i)}
        /\ \E r \in Engaged \ {"Dying"} : Becomes(i, slab[i], r, buf[i], shed[i])

LEMMA EndCallEffect ==
  ASSUME SlabTypes, BusyOwned, EndCall
  PROVE  /\ busy # 0 /\ busy' = 0 /\ batch' = <<>> /\ staged' = <<>>
         /\ input' = input \o batch /\ early' = early \o staged
         /\ BeginTeardown(busy) \/ (CallLeaves(busy) /\ Entries' = Entries)
<1> DEFINE i == busy
           next == after_frames(recv[i], IF stuck THEN "Park" ELSE "Continue")
<1>1. /\ busy # 0 /\ busy' = 0 /\ batch' = <<>> /\ staged' = <<>>
      /\ input' = input \o batch /\ early' = early \o staged
  BY DEF EndCall
<1>2. CASE verdict = "Close"
  BY <1>1, <1>2 DEF EndCall
<1>3. CASE verdict # "Close"
  <2>1. /\ recv' = [recv EXCEPT ![i] = next[1]]
        /\ ops' = CASE next[2] = "Arm" -> ops \cup {Op(i, slab[i])}
                    [] next[2] = "Cancel" -> Cancelled(i)
                    [] OTHER -> ops
        /\ shed' = [shed EXCEPT ![i] = shed[i]]
        /\ UNCHANGED <<sock, control, slab, free, buf>>
    BY <1>3 DEF EndCall, ShedKept
  <2>2. /\ i \in Entries /\ recv[i] # "Dying" /\ slab[i] \in Conns /\ slab[i] \in Conns \cup {0}
        /\ buf[i] \in Seq(Request) /\ shed[i] \in Nat /\ recv[i] \in RecvStates
    BY <1>1, BusyFacts
  <2>3. next[1] \in RecvStates => Becomes(i, slab[i], next[1], buf[i], shed[i]) /\ Entries' = Entries
    BY <2>1, <2>2, BecomesPut
  <2>4. \/ recv[i] \in {"Idle", "Parked"} /\ next[1] = "Armed" /\ next[2] = "Arm"
        \/ recv[i] \in {"Idle", "Parked"} /\ next[1] \in {"Idle", "Parked"} /\ next[2] = "Nothing"
        \/ recv[i] \in Engaged /\ next[1] \in Engaged \ {"Dying"} /\ next[2] \in {"Nothing", "Cancel"}
    BY <2>2 DEF after_frames, RecvStates, Engaged
  <2> HIDE DEF next
  <2>5. next[1] \in RecvStates
    BY <2>4 DEF RecvStates, Engaged
  <2>6. CallLeaves(i)
    BY <2>1, <2>3, <2>4, <2>5 DEF CallLeaves
  <2>7. QED
    BY <1>1, <2>3, <2>5, <2>6
<1>4. QED
  BY <1>2, <1>3

-----------------------------------------------------------------------------
(* A completion posted: some of the socket's frames, or none *)

Posts(op, n, q) ==
  /\ q.idx = op.idx /\ q.frames = SubSeq(wire[op.conn], 1, n)
  /\ cq' = Append(cq, q)
  /\ wire' = [wire EXCEPT ![op.conn] = SubSeq(wire[op.conn], n + 1, Len(wire[op.conn]))]
  /\ ops' = IF q.terminal THEN ops \ {op} ELSE ops
  /\ q.res # "Data" => q.terminal
  /\ q.res = "Closed" => sock[op.conn] = "shut"

KernelRest ==
  UNCHANGED <<sock, sent, client, active, acceptVars, control, slabVars, callVars, input,
              early, half, output, stageVars, durable, tails, onRing, missed>>

LEMMA KernelEffect ==
  ASSUME ClientTypes, SlabTypes, Kernel
  PROVE  /\ KernelRest
         /\ \E op \in ops : \E n \in 0..Len(wire[op.conn]) : \E q \in Completion : Posts(op, n, q)
<1>1. PICK op \in ops : \/ \E n \in 1..Len(wire[op.conn]) : \E t \in BOOLEAN : PostData(op, n, t)
                        \/ PostEmpty(op) \/ PostCancelled(op) \/ PostClosed(op)
  BY DEF Kernel
<1>2. op \in Receive /\ op.idx \in Nat /\ op.conn \in Conns
  BY DEF SlabTypes, Receive
<1> DEFINE w == wire[op.conn]
<1>3. w \in Seq(Request) /\ Len(w) \in Nat /\ w = SubSeq(w, 1, Len(w))
  BY <1>2, LenProperties, SubSeqFull DEF ClientTypes
<1>4. wire = [wire EXCEPT ![op.conn] = SubSeq(w, 0 + 1, Len(w))] /\ SubSeq(w, 1, 0) = <<>>
  BY <1>2, <1>3, SubSeqEmpty DEF ClientTypes
<1>5. ASSUME NEW n \in 1..Len(w), NEW t \in BOOLEAN, PostData(op, n, t)
      PROVE  KernelRest /\ n \in 0..Len(w) /\ \E q \in Completion : Posts(op, n, q)
  <2> DEFINE q == Cqe(op.idx, "Data", SubSeq(w, 1, n), t)
  <2>1. /\ cq' = Append(cq, q)
        /\ wire' = [wire EXCEPT ![op.conn] = SubSeq(w, n + 1, Len(w))]
        /\ ops' = IF t THEN ops \ {op} ELSE ops
        /\ KernelRest
    BY <1>5 DEF PostData, Post, KernelRest
  <2>2. n \in 0..Len(w) /\ SubSeq(w, 1, n) \in Seq(Request)
    <3>1. n \in 0..Len(w)
      BY <1>3
    <3>2. QED
      BY <1>3, <3>1, PrefixEffect
  <2>3. q \in Completion /\ q.idx = op.idx /\ q.frames = SubSeq(w, 1, n) /\ q.terminal = t /\ q.res = "Data"
    BY <1>2, <2>2 DEF Cqe, Completion
  <2>4. QED
    BY <2>1, <2>2, <2>3 DEF Posts
<1>6. ASSUME NEW res \in {"Empty", "Closed"}, Post(Cqe(op.idx, res, <<>>, TRUE)), ops' = ops \ {op},
             wire' = wire, res = "Closed" => sock[op.conn] = "shut"
      PROVE  KernelRest /\ 0 \in 0..Len(w) /\ \E q \in Completion : Posts(op, 0, q)
  <2> DEFINE q == Cqe(op.idx, res, <<>>, TRUE)
  <2>1. cq' = Append(cq, q) /\ KernelRest
    BY <1>6 DEF Post, KernelRest
  <2>2. q \in Completion /\ q.idx = op.idx /\ q.frames = <<>> /\ q.terminal = TRUE /\ q.res = res
    <3>1. <<>> \in Seq(Request)
      OBVIOUS
    <3>2. QED
      BY <1>2, <3>1 DEF Cqe, Completion
  <2>3. wire' = [wire EXCEPT ![op.conn] = SubSeq(w, 0 + 1, Len(w))] /\ q.frames = SubSeq(w, 1, 0)
    BY <1>4, <1>6, <2>2, Zenon
  <2>4. 0 \in 0..Len(w) /\ (q.res # "Data" => q.terminal) /\ (q.res = "Closed" => sock[op.conn] = "shut")
    <3>1. 0 \in 0..Len(w)
      BY <1>3
    <3>2. q.res = "Closed" => sock[op.conn] = "shut"
      BY <1>6, <2>2, Zenon
    <3>3. QED
      BY <2>2, <3>1, <3>2, Zenon
  <2>5. ops' = IF q.terminal THEN ops \ {op} ELSE ops
    BY <1>6, <2>2
  <2> HIDE DEF q
  <2>6. Posts(op, 0, q)
    BY <2>1, <2>2, <2>3, <2>4, <2>5, Zenon DEF Posts
  <2>7. QED
    BY <2>1, <2>2, <2>4, <2>6
<1>7. CASE PostEmpty(op) \/ PostCancelled(op)
  <2>1. Post(Cqe(op.idx, "Empty", <<>>, TRUE)) /\ ops' = ops \ {op} /\ wire' = wire
    BY <1>7 DEF PostEmpty, PostCancelled
  <2>2. QED
    BY <1>6, <2>1
<1>8. CASE PostClosed(op)
  <2>1. Post(Cqe(op.idx, "Closed", <<>>, TRUE)) /\ ops' = ops \ {op} /\ wire' = wire /\ sock[op.conn] = "shut"
    BY <1>8 DEF PostClosed
  <2>2. QED
    BY <1>6, <2>1
<1>9. QED
  BY <1>1, <1>5, <1>7, <1>8

-----------------------------------------------------------------------------
(* Types *)

LEMMA TypesFrame ==
  /\ ClientTypes /\ UNCHANGED <<sock, sent, wire, client>> => ClientTypes'
  /\ AcceptTypes /\ UNCHANGED <<accepting, announced, regs, control>> => AcceptTypes'
  /\ SlabTypes /\ UNCHANGED <<slabVars, ops, cq, busy>> => SlabTypes'
  /\ QueueTypes /\ UNCHANGED <<batch, staged, input, early, half, output, tails, onRing>> => QueueTypes'
  /\ StageTypes /\ UNCHANGED stageVars => StageTypes'
  /\ Bounds /\ UNCHANGED <<take, snap, rpc, output, early>> => Bounds'
<1>1. ClientTypes /\ UNCHANGED <<sock, sent, wire, client>> => ClientTypes'
  BY DEF ClientTypes
<1>2. AcceptTypes /\ UNCHANGED <<accepting, announced, regs, control>> => AcceptTypes'
  BY DEF AcceptTypes
<1>3. SlabTypes /\ UNCHANGED <<slabVars, ops, cq, busy>> => SlabTypes'
  BY DEF SlabTypes, slabVars
<1>4. QueueTypes /\ UNCHANGED <<batch, staged, input, early, half, output, tails, onRing>> => QueueTypes'
  BY DEF QueueTypes
<1>5. StageTypes /\ UNCHANGED stageVars => StageTypes'
  BY DEF StageTypes, stageVars
<1>6. Bounds /\ UNCHANGED <<take, snap, rpc, output, early>> => Bounds'
  BY DEF Bounds
<1>7. QED
  BY <1>1, <1>2, <1>3, <1>4, <1>5, <1>6, Zenon

LEMMA SlabTypesFrom ==
  ASSUME SlabSeqs', free' \in Seq(Nat), ops' \subseteq Receive, cq' \in Seq(Completion), busy' \in Nat
  PROVE  SlabTypes'
BY DEF SlabTypes, SlabSeqs

LEMMA OpsTyped ==
  ASSUME SlabTypes, NEW i \in Nat
  PROVE  Cancelled(i) \subseteq Receive /\ \A c \in Conns : ops \cup {Op(i, c)} \subseteq Receive
<1>1. ops \subseteq Receive
  BY DEF SlabTypes
<1>2. ASSUME NEW op \in ops PROVE [op EXCEPT !.cancel = @ \/ op.idx = i] \in Receive
  <2>1. op \in Receive
    BY <1>1
  <2>2. QED
    BY <2>1 DEF Receive
<1>3. Cancelled(i) \subseteq Receive
  BY <1>2 DEF Cancelled
<1>4. \A c \in Conns : Op(i, c) \in Receive
  BY DEF Op, Receive
<1>5. QED
  BY <1>1, <1>3, <1>4

LEMMA TypesInit ==
  ASSUME PathInit
  PROVE  Types
<1>1. ClientTypes
  <2>1. <<>> \in Seq(Request) /\ 0 \in Nat /\ [out |-> {}, mid |-> 0, bad |-> FALSE] \in Account
    BY DEF Account
  <2>2. QED
    BY <2>1 DEF PathInit, ClientTypes
<1>2. AcceptTypes
  <2>1. <<>> \in Seq(Conns) /\ <<>> \in Seq({"Connected", "Disconnected"} \X Conns)
    BY EmptySeq
  <2>2. QED
    BY <2>1 DEF PathInit, AcceptTypes
<1>3. SlabTypes
  BY DEF PathInit, SlabTypes
<1>4. QueueTypes
  <2>1. <<>> \in Seq(Ask) /\ <<>> \in Seq(Reply) /\ <<>> \in Seq(Slot)
    BY EmptySeq
  <2>2. QED
    BY <2>1 DEF PathInit, QueueTypes
<1>5. StageTypes
  <2>1. <<>> \in Seq(Bytes)
    OBVIOUS
  <2>2. QED
    BY <2>1 DEF PathInit, StageTypes, ReadOrder
<1>6. Bounds
  BY DEF PathInit, Bounds, ReadOrder
<1>7. QED
  BY <1>1, <1>2, <1>3, <1>4, <1>5, <1>6 DEF Types

LEMMA TypesAdmit ==
  ASSUME Types, NEW c \in Conns, Accept(c) \/ Close(c)
  PROVE  Types'
<1>1. /\ sock' \in [Conns -> {"none", "open", "shut"}] /\ UNCHANGED <<clientVars, regs, control>>
      /\ (UNCHANGED acceptVars \/ (accepting' = c /\ announced' = FALSE))
      /\ UNCHANGED <<slabVars, ops, cq, callVars, input, early, half, output, stageVars, tails, onRing>>
  BY DEF Accept, Close, Types, ClientTypes, acceptVars
<1>2. ClientTypes'
  BY <1>1 DEF Types, ClientTypes, clientVars
<1>3. AcceptTypes'
  BY <1>1 DEF Types, AcceptTypes, acceptVars
<1>4. SlabTypes' /\ QueueTypes' /\ StageTypes' /\ Bounds'
  <2>1. UNCHANGED <<slabVars, ops, cq, busy>> /\ UNCHANGED stageVars /\ UNCHANGED <<take, snap, rpc, output, early>>
        /\ UNCHANGED <<batch, staged, input, early, half, output, tails, onRing>>
    BY <1>1 DEF callVars, stageVars
  <2>2. QED
    BY <2>1, TypesFrame DEF Types
<1>5. QED
  BY <1>2, <1>3, <1>4 DEF Types

LEMMA TypesSend ==
  ASSUME Types, NEW c \in Conns, NEW k \in Kinds, Send(c, k)
  PROVE  Types'
<1> DEFINE f == [from |-> c, id |-> sent[c] + 1, kind |-> k]
<1>1. /\ sent' = [sent EXCEPT ![c] = @ + 1] /\ wire' = [wire EXCEPT ![c] = Append(@, f)]
      /\ client' = [client EXCEPT ![c].out = @ \cup {sent[c] + 1}]
      /\ UNCHANGED <<sock, acceptVars, control, slabVars, ops, cq, callVars, input, early, half, output,
                     stageVars, tails, onRing>>
  BY DEF Send
<1>2. sent[c] \in Nat /\ wire[c] \in Seq(Request) /\ f \in Request /\ client[c] \in Account
  <2>1. sent[c] \in Nat /\ wire[c] \in Seq(Request) /\ client[c] \in Account
    BY DEF Types, ClientTypes
  <2>2. f \in Request
    BY <2>1 DEF Request
  <2>3. QED
    BY <2>1, <2>2
<1>3. Append(wire[c], f) \in Seq(Request)
  BY <1>2, AppendEffect
<1>4. [client[c] EXCEPT !.out = @ \cup {sent[c] + 1}] \in Account
  BY <1>2 DEF Account
<1>5. /\ sent' = [sent EXCEPT ![c] = sent[c] + 1] /\ wire' = [wire EXCEPT ![c] = Append(wire[c], f)]
      /\ client' = [client EXCEPT ![c] = [client[c] EXCEPT !.out = @ \cup {sent[c] + 1}]]
  BY <1>1
<1> HIDE DEF f
<1>6. ClientTypes'
  BY <1>1, <1>2, <1>3, <1>4, <1>5 DEF Types, ClientTypes
<1>7. AcceptTypes' /\ SlabTypes' /\ QueueTypes' /\ StageTypes' /\ Bounds'
  <2>1. /\ UNCHANGED <<slabVars, ops, cq, busy>> /\ UNCHANGED stageVars /\ UNCHANGED <<take, snap, rpc, output, early>>
        /\ UNCHANGED <<batch, staged, input, early, half, output, tails, onRing>>
        /\ UNCHANGED <<accepting, announced, regs, control>>
    BY <1>1 DEF callVars, stageVars, acceptVars
  <2>2. QED
    BY <2>1, TypesFrame DEF Types
<1>8. QED
  BY <1>6, <1>7 DEF Types

LEMMA AnnounceEffect ==
  ASSUME Announce
  PROVE  /\ accepting # 0 /\ announced' = ~announced
         /\ \/ /\ ~announced /\ accepting' = accepting /\ regs' = regs
               /\ control' = Append(control, <<"Connected", accepting>>)
            \/ /\ announced /\ accepting' = 0 /\ control' = control
               /\ regs' = Append(regs, accepting)
<1>1. CASE announced
  BY <1>1 DEF Announce, Registrations
<1>2. CASE ~announced
  BY <1>2 DEF Announce, Registrations
<1>3. QED
  BY <1>1, <1>2

LEMMA TypesAnnounce ==
  ASSUME Types, Announce
  PROVE  Types'
<1>1. UNCHANGED <<sock, clientVars, slabVars, ops, cq, callVars, input, early, half, output, stageVars, tails, onRing>>
  BY DEF Announce
<1>2. /\ accepting \in Conns /\ regs \in Seq(Conns) /\ control \in Seq({"Connected", "Disconnected"} \X Conns)
      /\ <<"Connected", accepting>> \in {"Connected", "Disconnected"} \X Conns
  BY AnnounceEffect DEF Types, AcceptTypes
<1>3. /\ Append(regs, accepting) \in Seq(Conns)
      /\ Append(control, <<"Connected", accepting>>) \in Seq({"Connected", "Disconnected"} \X Conns)
  BY <1>2, AppendEffect
<1>4. announced' \in BOOLEAN /\ accepting' \in Conns \cup {0}
  BY AnnounceEffect DEF Types, AcceptTypes
<1>5. AcceptTypes'
  BY <1>2, <1>3, <1>4, AnnounceEffect DEF AcceptTypes
<1>6. ClientTypes' /\ SlabTypes' /\ QueueTypes' /\ StageTypes' /\ Bounds'
  <2>1. /\ UNCHANGED <<slabVars, ops, cq, busy>> /\ UNCHANGED stageVars /\ UNCHANGED <<take, snap, rpc, output, early>>
        /\ UNCHANGED <<batch, staged, input, early, half, output, tails, onRing>>
        /\ UNCHANGED <<sock, sent, wire, client>>
    BY <1>1 DEF callVars, stageVars, clientVars
  <2>2. QED
    BY <2>1, TypesFrame DEF Types
<1>7. QED
  BY <1>5, <1>6 DEF Types

LEMMA TypesKernel ==
  ASSUME Types, Kernel
  PROVE  Types'
<1>1. KernelRest
  BY KernelEffect DEF Types
<1>2. PICK op \in ops : \E n \in 0..Len(wire[op.conn]) : \E q \in Completion : Posts(op, n, q)
  BY KernelEffect DEF Types
<1>3. PICK n \in 0..Len(wire[op.conn]) : \E q \in Completion : Posts(op, n, q)
  BY <1>2
<1>4. PICK q \in Completion : Posts(op, n, q)
  BY <1>3
<1>5. op.conn \in Conns /\ wire[op.conn] \in Seq(Request)
  BY DEF Types, SlabTypes, ClientTypes, Receive
<1>6. SubSeq(wire[op.conn], n + 1, Len(wire[op.conn])) \in Seq(Request)
  BY <1>5, SuffixEffect
<1>7. wire' \in [Conns -> Seq(Request)]
  BY <1>4, <1>5, <1>6 DEF Posts, Types, ClientTypes
<1>8. ClientTypes'
  BY <1>1, <1>7 DEF KernelRest, Types, ClientTypes
<1>9. SlabTypes'
  <2>1. cq' \in Seq(Completion) /\ ops' \subseteq Receive
    BY <1>4, AppendEffect DEF Posts, Types, SlabTypes
  <2>2. UNCHANGED slabVars /\ busy' = busy
    BY <1>1 DEF KernelRest, callVars
  <2>3. QED
    BY <2>1, <2>2 DEF Types, SlabTypes, slabVars
<1>10. AcceptTypes' /\ QueueTypes' /\ StageTypes' /\ Bounds'
  <2>1. /\ UNCHANGED stageVars /\ UNCHANGED <<take, snap, rpc, output, early>>
        /\ UNCHANGED <<batch, staged, input, early, half, output, tails, onRing>>
        /\ UNCHANGED <<accepting, announced, regs, control>>
    BY <1>1 DEF KernelRest, callVars, stageVars, acceptVars
  <2>2. QED
    BY <2>1, TypesFrame DEF Types
<1>11. QED
  BY <1>8, <1>9, <1>10 DEF Types

LEMMA FrontEffect ==
  ASSUME NEW S, NEW s \in Seq(S), s # <<>>, NEW t, t = Front(s)
  PROVE  /\ t \in Seq(S) /\ Len(s) \in Nat /\ Len(s) >= 1 /\ Len(t) = Len(s) - 1 /\ DOMAIN t = 1..Len(t)
         /\ Last(s) = s[Len(s)] /\ \A k \in 1..Len(t) : t[k] = s[k]
<1>1. Len(s) \in Nat /\ Len(s) >= 1
  BY SeqFacts
<1>2. Len(s) - 1 \in 0..Len(s)
  BY <1>1
<1>3. t = SubSeq(s, 1, Len(s) - 1)
  BY DEF Front
<1> DEFINE n == Len(s) - 1
<1>4. n \in 0..Len(s) /\ t = SubSeq(s, 1, n)
  BY <1>2, <1>3
<1> HIDE DEF n
<1>5. t \in Seq(S) /\ Len(t) = n /\ DOMAIN t = 1..n /\ \A k \in 1..n : t[k] = s[k]
  BY <1>4, PrefixEffect
<1>6. QED
  BY <1>1, <1>5 DEF Last, n

LEMMA TypesRegister ==
  ASSUME Types, FreeVacant, Register
  PROVE  Types'
<1>1. UNCHANGED <<sock, clientVars, accepting, announced, control, cq, callVars, input, early, half,
                  output, stageVars, tails, onRing>>
  BY DEF Register
<1>2. SlabTypes /\ AcceptTypes
  BY DEF Types
<1>3. /\ busy = 0 /\ regs # <<>> /\ regs' = Tail(regs) /\ Head(regs) \in Conns
  BY <1>2, RegisterEffect
<1>4. PICK i \in Nat :
        /\ Becomes(i, Head(regs), "Armed", <<>>, 0)
        /\ \/ i \notin Entries /\ free' = free
           \/ i \in Entries /\ slab[i] = 0 /\ free # <<>> /\ free' = Front(free) /\ i = Last(free)
        /\ ops' = ops \cup {Op(i, Head(regs))}
  BY <1>2, RegisterEffect
<1>5. regs' \in Seq(Conns)
  BY <1>2, <1>3, TailEffect DEF AcceptTypes
<1>6. AcceptTypes'
  BY <1>1, <1>2, <1>5 DEF AcceptTypes
<1>7. free' \in Seq(Nat)
  BY <1>2, <1>4, FrontEffect DEF SlabTypes
<1>8. ops' \subseteq Receive
  BY <1>2, <1>3, <1>4, OpsTyped
<1>9. SlabTypes'
  <2>1. SlabSeqs'
    BY <1>4 DEF Becomes
  <2>2. cq' \in Seq(Completion) /\ busy' \in Nat
    BY <1>1, <1>2 DEF SlabTypes, callVars
  <2>3. QED
    BY <1>7, <1>8, <2>1, <2>2, SlabTypesFrom
<1>10. ClientTypes' /\ QueueTypes' /\ StageTypes' /\ Bounds'
  <2>1. /\ UNCHANGED stageVars /\ UNCHANGED <<take, snap, rpc, output, early>>
        /\ UNCHANGED <<batch, staged, input, early, half, output, tails, onRing>>
        /\ UNCHANGED <<sock, sent, wire, client>>
    BY <1>1 DEF callVars, stageVars, clientVars
  <2>2. QED
    BY <2>1, TypesFrame DEF Types
<1>11. QED
  BY <1>6, <1>9, <1>10 DEF Types

\* The response stage is told of the end of entry i's connection.
LEMMA ControlTyped ==
  ASSUME Numbered, Types, NEW i \in Entries, slab[i] # 0, NEW t,
         t = Append(control, <<"Disconnected", slab[i]>>)
  PROVE  t \in Seq({"Connected", "Disconnected"} \X Conns)
<1>1. slab[i] \in Conns
  BY SlabFacts DEF Types
<1>2. /\ control \in Seq({"Connected", "Disconnected"} \X Conns)
      /\ <<"Disconnected", slab[i]>> \in {"Connected", "Disconnected"} \X Conns
  BY <1>1 DEF Types, AcceptTypes
<1>3. QED
  BY <1>2, AppendEffect

TakeCqeRest ==
  UNCHANGED <<sock, clientVars, active, acceptVars, input, early, half, output, stageVars,
              durable, tails, onRing, missed>>

LEMMA TypesTakeCqe ==
  ASSUME Numbered, Types, CqOwned, BusyOwned, NEW v, TakeCqe(v)
  PROVE  Types'
<1>1. TakeCqeRest
  BY DEF TakeCqe, TakeCqeRest
<1>2. SlabTypes
  BY DEF Types
<1> DEFINE i == cq[1].idx
<1>3. /\ busy = 0 /\ cq # <<>> /\ cq' = Tail(cq) /\ Entries' = Entries
      /\ CqeKept(i, cq[1]) \/ CqeArms(i, cq[1]) \/ CqeVacates(i, cq[1])
  BY <1>2, TakeCqeEffect
<1>4. i \in Entries /\ slab[i] # 0 /\ slab[i] \in Conns /\ i \in Nat
  BY <1>2, <1>3, HeadCqe, SlabFacts
<1> HIDE DEF i
<1>5. cq' \in Seq(Completion)
  BY <1>2, <1>3, TailEffect DEF SlabTypes
<1>6. /\ SlabSeqs' /\ free' \in Seq(Nat) /\ ops' \subseteq Receive /\ busy' \in Nat
      /\ batch' = batch /\ staged' = staged
      /\ (control' = control \/ control' = Append(control, <<"Disconnected", slab[i]>>))
  <2>1. CASE CqeKept(i, cq[1])
    <3>1. SlabSeqs'
      BY <2>1 DEF CqeKept, Becomes
    <3>2. QED
      BY <1>2, <1>4, <2>1, <3>1 DEF CqeKept, CallBegins, SlabTypes
  <2>2. CASE CqeArms(i, cq[1])
    BY <1>2, <1>4, <2>2, OpsTyped DEF CqeArms, Becomes, SlabTypes
  <2>3. CASE CqeVacates(i, cq[1])
    BY <1>2, <2>3 DEF CqeVacates, Becomes, SlabTypes
  <2>4. QED
    BY <1>3, <2>1, <2>2, <2>3
<1>7. SlabTypes'
  BY <1>5, <1>6, SlabTypesFrom
<1>8. AcceptTypes'
  <2>1. control' \in Seq({"Connected", "Disconnected"} \X Conns)
    BY <1>4, <1>6, ControlTyped DEF Types, AcceptTypes
  <2>2. QED
    BY <1>1, <2>1 DEF TakeCqeRest, acceptVars, Types, AcceptTypes
<1>9. ClientTypes' /\ QueueTypes' /\ StageTypes' /\ Bounds'
  <2>1. /\ UNCHANGED stageVars /\ UNCHANGED <<take, snap, rpc, output, early>>
        /\ UNCHANGED <<batch, staged, input, early, half, output, tails, onRing>>
        /\ UNCHANGED <<sock, sent, wire, client>>
    BY <1>1, <1>6 DEF TakeCqeRest, stageVars, clientVars
  <2>2. QED
    BY <2>1, TypesFrame DEF Types
<1>10. QED
  BY <1>7, <1>8, <1>9 DEF Types

\* A retry begins a call over an entry that is parked.
LEMMA RetryEffect ==
  ASSUME SlabTypes, FreeVacant, BusyOwned, NEW i \in Entries, NEW v, Retry(i, v)
  PROVE  /\ busy = 0 /\ busy' = i /\ batch' = batch /\ staged' = staged
         /\ recv[i] \in {"Parked", "ParkedCancelling"} /\ slab[i] # 0
         /\ UNCHANGED <<sock, clientVars, active, acceptVars, control, slabVars, ops, cq, input, early,
                        half, output, stageVars, durable, tails, onRing, missed>>
<1>1. 0 \notin Entries
  BY DEF Entries
<1>2. batch = <<>> /\ staged = <<>>
  BY <1>1 DEF BusyOwned, Retry
<1>3. /\ busy = 0 /\ busy' = i /\ batch' = batch /\ staged' = staged
      /\ recv[i] \in {"Parked", "ParkedCancelling"}
  BY <1>2 DEF Retry, BeginCall
<1>4. slab[i] # 0
  BY <1>3 DEF FreeVacant
<1>5. QED
  BY <1>3, <1>4 DEF Retry

LEMMA TypesRetry ==
  ASSUME Types, FreeVacant, BusyOwned, NEW i \in Entries, NEW v, Retry(i, v)
  PROVE  Types'
<1>1. /\ busy' = i /\ batch' = batch /\ staged' = staged
      /\ UNCHANGED <<sock, clientVars, active, acceptVars, control, slabVars, ops, cq, input, early,
                        half, output, stageVars, durable, tails, onRing, missed>>
  BY RetryEffect DEF Types
<1>2. i \in Nat
  BY SlabFacts DEF Types
<1>3. SlabTypes'
  BY <1>1, <1>2 DEF slabVars, Types, SlabTypes
<1>4. ClientTypes' /\ AcceptTypes' /\ QueueTypes' /\ StageTypes' /\ Bounds'
  <2>1. /\ UNCHANGED stageVars /\ UNCHANGED <<take, snap, rpc, output, early>>
        /\ UNCHANGED <<batch, staged, input, early, half, output, tails, onRing>>
        /\ UNCHANGED <<sock, sent, wire, client>> /\ UNCHANGED <<accepting, announced, regs, control>>
    BY <1>1 DEF stageVars, clientVars, acceptVars
  <2>2. QED
    BY <2>1, TypesFrame DEF Types
<1>5. QED
  BY <1>3, <1>4 DEF Types

TimeOutRest ==
  UNCHANGED <<clientVars, active, acceptVars, cq, callVars, input, early, half, output,
              stageVars, durable, tails, onRing, missed>>

\* A teardown leaves the reader's types in order.
LEMMA TeardownTypes ==
  ASSUME Numbered, Types, NEW i \in Entries, slab[i] # 0, recv[i] # "Dying", BeginTeardown(i)
  PROVE  /\ SlabSeqs' /\ free' \in Seq(Nat) /\ ops' \subseteq Receive
         /\ control' \in Seq({"Connected", "Disconnected"} \X Conns)
         /\ sock' \in [Conns -> {"none", "open", "shut"}] /\ Entries' = Entries
<1>1. SlabTypes /\ slab[i] \in Conns /\ i \in Nat
  BY SlabFacts DEF Types
<1>2. /\ sock' = [sock EXCEPT ![slab[i]] = "shut"]
      /\ control' = Append(control, <<"Disconnected", slab[i]>>)
      /\ Entries' = Entries
      /\ \/ /\ Becomes(i, 0, "Idle", <<>>, 0) /\ free' \in Seq(Nat) /\ ops' = ops
         \/ /\ Becomes(i, slab[i], "Dying", buf[i], shed[i]) /\ free' = free /\ ops' \in {ops, Cancelled(i)}
  BY <1>1, TeardownEffect
<1>3. SlabSeqs'
  BY <1>2 DEF Becomes
<1>4. free' \in Seq(Nat) /\ ops' \subseteq Receive
  BY <1>1, <1>2, OpsTyped DEF SlabTypes
<1>5. control' \in Seq({"Connected", "Disconnected"} \X Conns)
  BY <1>2, ControlTyped
<1>6. sock' \in [Conns -> {"none", "open", "shut"}]
  BY <1>1, <1>2 DEF Types, ClientTypes
<1>7. QED
  BY <1>2, <1>3, <1>4, <1>5, <1>6

LEMMA TypesTimeOut ==
  ASSUME Numbered, Types, NEW i \in Entries, TimeOut(i)
  PROVE  Types'
<1>1. TimeOutRest /\ slab[i] # 0 /\ recv[i] # "Dying" /\ BeginTeardown(i)
  BY DEF TimeOut, TimeOutRest
<1>2. /\ SlabSeqs' /\ free' \in Seq(Nat) /\ ops' \subseteq Receive
      /\ control' \in Seq({"Connected", "Disconnected"} \X Conns)
      /\ sock' \in [Conns -> {"none", "open", "shut"}]
  BY <1>1, TeardownTypes
<1>3. SlabTypes'
  <2>1. cq' \in Seq(Completion) /\ busy' \in Nat
    BY <1>1 DEF TimeOutRest, callVars, Types, SlabTypes
  <2>2. QED
    BY <1>2, <2>1, SlabTypesFrom
<1>4. ClientTypes'
  BY <1>1, <1>2 DEF TimeOutRest, clientVars, Types, ClientTypes
<1>5. AcceptTypes'
  BY <1>1, <1>2 DEF TimeOutRest, acceptVars, Types, AcceptTypes
<1>6. QueueTypes' /\ StageTypes' /\ Bounds'
  <2>1. /\ UNCHANGED stageVars /\ UNCHANGED <<take, snap, rpc, output, early>>
        /\ UNCHANGED <<batch, staged, input, early, half, output, tails, onRing>>
    BY <1>1 DEF TimeOutRest, stageVars, callVars
  <2>2. QED
    BY <2>1, TypesFrame DEF Types
<1>7. QED
  BY <1>3, <1>4, <1>5, <1>6 DEF Types

ProcessFrameRest ==
  UNCHANGED <<sock, clientVars, active, acceptVars, control, slab, free, recv, ops, cq, busy,
              verdict, input, early, half, output, stageVars, durable, faults, missed>>

LEMMA TypesProcessFrame ==
  ASSUME Numbered, Types, BusyOwned, ProcessFrame
  PROVE  Types'
<1>1. ProcessFrameRest
  BY DEF ProcessFrame, ProcessFrameRest
<1> DEFINE i == busy
<1>2. /\ i # 0 /\ buf[i] # <<>> /\ Entries' = Entries
      /\ FrameAnswered(i) \/ FrameParks(i) \/ FrameTaken(i)
  BY ProcessFrameEffect DEF Types
<1>3. /\ i \in Entries /\ slab[i] \in Conns /\ buf[i] \in Seq(Request)
  BY <1>2, BusyFacts DEF Types
<1>4. /\ buf[i][1].id \in Nat /\ \A k \in DOMAIN buf[i] : buf[i][k].id \in Nat
  <2>1. DOMAIN buf[i] = 1..Len(buf[i]) /\ 1 \in DOMAIN buf[i] /\ \A k \in 1..Len(buf[i]) : buf[i][k] \in Request
    BY <1>2, <1>3, SeqFacts
  <2>2. QED
    BY <2>1 DEF Request
<1> HIDE DEF i
<1>5. batch \in Seq(Ask) /\ staged \in Seq(Reply) /\ tails \subseteq Conns \X Nat /\ onRing \subseteq Conns \X Nat
  BY DEF Types, QueueTypes
<1>6. TailOf(i) \subseteq Conns \X Nat
  BY <1>3, <1>4 DEF TailOf
<1>7. SlabSeqs' /\ batch' \in Seq(Ask) /\ staged' \in Seq(Reply) /\ tails' \subseteq Conns \X Nat /\ onRing' \subseteq Conns \X Nat
  <2>1. CASE FrameAnswered(i)
    <3>1. PICK kind \in {"early", "rejected"} :
            staged' = Append(staged, [conn |-> slab[i], id |-> buf[i][1].id, kind |-> kind])
      BY <2>1 DEF FrameAnswered
    <3>2. [conn |-> slab[i], id |-> buf[i][1].id, kind |-> kind] \in Reply
      BY <1>3, <1>4 DEF Reply
    <3>3. staged' \in Seq(Reply)
      BY <1>5, <3>1, <3>2, AppendEffect
    <3>4. SlabSeqs'
      BY <2>1 DEF FrameAnswered, Becomes
    <3>5. QED
      BY <1>5, <1>6, <2>1, <3>3, <3>4 DEF FrameAnswered
  <2>2. CASE FrameParks(i)
    <3>1. SlabSeqs'
      BY <2>2 DEF FrameParks, Becomes
    <3>2. QED
      BY <1>5, <1>6, <2>2, <3>1 DEF FrameParks
  <2>3. CASE FrameTaken(i)
    <3>1. [conn |-> slab[i], id |-> buf[i][1].id] \in Ask /\ <<slab[i], buf[i][1].id>> \in Conns \X Nat
      BY <1>3, <1>4 DEF Ask
    <3>2. batch' \in Seq(Ask)
      BY <1>5, <2>3, <3>1, AppendEffect DEF FrameTaken
    <3>3. SlabSeqs'
      BY <2>3 DEF FrameTaken, Becomes
    <3>4. QED
      BY <1>5, <2>3, <3>1, <3>2, <3>3 DEF FrameTaken
  <2>4. QED
    BY <1>2, <2>1, <2>2, <2>3
<1>8. SlabTypes'
  <2>1. cq' \in Seq(Completion) /\ busy' \in Nat /\ free' \in Seq(Nat) /\ ops' \subseteq Receive
    BY <1>1 DEF ProcessFrameRest, Types, SlabTypes
  <2>2. QED
    BY <1>7, <2>1, SlabTypesFrom
<1>9. QueueTypes'
  BY <1>1, <1>7 DEF ProcessFrameRest, Types, QueueTypes
<1>10. ClientTypes' /\ AcceptTypes' /\ StageTypes' /\ Bounds'
  <2>1. /\ UNCHANGED stageVars /\ UNCHANGED <<take, snap, rpc, output, early>>
        /\ UNCHANGED <<sock, sent, wire, client>> /\ UNCHANGED <<accepting, announced, regs, control>>
    BY <1>1 DEF ProcessFrameRest, stageVars, clientVars, acceptVars
  <2>2. QED
    BY <2>1, TypesFrame DEF Types
<1>11. QED
  BY <1>8, <1>9, <1>10 DEF Types

EndCallRest ==
  UNCHANGED <<clientVars, active, acceptVars, cq, half, output, stageVars, durable, faults,
              tails, onRing, missed>>

LEMMA TypesEndCall ==
  ASSUME Numbered, Types, BusyOwned, EndCall
  PROVE  Types'
<1>1. EndCallRest
  BY DEF EndCall, EndCallRest
<1> DEFINE i == busy
<1>2. /\ i # 0 /\ busy' = 0 /\ batch' = <<>> /\ staged' = <<>>
      /\ input' = input \o batch /\ early' = early \o staged
      /\ BeginTeardown(i) \/ (CallLeaves(i) /\ Entries' = Entries)
  BY EndCallEffect DEF Types
<1>3. i \in Entries /\ slab[i] # 0 /\ recv[i] # "Dying" /\ slab[i] \in Conns /\ i \in Nat
  BY <1>2, BusyFacts, SlabFacts DEF Types
<1> HIDE DEF i
<1>4. /\ SlabSeqs' /\ free' \in Seq(Nat) /\ ops' \subseteq Receive
      /\ control' \in Seq({"Connected", "Disconnected"} \X Conns)
      /\ sock' \in [Conns -> {"none", "open", "shut"}]
  <2>1. CASE BeginTeardown(i)
    BY <1>3, <2>1, TeardownTypes
  <2>2. CASE CallLeaves(i)
    <3>1. SlabSeqs'
      BY <2>2 DEF CallLeaves, Becomes
    <3>2. free' \in Seq(Nat) /\ ops' \subseteq Receive
      BY <1>3, <2>2, OpsTyped DEF CallLeaves, Types, SlabTypes
    <3>3. QED
      BY <2>2, <3>1, <3>2 DEF CallLeaves, Types, AcceptTypes, ClientTypes
  <2>3. QED
    BY <1>2, <2>1, <2>2
<1>5. SlabTypes'
  <2>1. cq' \in Seq(Completion) /\ busy' \in Nat
    BY <1>1, <1>2 DEF EndCallRest, Types, SlabTypes
  <2>2. QED
    BY <1>4, <2>1, SlabTypesFrom
<1>6. ClientTypes'
  BY <1>1, <1>4 DEF EndCallRest, clientVars, Types, ClientTypes
<1>7. AcceptTypes'
  BY <1>1, <1>4 DEF EndCallRest, acceptVars, Types, AcceptTypes
<1>8. batch \in Seq(Ask) /\ staged \in Seq(Reply) /\ input \in Seq(Ask) /\ early \in Seq(Reply)
  BY DEF Types, QueueTypes
<1>9. /\ batch' \in Seq(Ask) /\ staged' \in Seq(Reply) /\ input' \in Seq(Ask) /\ early' \in Seq(Reply)
      /\ Len(early') = Len(early) + Len(staged) /\ Len(early) \in Nat /\ Len(staged) \in Nat
  BY <1>2, <1>8, ConcatEffect, LenProperties, EmptySeq
<1>10. QueueTypes'
  BY <1>1, <1>9 DEF EndCallRest, Types, QueueTypes
<1>11. StageTypes' /\ Bounds'
  <2>1. UNCHANGED stageVars /\ output' = output
    BY <1>1 DEF EndCallRest
  <2>2. snap <= Len(early') /\ snap \in Nat
    BY <1>9 DEF Types, Bounds, StageTypes
  <2>3. QED
    BY <2>1, <2>2, TypesFrame DEF Types, Bounds, stageVars
<1>12. QED
  BY <1>5, <1>6, <1>7, <1>10, <1>11 DEF Types

-----------------------------------------------------------------------------
(* The response stage's steps *)

LEMMA FramesTyped ==
  /\ \A r \in Reply : EarlyFrames(r) \in Seq(Bytes)
  /\ \A s \in Slot : SlotFrames(s) \in Seq(Bytes)
<1>1. ASSUME NEW id \in Nat
      PROVE  /\ <<Frame("early", id)>> \in Seq(Bytes) /\ <<Frame("response", id)>> \in Seq(Bytes)
             /\ <<Frame("response", id), Frame("end", id)>> \in Seq(Bytes)
  <2>1. Frame("early", id) \in Bytes /\ Frame("response", id) \in Bytes /\ Frame("end", id) \in Bytes
    BY DEF Frame, Bytes
  <2>2. QED
    BY <2>1
<1>2. ASSUME NEW r \in Reply PROVE EarlyFrames(r) \in Seq(Bytes)
  BY <1>1 DEF EarlyFrames, Reply
<1>3. ASSUME NEW s \in Slot PROVE SlotFrames(s) \in Seq(Bytes)
  BY <1>1 DEF SlotFrames, Slot
<1>4. QED
  BY <1>2, <1>3

LEMMA JoinedTyped ==
  ASSUME NEW c, NEW st \in Seq(Bytes), NEW s \in Seq(Reply)
  PROVE  Joined(c, st, s) \in Seq(Bytes)
<1>1. PICK h : IsJoin(h, c, st, s) /\ Joined(c, st, s) = h[Len(s)]
  BY JoinedRuns
<1>2. Len(s) \in Nat /\ \A k \in 1..Len(s) : s[k] \in Reply
  BY SeqFacts
<1> DEFINE A == {k \in 0..Len(s) : h[k] \in Seq(Bytes)}
<1>3. 0 \in A
  BY <1>1, <1>2 DEF IsJoin
<1>4. ASSUME NEW k \in 1..Len(s), k - 1 \in A PROVE k \in A
  <2>1. h[k - 1] \in Seq(Bytes) /\ h[k] = added(c, h[k - 1], s[k]) /\ EarlyFrames(s[k]) \in Seq(Bytes) /\ k \in 0..Len(s)
    BY <1>1, <1>2, <1>4, FramesTyped DEF IsJoin
  <2>2. h[k - 1] \o EarlyFrames(s[k]) \in Seq(Bytes)
    BY <2>1, ConcatEffect
  <2>3. QED
    BY <2>1, <2>2 DEF added
<1>5. Len(s) \in A
  <2> HIDE DEF A
  <2>1. \A k \in 0..Len(s) : k \in A
    BY <1>2, <1>3, <1>4, Climb
  <2>2. Len(s) \in 0..Len(s)
    BY <1>2
  <2>3. QED
    BY <2>1, <2>2
<1>6. QED
  BY <1>1, <1>5

Snapped == SubSeq(early, 1, snap)

LEMMA SnapFacts ==
  ASSUME Types
  PROVE  /\ early \in Seq(Reply) /\ Len(early) \in Nat /\ snap \in 0..Len(early)
         /\ Snapped \in Seq(Reply) /\ Len(Snapped) = snap /\ DOMAIN Snapped = 1..snap
         /\ \A k \in 1..snap : Snapped[k] = early[k] /\ k \in DOMAIN early
<1>1. early \in Seq(Reply) /\ Len(early) \in Nat /\ DOMAIN early = 1..Len(early) /\ snap \in 0..Len(early)
  BY SeqFacts DEF Types, QueueTypes, Bounds, StageTypes
<1>2. /\ Snapped \in Seq(Reply) /\ Len(Snapped) = snap /\ DOMAIN Snapped = 1..snap
      /\ \A k \in 1..snap : Snapped[k] = early[k]
  BY <1>1, PrefixEffect DEF Snapped
<1>3. QED
  BY <1>1, <1>2

\* release_early_replies, of the connections in the table.
LEMMA ReleaseEffect ==
  ASSUME Types, Release
  PROVE  /\ \A c \in Conns : sendbuf'[c] = IF c \in table THEN Joined(c, sendbuf[c], Snapped) ELSE sendbuf[c]
         /\ sendbuf' \in [Conns -> Seq(Bytes)]
         /\ early' \in Seq(Reply) /\ early' = SubSeq(early, snap + 1, Len(early))
         /\ Len(early') = Len(early) - snap /\ Len(early') \in Nat
         /\ \A k \in 1..Len(early') : snap + k \in 1..Len(early) /\ early'[k] = early[snap + k]
         /\ snap' = 0
<1>0. early \in Seq(Reply) /\ Len(early) \in Nat /\ snap \in 0..Len(early) /\ Snapped \in Seq(Reply)
  BY SnapFacts
<1>1. sendbuf' = [c \in Conns |-> IF c \notin table THEN sendbuf[c] ELSE Joined(c, sendbuf[c], Snapped)]
  BY DEF Release, Joined, Snapped
<1>2. \A c \in Conns : sendbuf'[c] = IF c \in table THEN Joined(c, sendbuf[c], Snapped) ELSE sendbuf[c]
  BY <1>1
<1>3. \A c \in Conns : sendbuf[c] \in Seq(Bytes)
  BY DEF Types, StageTypes
<1>4. \A c \in Conns : Joined(c, sendbuf[c], Snapped) \in Seq(Bytes)
  BY <1>0, <1>3, JoinedTyped
<1>5. sendbuf' \in [Conns -> Seq(Bytes)]
  BY <1>1, <1>3, <1>4
<1>6. early' = SubSeq(early, snap + 1, Len(early)) /\ snap' = 0
  BY DEF Release
<1>7. /\ early' \in Seq(Reply) /\ Len(early') = Len(early) - snap
      /\ \A k \in 1..Len(early') : snap + k \in 1..Len(early) /\ early'[k] = early[snap + k]
  BY <1>0, <1>6, SuffixEffect
<1>8. Len(early') \in Nat
  BY <1>0, <1>7
<1>9. QED
  BY <1>2, <1>5, <1>6, <1>7, <1>8

StageUnchanged == UNCHANGED stageRest

LEMMA StageFrame ==
  ASSUME Types, StageUnchanged, sock' = sock, control' = control
  PROVE  ClientTypes' /\ AcceptTypes' /\ SlabTypes'
<1>1. /\ UNCHANGED <<sock, sent, wire, client>> /\ UNCHANGED <<accepting, announced, regs, control>>
      /\ UNCHANGED <<slabVars, ops, cq, busy>>
  BY DEF StageUnchanged, stageRest, clientVars, acceptVars, callVars
<1>2. QED
  BY <1>1, TypesFrame DEF Types

LEMMA QueueFrame ==
  ASSUME Types, StageUnchanged, early' \in Seq(Reply), output' \in Seq(Slot)
  PROVE  QueueTypes'
BY DEF StageUnchanged, stageRest, callVars, Types, QueueTypes

\* Steps that only look: read_contiguous, refresh, the waits.
LEMMA LookEffect ==
  ASSUME Types, Numbered, Read \/ Snapshot \/ BeforeWait \/ WhileWaiting
  PROVE  /\ StageUnchanged /\ UNCHANGED <<sock, active, control, early, output, between, table, sendbuf, missed>>
         /\ \/ rpc = "read" /\ rpc' = "snap" /\ take' \in Nat /\ take' <= Len(output) /\ snap' = snap
            \/ rpc = "snap" /\ rpc' = "drain" /\ take' = take /\ snap' = Len(early)
            \/ rpc = "resnap" /\ rpc' = "redrain" /\ take' = take /\ snap' = Len(early)
            \/ rpc = "gate" /\ rpc' = "waitFlush" /\ take' = take /\ snap' = snap
            \/ rpc = "waiting" /\ rpc' = "resnap" /\ take' = take /\ snap' = snap /\ between
<1>0. Len(output) \in Nat /\ MaxBatch \in Nat
  BY LenProperties DEF Types, QueueTypes, Numbered
<1>1. After("read") = "snap" /\ After("snap") = "drain"
  <2>1. /\ ReadOrder[1] = "read" /\ ReadOrder[2] = "snap" /\ ReadOrder[3] = "drain"
    BY DEF ReadOrder
  <2>2. \A k \in 1..3 : k = 1 \/ k = 2 \/ k = 3
    OBVIOUS
  <2>3. (CHOOSE k \in 1..3 : ReadOrder[k] = "read") = 1
    BY <2>1, <2>2
  <2>4. (CHOOSE k \in 1..3 : ReadOrder[k] = "snap") = 2
    BY <2>1, <2>2
  <2>5. QED
    BY <2>1, <2>3, <2>4 DEF After
<1>2. CASE Read
  BY <1>0, <1>1, <1>2 DEF Read, StageUnchanged
<1>3. CASE Snapshot
  BY <1>1, <1>3 DEF Snapshot, StageUnchanged
<1>4. CASE BeforeWait
  BY <1>4 DEF BeforeWait, StageUnchanged
<1>5. CASE WhileWaiting
  BY <1>5 DEF WhileWaiting, StageUnchanged, at_boundary
<1>6. QED
  BY <1>2, <1>3, <1>4, <1>5

LEMMA TypesLook ==
  ASSUME Types, Numbered, Read \/ Snapshot \/ BeforeWait \/ WhileWaiting
  PROVE  Types'
<1>1. /\ StageUnchanged /\ UNCHANGED <<sock, active, control, early, output, between, table, sendbuf, missed>>
  BY LookEffect
<1>2. ClientTypes' /\ AcceptTypes' /\ SlabTypes'
  BY <1>1, StageFrame
<1>3. QueueTypes'
  BY <1>1, QueueFrame DEF Types, QueueTypes
<1>4. Len(early) \in Nat /\ Len(output) \in Nat
  BY LenProperties DEF Types, QueueTypes
<1>5. StageTypes' /\ Bounds'
  BY <1>1, <1>4, LookEffect DEF Types, StageTypes, Bounds
<1>6. QED
  BY <1>2, <1>3, <1>5 DEF Types

LEMMA DrainEffect ==
  ASSUME Drain
  PROVE  /\ StageUnchanged /\ UNCHANGED <<sock, early, output, take, snap, between, missed>>
         /\ \/ rpc = "drain" /\ rpc' = "turn"
            \/ rpc = "redrain" /\ rpc' = "release"
         /\ table' = (table \cup Named("Connected")) \ Named("Disconnected")
         /\ active' = active - Cardinality(Returned)
         /\ sendbuf' = [c \in Conns |-> IF c \in Named("Disconnected") THEN <<>> ELSE sendbuf[c]]
         /\ control' = <<>>
<1>1. After("drain") = "turn"
  <2>1. /\ ReadOrder[1] = "read" /\ ReadOrder[2] = "snap" /\ ReadOrder[3] = "drain"
    BY DEF ReadOrder
  <2>2. \A k \in 1..3 : k = 1 \/ k = 2 \/ k = 3
    OBVIOUS
  <2>3. (CHOOSE k \in 1..3 : ReadOrder[k] = "drain") = 3
    BY <2>1, <2>2
  <2>4. ~(3 < 3)
    OBVIOUS
  <2>5. QED
    BY <2>1, <2>3, <2>4 DEF After
<1>2. QED
  BY <1>1 DEF Drain, StageUnchanged

LEMMA TypesDrain ==
  ASSUME Types, Drain
  PROVE  Types'
<1>1. UNCHANGED <<sock, sent, wire, client>> /\ UNCHANGED <<slabVars, ops, cq, busy>>
      /\ UNCHANGED <<batch, staged, input, early, half, output, tails, onRing>>
      /\ UNCHANGED <<accepting, announced, regs>>
  BY DrainEffect DEF StageUnchanged, stageRest, clientVars, acceptVars, callVars
<1>2. ClientTypes' /\ SlabTypes' /\ QueueTypes'
  BY <1>1, TypesFrame DEF Types
<1>3. AcceptTypes'
  <2>1. control' \in Seq({"Connected", "Disconnected"} \X Conns)
    BY DrainEffect, EmptySeq
  <2>2. QED
    BY <1>1, <2>1 DEF Types, AcceptTypes
<1>4. sendbuf' \in [Conns -> Seq(Bytes)]
  <2>1. <<>> \in Seq(Bytes) /\ \A c \in Conns : sendbuf[c] \in Seq(Bytes)
    BY EmptySeq DEF Types, StageTypes
  <2>2. QED
    BY <2>1, DrainEffect
<1>5. table' \subseteq Conns
  BY DrainEffect DEF Types, StageTypes, Named
<1>6. StageTypes' /\ Bounds'
  BY <1>4, <1>5, DrainEffect DEF Types, StageTypes, Bounds
<1>7. QED
  BY <1>2, <1>3, <1>6 DEF Types

\* The steps that release the snapshot, or keep it back inside an event.
LEMMA TurnEffect ==
  ASSUME Idle \/ BeforeSlot \/ WaitRelease
  PROVE  /\ StageUnchanged /\ UNCHANGED <<sock, active, control, output, take, between, table>>
         /\ \/ rpc = "turn" /\ take = 0 /\ rpc' = "idleFlush" /\ (IF between THEN Release ELSE NoRelease)
            \/ rpc = "turn" /\ take > 0 /\ rpc' = "gate" /\ (IF between THEN Release ELSE NoRelease)
            \/ rpc = "release" /\ rpc' \in {"waitFlush", "waiting"} /\ Release
<1>1. CASE Idle
  BY <1>1 DEF Idle, StageUnchanged, at_boundary
<1>2. CASE BeforeSlot
  BY <1>2 DEF BeforeSlot, StageUnchanged, at_boundary
<1>3. CASE WaitRelease
  BY <1>3 DEF WaitRelease, StageUnchanged
<1>4. QED
  BY <1>1, <1>2, <1>3

LEMMA TypesTurn ==
  ASSUME Types, Idle \/ BeforeSlot \/ WaitRelease
  PROVE  Types'
<1>1. StageUnchanged /\ UNCHANGED <<sock, active, control, output, take, between, table>>
  BY TurnEffect
<1>2. ClientTypes' /\ AcceptTypes' /\ SlabTypes'
  BY <1>1, StageFrame
<1>3. Release \/ NoRelease
  BY TurnEffect
<1>4. early' \in Seq(Reply) /\ sendbuf' \in [Conns -> Seq(Bytes)] /\ snap' \in Nat /\ snap' <= Len(early')
  <2>1. CASE Release
    BY <2>1, ReleaseEffect
  <2>2. CASE NoRelease
    BY <2>2 DEF NoRelease, Types, QueueTypes, StageTypes, Bounds
  <2>3. QED
    BY <1>3, <2>1, <2>2
<1>5. QueueTypes'
  BY <1>1, <1>4, QueueFrame DEF Types, QueueTypes
<1>6. StageTypes' /\ Bounds'
  BY <1>1, <1>4, TurnEffect DEF Types, StageTypes, Bounds
<1>7. QED
  BY <1>2, <1>5, <1>6 DEF Types

\* send_slot.
LEMMA SendSlotEffect ==
  ASSUME Types, SendSlot
  PROVE  /\ StageUnchanged /\ UNCHANGED <<sock, active, control, early, snap, table>>
         /\ rpc \in {"gate", "waiting"} /\ take > 0
         /\ rpc' \in {"slotFlush", "read", "turn"}
         /\ output # <<>> /\ output[1] \in Slot /\ output' = Tail(output) /\ take' = take - 1
         /\ between' = output[1].last
         /\ sendbuf' = IF output[1].conn \in table
                       THEN [sendbuf EXCEPT ![output[1].conn] = @ \o SlotFrames(output[1])] ELSE sendbuf
         /\ missed' = IF output[1].conn \notin table /\ sock[output[1].conn] = "open"
                      THEN missed \cup {output[1].conn} ELSE missed
<1>1. rpc \in {"gate", "waiting"}
  BY DEF SendSlot
<1>2. take > 0 /\ take <= Len(output) /\ take \in Nat /\ output \in Seq(Slot)
  BY <1>1 DEF Types, Bounds, StageTypes, QueueTypes
<1>3. output # <<>> /\ Head(output) = output[1] /\ output[1] \in Slot
  <2>1. Len(output) \in Nat /\ Len(output) # 0
    BY <1>2, SeqFacts
  <2>2. 1 \in 1..Len(output)
    BY <2>1
  <2>3. QED
    BY <1>2, <2>1, <2>2, SeqFacts
<1>4. rpc' \in {"slotFlush", "read", "turn"}
  BY DEF SendSlot, AfterSlot, ReadOrder
<1>5. QED
  BY <1>1, <1>2, <1>3, <1>4 DEF SendSlot, StageUnchanged, handled

LEMMA TypesSendSlot ==
  ASSUME Types, SendSlot
  PROVE  Types'
<1>1. StageUnchanged /\ UNCHANGED <<sock, active, control, early, snap, table>>
  BY SendSlotEffect
<1>2. ClientTypes' /\ AcceptTypes' /\ SlabTypes'
  BY <1>1, StageFrame
<1>3. /\ output' \in Seq(Slot) /\ Len(output') = Len(output) - 1 /\ Len(output) \in Nat
  BY SendSlotEffect, TailEffect DEF Types, QueueTypes
<1>4. QueueTypes'
  BY <1>1, <1>3, QueueFrame DEF Types, QueueTypes
<1>5. sendbuf' \in [Conns -> Seq(Bytes)]
  <2> DEFINE s == output[1]
  <2>1. s \in Slot /\ s.conn \in Conns /\ SlotFrames(s) \in Seq(Bytes)
    BY SendSlotEffect, FramesTyped DEF Slot
  <2>2. sendbuf[s.conn] \in Seq(Bytes)
    BY <2>1 DEF Types, StageTypes
  <2>3. sendbuf[s.conn] \o SlotFrames(s) \in Seq(Bytes)
    BY <2>1, <2>2, ConcatEffect
  <2>4. QED
    BY <2>1, <2>3, SendSlotEffect DEF Types, StageTypes
<1>6. take' \in Nat /\ take' <= Len(output') /\ between' \in BOOLEAN
  <2>1. take \in Nat /\ take <= Len(output)
    BY DEF Types, StageTypes, Bounds
  <2>2. take' \in Nat /\ take' <= Len(output')
    BY <1>3, <2>1, SendSlotEffect
  <2>3. output[1].last \in BOOLEAN
    BY SendSlotEffect DEF Slot
  <2>4. QED
    BY <2>2, <2>3, SendSlotEffect
<1>7. StageTypes' /\ Bounds'
  BY <1>1, <1>5, <1>6, SendSlotEffect DEF Types, StageTypes, Bounds
<1>8. QED
  BY <1>2, <1>4, <1>7 DEF Types

\* flush_sends: all of it, all but the rest of one peer's, or a peer dropped.
FlushRest ==
  UNCHANGED <<sent, wire, acceptVars, control, slabVars, ops, cq, callVars, input, early,
              half, output, take, snap, between, durable, tails, onRing, missed>>

FlushAll ==
  /\ \A c \in Conns : client'[c] = Seen(c) /\ sendbuf'[c] = <<>>
  /\ sock' = sock /\ active' = active /\ table' = table

FlushSome(c, n) ==
  /\ client'[c] = Fold(client[c], SubSeq(sendbuf[c], 1, n))
  /\ \A b \in Conns : b # c => client'[b] = Seen(b) /\ sendbuf'[b] = <<>>
  /\ \/ /\ sendbuf'[c] = SubSeq(sendbuf[c], n + 1, Len(sendbuf[c]))
        /\ sock' = sock /\ active' = active /\ table' = table
     \/ /\ sendbuf'[c] = <<>> /\ table' = table \ {c} /\ active' = active - 1
        /\ sock' = [sock EXCEPT ![c] = "shut"]

LEMMA FlushEffect ==
  ASSUME Types, Flush
  PROVE  /\ FlushRest
         /\ \/ rpc = "idleFlush" /\ rpc' = "read"
            \/ rpc = "waitFlush" /\ rpc' = "waiting"
            \/ rpc = "slotFlush" /\ rpc' \in {"read", "turn"}
         /\ client' \in [Conns -> Account] /\ sendbuf' \in [Conns -> Seq(Bytes)]
         /\ FlushAll \/ \E c \in table : \E n \in 0..(Len(sendbuf[c]) - 1) : FlushSome(c, n)
<1>1. FlushRest
  BY DEF Flush, FlushRest
<1>2. \/ rpc = "idleFlush" /\ rpc' = "read"
      \/ rpc = "waitFlush" /\ rpc' = "waiting"
      \/ rpc = "slotFlush" /\ rpc' \in {"read", "turn"}
  BY DEF Flush, AfterFlush, AfterSlot, ReadOrder
<1>3. \A c \in Conns : client[c] \in Account /\ sendbuf[c] \in Seq(Bytes) /\ Len(sendbuf[c]) \in Nat
  BY LenProperties DEF Types, ClientTypes, StageTypes
<1>4. \A c \in Conns : Seen(c) \in Account
  BY <1>3, FoldFacts DEF Seen, Fold
<1>5. <<>> \in Seq(Bytes) /\ table \subseteq Conns
  BY EmptySeq DEF Types, StageTypes
<1>6. CASE /\ client' = [c \in Conns |-> FoldLeft(observe, client[c], sendbuf[c])]
           /\ sendbuf' = [c \in Conns |-> <<>>]
           /\ UNCHANGED <<sock, active, table, faults>>
  <2>1. client' = [c \in Conns |-> Seen(c)]
    BY <1>6 DEF Seen
  <2>2. FlushAll
    BY <1>6, <2>1 DEF FlushAll
  <2>3. client' \in [Conns -> Account] /\ sendbuf' \in [Conns -> Seq(Bytes)]
    BY <1>4, <1>5, <1>6, <2>1
  <2>4. QED
    BY <1>1, <1>2, <2>2, <2>3
<1>7. ASSUME NEW c \in table, NEW n \in 0..(Len(sendbuf[c]) - 1),
             client' = [b \in Conns |-> FoldLeft(observe, client[b],
                           IF b = c THEN SubSeq(sendbuf[b], 1, n) ELSE sendbuf[b])],
             \/ /\ sendbuf' = [b \in Conns |->
                     IF b = c THEN SubSeq(sendbuf[b], n + 1, Len(sendbuf[b])) ELSE <<>>]
                /\ UNCHANGED <<sock, active, table>>
             \/ /\ sendbuf' = [b \in Conns |-> <<>>]
                /\ table' = table \ {c}
                /\ sock' = [sock EXCEPT ![c] = "shut"]
                /\ active' = active - 1
      PROVE  /\ client' \in [Conns -> Account] /\ sendbuf' \in [Conns -> Seq(Bytes)]
             /\ FlushSome(c, n)
  <2>0. c \in Conns /\ n \in 0..Len(sendbuf[c])
    BY <1>3, <1>5
  <2>1. SubSeq(sendbuf[c], 1, n) \in Seq(Bytes) /\ SubSeq(sendbuf[c], n + 1, Len(sendbuf[c])) \in Seq(Bytes)
    BY <1>3, <2>0, PrefixEffect, SuffixEffect
  <2>2. Fold(client[c], SubSeq(sendbuf[c], 1, n)) \in Account
    BY <1>3, <2>0, <2>1, FoldFacts
  <2> DEFINE F(b) == FoldLeft(observe, client[b], IF b = c THEN SubSeq(sendbuf[b], 1, n) ELSE sendbuf[b])
  <2>3. F(c) = Fold(client[c], SubSeq(sendbuf[c], 1, n))
    BY DEF Fold
  <2>4. ASSUME NEW b \in Conns, b # c PROVE F(b) = Seen(b)
    BY <2>4 DEF Seen
  <2>5. client' = [b \in Conns |-> F(b)]
    BY <1>7
  <2> HIDE DEF F
  <2>6. \A b \in Conns : F(b) \in Account
    <3>1. ASSUME NEW b \in Conns PROVE F(b) \in Account
      <4>1. CASE b = c
        BY <2>2, <2>3, <4>1
      <4>2. CASE b # c
        BY <1>4, <2>4, <4>2
      <4>3. QED
        BY <4>1, <4>2
    <3>2. QED
      BY <3>1
  <2>7. client' \in [Conns -> Account]
    BY <2>5, <2>6
  <2>8. sendbuf' \in [Conns -> Seq(Bytes)]
    BY <1>5, <1>7, <2>0, <2>1
  <2>9. FlushSome(c, n)
    BY <1>7, <2>0, <2>3, <2>4, <2>5 DEF FlushSome
  <2>10. QED
    BY <2>7, <2>8, <2>9
<1>8. QED
  <2>1. CASE /\ client' = [c \in Conns |-> FoldLeft(observe, client[c], sendbuf[c])]
             /\ sendbuf' = [c \in Conns |-> <<>>]
             /\ UNCHANGED <<sock, active, table, faults>>
    BY <1>6, <2>1
  <2>2. CASE \E c \in table : \E n \in 0..(Len(sendbuf[c]) - 1) :
               /\ client' = [b \in Conns |-> FoldLeft(observe, client[b],
                               IF b = c THEN SubSeq(sendbuf[b], 1, n) ELSE sendbuf[b])]
               /\ \/ /\ sendbuf' = [b \in Conns |->
                         IF b = c THEN SubSeq(sendbuf[b], n + 1, Len(sendbuf[b])) ELSE <<>>]
                     /\ UNCHANGED <<sock, active, table>>
                  \/ /\ sendbuf' = [b \in Conns |-> <<>>]
                     /\ table' = table \ {c}
                     /\ sock' = [sock EXCEPT ![c] = "shut"]
                     /\ active' = active - 1
    BY <1>1, <1>2, <1>7, <2>2
  <2>3. QED
    BY <2>1, <2>2 DEF Flush

LEMMA TypesFlush ==
  ASSUME Types, Flush
  PROVE  Types'
<1>1. FlushRest /\ client' \in [Conns -> Account] /\ sendbuf' \in [Conns -> Seq(Bytes)]
  BY FlushEffect
<1>2. sock' \in [Conns -> {"none", "open", "shut"}] /\ table' \subseteq Conns
  BY FlushEffect DEF FlushAll, FlushSome, Types, ClientTypes, StageTypes
<1>3. ClientTypes'
  BY <1>1, <1>2 DEF FlushRest, Types, ClientTypes
<1>4. StageTypes' /\ Bounds'
  BY <1>1, <1>2, FlushEffect DEF FlushRest, Types, StageTypes, Bounds
<1>5. AcceptTypes' /\ SlabTypes' /\ QueueTypes'
  <2>1. /\ UNCHANGED <<slabVars, ops, cq, busy>> /\ UNCHANGED <<accepting, announced, regs, control>>
        /\ UNCHANGED <<batch, staged, input, early, half, output, tails, onRing>>
    BY <1>1 DEF FlushRest, callVars, acceptVars
  <2>2. QED
    BY <2>1, TypesFrame DEF Types
<1>6. QED
  BY <1>3, <1>4, <1>5 DEF Types

MatchRest ==
  UNCHANGED <<sock, clientVars, active, acceptVars, control, slabVars, ops, cq, callVars,
              early, stageVars, durable, faults, tails, onRing, missed>>

LEMMA MatchEffect ==
  ASSUME Types, MatchStep
  PROVE  /\ MatchRest /\ input # <<>> /\ input[1] \in Ask /\ half' = ~half
         /\ output' = Append(output, [conn |-> input[1].conn, id |-> input[1].id, last |-> half])
         /\ [conn |-> input[1].conn, id |-> input[1].id, last |-> half] \in Slot
         /\ input' = IF half THEN Tail(input) ELSE input
<1>1. input # <<>> /\ input \in Seq(Ask) /\ half \in BOOLEAN
  BY DEF MatchStep, Types, QueueTypes
<1>2. Head(input) = input[1] /\ input[1] \in Ask
  BY <1>1, TailEffect
<1>3. [conn |-> input[1].conn, id |-> input[1].id, last |-> half] \in Slot
  BY <1>1, <1>2 DEF Ask, Slot
<1>4. QED
  BY <1>1, <1>2, <1>3 DEF MatchStep, MatchRest

LEMMA TypesMatch ==
  ASSUME Types, MatchStep
  PROVE  Types'
<1>1. /\ output' \in Seq(Slot) /\ Len(output') = Len(output) + 1 /\ Len(output) \in Nat
  BY MatchEffect, AppendEffect, LenProperties DEF Types, QueueTypes
<1>2. input' \in Seq(Ask) /\ half' \in BOOLEAN
  BY MatchEffect, TailEffect DEF Types, QueueTypes
<1>3. QueueTypes'
  BY <1>1, <1>2, MatchEffect DEF MatchRest, callVars, Types, QueueTypes
<1>4. Bounds'
  BY <1>1, MatchEffect DEF MatchRest, stageVars, Types, Bounds, StageTypes
<1>5. ClientTypes' /\ AcceptTypes' /\ SlabTypes' /\ StageTypes'
  <2>1. /\ UNCHANGED <<slabVars, ops, cq, busy>> /\ UNCHANGED <<accepting, announced, regs, control>>
        /\ UNCHANGED <<sock, sent, wire, client>> /\ UNCHANGED stageVars
    BY MatchEffect DEF MatchRest, callVars, acceptVars, clientVars
  <2>2. QED
    BY <2>1, TypesFrame DEF Types
<1>6. QED
  BY <1>3, <1>4, <1>5 DEF Types

\* Nothing but the gate: a slot turns durable.
PathVars ==
  <<sock, clientVars, active, accepting, announced, regs, control, slabVars, ops, cq, busy, batch, staged,
    input, early, half, output, stageVars, tails, onRing, missed>>

LEMMA DurableEffect ==
  ASSUME Durable \/ UNCHANGED pathVars
  PROVE  UNCHANGED PathVars
<1>1. CASE Durable
  BY <1>1 DEF Durable, PathVars, acceptVars, callVars
<1>2. CASE UNCHANGED pathVars
  BY <1>2 DEF pathVars, PathVars, acceptVars, callVars
<1>3. QED
  BY <1>1, <1>2

LEMMA TypesSame ==
  ASSUME Types, UNCHANGED PathVars
  PROVE  Types'
<1>1. /\ UNCHANGED <<slabVars, ops, cq, busy>> /\ UNCHANGED <<accepting, announced, regs, control>>
      /\ UNCHANGED <<sock, sent, wire, client>> /\ UNCHANGED stageVars
      /\ UNCHANGED <<batch, staged, input, early, half, output, tails, onRing>>
      /\ UNCHANGED <<take, snap, rpc, output, early>>
  BY DEF PathVars, clientVars, stageVars
<1>2. QED
  BY <1>1, TypesFrame DEF Types

-----------------------------------------------------------------------------
(* Owned *)

LEMMA FreeKept ==
  ASSUME SlabTypes, FreeVacant, NEW i \in Entries, slab[i] # 0, NEW r, NEW b, NEW s,
         Becomes(i, slab[i], r, b, s), Entries' = Entries, free' = free
  PROVE  FreeVacant'
<1>1. \A k \in DOMAIN free : free[k] # i
  BY DEF FreeVacant
<1>2. \A k \in DOMAIN free' : free'[k] \in Entries' /\ slab'[free'[k]] = 0
  BY <1>1 DEF FreeVacant, Becomes
<1>3. \A k, l \in DOMAIN free' : free'[k] = free'[l] => k = l
  BY DEF FreeVacant
<1>4. \A j \in Entries' : slab'[j] = 0 => recv'[j] = "Idle" /\ buf'[j] = <<>> /\ shed'[j] = 0
  BY DEF FreeVacant, Becomes
<1>5. QED
  BY <1>2, <1>3, <1>4 DEF FreeVacant

LEMMA FreeGrown ==
  ASSUME SlabTypes, FreeVacant, NEW i \in Entries, slab[i] # 0,
         Becomes(i, 0, "Idle", <<>>, 0), Entries' = Entries, free' = Append(free, i)
  PROVE  FreeVacant'
<1>0. i \in Nat /\ free \in Seq(Nat) /\ Len(free) \in Nat /\ DOMAIN free = 1..Len(free)
  BY SlabFacts, SeqFacts DEF SlabTypes
<1>1. \A k \in DOMAIN free : free[k] # i
  BY DEF FreeVacant
<1>2. /\ DOMAIN free' = 1..(Len(free) + 1) /\ free'[Len(free) + 1] = i
      /\ \A k \in 1..Len(free) : free'[k] = free[k]
  BY <1>0, AppendEffect
<1>3. \A k \in DOMAIN free' : k = Len(free) + 1 \/ k \in DOMAIN free
  BY <1>0, <1>2
<1>4. \A k \in DOMAIN free' : free'[k] \in Entries' /\ slab'[free'[k]] = 0
  BY <1>0, <1>1, <1>2, <1>3 DEF FreeVacant, Becomes
<1>5. \A k, l \in DOMAIN free' : free'[k] = free'[l] => k = l
  BY <1>0, <1>1, <1>2, <1>3 DEF FreeVacant
<1>6. \A j \in Entries' : slab'[j] = 0 => recv'[j] = "Idle" /\ buf'[j] = <<>> /\ shed'[j] = 0
  BY DEF FreeVacant, Becomes
<1>7. QED
  BY <1>4, <1>5, <1>6 DEF FreeVacant

LEMMA FreeRegistered ==
  ASSUME SlabTypes, FreeVacant, NEW i \in Nat, NEW c, c # 0,
         Becomes(i, c, "Armed", <<>>, 0),
         \/ i \notin Entries /\ free' = free
         \/ i \in Entries /\ slab[i] = 0 /\ free # <<>> /\ free' = Front(free) /\ i = Last(free)
  PROVE  FreeVacant'
<1>0. free \in Seq(Nat) /\ Len(free) \in Nat /\ DOMAIN free = 1..Len(free)
  BY SeqFacts DEF SlabTypes
<1>1. \A k \in DOMAIN free' : k \in DOMAIN free /\ free'[k] = free[k] /\ free[k] # i
  <2>1. CASE i \notin Entries /\ free' = free
    BY <2>1 DEF FreeVacant
  <2>2. CASE free # <<>> /\ free' = Front(free) /\ i = Last(free)
    <3>1. /\ Len(free) >= 1 /\ Len(free') = Len(free) - 1 /\ DOMAIN free' = 1..Len(free')
          /\ Last(free) = free[Len(free)] /\ \A k \in 1..Len(free') : free'[k] = free[k]
      <4>1. free \in Seq(Nat) /\ free # <<>> /\ free' = Front(free)
        BY <1>0, <2>2
      <4>2. QED
        BY ONLY <4>1, FrontEffect
    <3>2. ASSUME NEW k \in DOMAIN free' PROVE k \in DOMAIN free /\ k # Len(free) /\ Len(free) \in DOMAIN free
      BY <1>0, <3>1
    <3>3. QED
      BY <2>2, <3>1, <3>2 DEF FreeVacant
  <2>3. QED
    BY <2>1, <2>2
<1>2. \A k \in DOMAIN free' : free'[k] \in Entries' /\ slab'[free'[k]] = 0
  BY <1>1 DEF FreeVacant, Becomes
<1>3. \A k, l \in DOMAIN free' : free'[k] = free'[l] => k = l
  BY <1>1 DEF FreeVacant
<1>4. \A j \in Entries' : slab'[j] = 0 => recv'[j] = "Idle" /\ buf'[j] = <<>> /\ shed'[j] = 0
  BY DEF FreeVacant, Becomes
<1>5. QED
  BY <1>2, <1>3, <1>4 DEF FreeVacant

LEMMA BytesMoved ==
  ASSUME BytesUnderOwner, NEW i, NEW c, NEW r, NEW b, NEW s, Becomes(i, c, r, b, s),
         \A k \in DOMAIN b : b[k].from = c
  PROVE  BytesUnderOwner'
<1>1. ASSUME NEW j \in Entries', NEW k \in DOMAIN (buf'[j]) PROVE buf'[j][k].from = slab'[j]
  <2>1. CASE j = i
    BY <1>1, <2>1 DEF Becomes
  <2>2. CASE j # i
    BY <1>1, <2>2 DEF Becomes, BytesUnderOwner
  <2>3. QED
    BY <2>1, <2>2
<1>2. QED
  BY <1>1 DEF BytesUnderOwner

\* The receives left are those there were, but for a new one of entry i.
LEMMA OpsMoved ==
  ASSUME OpsOwned, NEW i, NEW c, NEW r, NEW b, NEW s, Becomes(i, c, r, b, s),
         \A op \in ops' :
           \/ /\ \E o \in ops : o.idx = op.idx /\ o.conn = op.conn
              /\ op.idx = i => c = slab[i] /\ r \in Engaged
           \/ op.idx = i /\ op.conn = c /\ r \in Engaged,
         \A op, o \in ops' : op.idx = o.idx => op = o
  PROVE  OpsOwned'
<1>1. ASSUME NEW op \in ops'
      PROVE  op.idx \in Entries' /\ slab'[op.idx] = op.conn /\ recv'[op.idx] \in Engaged
  BY <1>1 DEF Becomes, OpsOwned
<1>2. QED
  BY <1>1 DEF OpsOwned

LEMMA CancelledShadow ==
  ASSUME SlabTypes, OpsOwned, NEW j, NEW new, new \in {ops, Cancelled(j)}
  PROVE  /\ \A op \in new : \E o \in ops : o.idx = op.idx /\ o.conn = op.conn
         /\ \A op, o \in new : op.idx = o.idx => op = o
<1>1. CASE new = ops
  BY <1>1 DEF OpsOwned
<1>2. CASE new = Cancelled(j)
  <2> DEFINE m(o) == [o EXCEPT !.cancel = @ \/ o.idx = j]
  <2>1. \A o \in ops : m(o).idx = o.idx /\ m(o).conn = o.conn
    BY DEF SlabTypes, Receive
  <2>2. new = {m(o) : o \in ops}
    BY <1>2 DEF Cancelled
  <2> HIDE DEF m
  <2>3. QED
    BY <2>1, <2>2 DEF OpsOwned
<1>3. QED
  BY <1>1, <1>2

LEMMA CqShift ==
  ASSUME SlabTypes, cq' = cq \/ (cq # <<>> /\ cq' = Tail(cq))
  PROVE  \E d \in {0, 1} : \A k \in DOMAIN cq' : k \in Nat /\ k + d \in DOMAIN cq /\ cq'[k] = cq[k + d]
<1>0. cq \in Seq(Completion) /\ Len(cq) \in Nat /\ DOMAIN cq = 1..Len(cq)
  BY SeqFacts DEF SlabTypes
<1>1. CASE cq' = cq
  <2>1. \A k \in DOMAIN cq' : k \in Nat /\ k + 0 \in DOMAIN cq /\ cq'[k] = cq[k + 0]
    <3>1. \A k \in 1..Len(cq) : k \in Nat /\ k + 0 = k
      BY <1>0
    <3>2. QED
      BY <1>0, <1>1, <3>1
  <2>2. QED
    BY <2>1
<1>2. CASE cq # <<>> /\ cq' = Tail(cq)
  <2>1. /\ Len(cq) >= 1 /\ Len(cq') = Len(cq) - 1 /\ DOMAIN cq' = 1..Len(cq')
        /\ \A k \in 1..Len(cq') : cq'[k] = cq[k + 1]
    <3>1. cq \in Seq(Completion) /\ cq # <<>> /\ cq' = Tail(cq)
      BY <1>0, <1>2
    <3>2. QED
      BY ONLY <3>1, TailEffect
  <2>2. \A k \in DOMAIN cq' : k \in Nat /\ k + 1 \in DOMAIN cq /\ cq'[k] = cq[k + 1]
    BY <1>0, <2>1
  <2>3. QED
    BY <2>2
<1>3. QED
  BY <1>1, <1>2

\* Completions stay with their entries, or are taken from the front.
LEMMA CqMoved ==
  ASSUME SlabTypes, CqOwned, NEW i, NEW c, NEW r, NEW b, NEW s, Becomes(i, c, r, b, s),
         cq' = cq \/ (cq # <<>> /\ cq' = Tail(cq)),
         \A k \in DOMAIN cq' : cq'[k].idx = i => c = slab[i] /\ r \in Engaged,
         \A op \in ops' : \/ \E o \in ops : o.idx = op.idx
                          \/ op.idx = i /\ \A k \in DOMAIN cq' : cq'[k].idx # i
  PROVE  CqOwned'
<1>1. PICK d \in {0, 1} : \A k \in DOMAIN cq' : k \in Nat /\ k + d \in DOMAIN cq /\ cq'[k] = cq[k + d]
  BY CqShift
<1>2. ASSUME NEW k \in DOMAIN cq'
      PROVE  /\ cq'[k].idx \in Entries' /\ slab'[cq'[k].idx] # 0 /\ recv'[cq'[k].idx] \in Engaged
             /\ cq'[k].res # "Data" => cq'[k].terminal
             /\ \A l \in DOMAIN (cq'[k].frames) : cq'[k].frames[l].from = slab'[cq'[k].idx]
             /\ cq'[k].terminal => \A op \in ops' : op.idx # cq'[k].idx
  <2> DEFINE q == cq'[k]
  <2>1. /\ q.idx \in Entries /\ slab[q.idx] # 0 /\ recv[q.idx] \in Engaged
        /\ q.res # "Data" => q.terminal
        /\ \A l \in DOMAIN q.frames : q.frames[l].from = slab[q.idx]
        /\ q.terminal => \A op \in ops : op.idx # q.idx
    <3> DEFINE m == k + d
    <3>1. m \in DOMAIN cq /\ q = cq[m]
      BY <1>1, <1>2
    <3> HIDE DEF q, m
    <3>2. QED
      BY <3>1 DEF CqOwned
  <2>2. q.idx = i => c = slab[i] /\ r \in Engaged
    BY <1>2
  <2>3. slab'[q.idx] = slab[q.idx] /\ q.idx \in Entries' /\ recv'[q.idx] \in Engaged
    <3> HIDE DEF q
    <3>1. CASE q.idx = i
      BY <2>1, <2>2, <3>1 DEF Becomes
    <3>2. CASE q.idx # i
      BY <2>1, <3>2 DEF Becomes
    <3>3. QED
      BY <3>1, <3>2
  <2>4. q.terminal => \A op \in ops' : op.idx # q.idx
    BY <1>2, <2>1
  <2> HIDE DEF q
  <2>5. QED
    BY <2>1, <2>3, <2>4 DEF q
<1>3. ASSUME NEW k \in DOMAIN cq', NEW l \in DOMAIN cq', k < l, cq'[k].terminal
      PROVE  cq'[l].idx # cq'[k].idx
  <2> DEFINE m == k + d
             n == l + d
  <2>1. m \in DOMAIN cq /\ n \in DOMAIN cq /\ m < n /\ cq'[k] = cq[m] /\ cq'[l] = cq[n]
    <3>1. k + d < l + d
      BY <1>1, <1>3
    <3>2. QED
      BY <1>1, <1>3, <3>1
  <2> HIDE DEF m, n
  <2>2. QED
    BY <1>3, <2>1 DEF CqOwned
<1>4. QED
  BY <1>2, <1>3 DEF CqOwned

LEMMA OwnedFrame ==
  /\ FreeVacant /\ UNCHANGED slabVars => FreeVacant'
  /\ BytesUnderOwner /\ UNCHANGED slabVars => BytesUnderOwner'
  /\ OpsOwned /\ UNCHANGED slabVars /\ ops' = ops => OpsOwned'
  /\ CqOwned /\ UNCHANGED slabVars /\ ops' = ops /\ cq' = cq => CqOwned'
  /\ BusyOwned /\ UNCHANGED slabVars /\ UNCHANGED <<busy, batch, staged>> => BusyOwned'
  /\ WireOwned /\ wire' = wire => WireOwned'
<1>1. FreeVacant /\ UNCHANGED slabVars => FreeVacant'
  BY DEF FreeVacant, slabVars, Entries
<1>2. BytesUnderOwner /\ UNCHANGED slabVars => BytesUnderOwner'
  BY DEF BytesUnderOwner, slabVars, Entries
<1>3. OpsOwned /\ UNCHANGED slabVars /\ ops' = ops => OpsOwned'
  BY DEF OpsOwned, slabVars, Entries
<1>4. CqOwned /\ UNCHANGED slabVars /\ ops' = ops /\ cq' = cq => CqOwned'
  BY DEF CqOwned, slabVars, Entries
<1>5. BusyOwned /\ UNCHANGED slabVars /\ UNCHANGED <<busy, batch, staged>> => BusyOwned'
  BY DEF BusyOwned, slabVars, Entries
<1>6. WireOwned /\ wire' = wire => WireOwned'
  BY DEF WireOwned
<1>7. QED
  BY <1>1, <1>2, <1>3, <1>4, <1>5, <1>6, Zenon

LEMMA OwnedInit ==
  ASSUME PathInit
  PROVE  Owned
<1>1. Entries = {} /\ DOMAIN free = {} /\ DOMAIN cq = {} /\ ops = {} /\ busy = 0 /\ batch = <<>> /\ staged = <<>>
  BY DEF PathInit, Entries
<1>2. \A c \in Conns : wire[c] = <<>>
  BY DEF PathInit
<1>3. WireOwned
  BY <1>2 DEF WireOwned
<1>4. QED
  BY <1>1, <1>3 DEF Owned, FreeVacant, OpsOwned, CqOwned, BusyOwned, BytesUnderOwner

LEMMA OwnedSame ==
  ASSUME Owned, UNCHANGED slabVars, UNCHANGED <<ops, cq, busy, batch, staged, wire>>
  PROVE  Owned'
BY OwnedFrame DEF Owned

LEMMA OwnedSend ==
  ASSUME Types, Owned, NEW c \in Conns, NEW k \in Kinds, Send(c, k)
  PROVE  Owned'
<1> DEFINE f == [from |-> c, id |-> sent[c] + 1, kind |-> k]
<1>1. wire' = [wire EXCEPT ![c] = Append(wire[c], f)] /\ UNCHANGED slabVars /\ UNCHANGED <<ops, cq, busy, batch, staged>>
  BY DEF Send, callVars
<1>2. wire[c] \in Seq(Request) /\ Len(wire[c]) \in Nat /\ wire \in [Conns -> Seq(Request)] /\ sent[c] \in Nat
      /\ DOMAIN wire[c] = 1..Len(wire[c])
  BY SeqFacts DEF Types, ClientTypes
<1>3. f \in Request
  BY <1>2 DEF Request
<1>4. /\ DOMAIN Append(wire[c], f) = 1..(Len(wire[c]) + 1)
      /\ \A l \in 1..Len(wire[c]) : Append(wire[c], f)[l] = wire[c][l]
      /\ Append(wire[c], f)[Len(wire[c]) + 1] = f
  BY <1>2, <1>3, AppendEffect
<1>5. \A l \in DOMAIN Append(wire[c], f) : Append(wire[c], f)[l].from = c
  <2>1. ASSUME NEW l \in DOMAIN Append(wire[c], f) PROVE Append(wire[c], f)[l].from = c
    <3>1. l \in 1..Len(wire[c]) \/ l = Len(wire[c]) + 1
      BY <1>2, <1>4
    <3>2. QED
      BY <1>2, <1>4, <3>1 DEF Owned, WireOwned
  <2>2. QED
    BY <2>1
<1> HIDE DEF f
<1>6. WireOwned'
  <2>1. ASSUME NEW b \in Conns, NEW l \in DOMAIN (wire'[b]) PROVE wire'[b][l].from = b
    <3>1. CASE b = c
      BY <1>1, <1>2, <1>5, <2>1, <3>1
    <3>2. CASE b # c
      BY <1>1, <1>2, <2>1, <3>2 DEF Owned, WireOwned
    <3>3. QED
      BY <3>1, <3>2
  <2>2. QED
    BY <2>1 DEF WireOwned
<1>7. QED
  BY <1>1, <1>6, OwnedFrame DEF Owned

LEMMA OwnedKernel ==
  ASSUME Types, Owned, Kernel
  PROVE  Owned'
<1>1. UNCHANGED slabVars /\ UNCHANGED <<busy, batch, staged>>
  BY KernelEffect DEF Types, KernelRest, callVars
<1>2. PICK op \in ops : \E n \in 0..Len(wire[op.conn]) : \E q \in Completion : Posts(op, n, q)
  BY KernelEffect DEF Types
<1>3. PICK n \in 0..Len(wire[op.conn]) : \E q \in Completion : Posts(op, n, q)
  BY <1>2
<1>4. PICK q \in Completion : Posts(op, n, q)
  BY <1>3
<1>5. /\ op.conn \in Conns /\ wire[op.conn] \in Seq(Request) /\ wire \in [Conns -> Seq(Request)]
      /\ DOMAIN wire[op.conn] = 1..Len(wire[op.conn]) /\ op.idx \in Entries
      /\ slab[op.idx] = op.conn /\ recv[op.idx] \in Engaged /\ Len(wire[op.conn]) \in Nat
  BY SeqFacts DEF Types, SlabTypes, ClientTypes, Receive, Owned, OpsOwned
<1>6. FreeVacant' /\ BytesUnderOwner' /\ BusyOwned'
  BY <1>1, OwnedFrame DEF Owned
<1>7. ops' \subseteq ops
  BY <1>4 DEF Posts
<1>8. OpsOwned'
  BY <1>1, <1>7 DEF Owned, OpsOwned, slabVars, Entries
<1>9. WireOwned'
  <2> DEFINE t == SubSeq(wire[op.conn], n + 1, Len(wire[op.conn]))
  <2>1. /\ DOMAIN t = 1..Len(t) /\ \A k \in 1..Len(t) : n + k \in 1..Len(wire[op.conn]) /\ t[k] = wire[op.conn][n + k]
    BY <1>5, SuffixEffect
  <2>2. \A k \in DOMAIN t : t[k].from = op.conn
    BY <1>5, <2>1 DEF Owned, WireOwned
  <2>3. wire' = [wire EXCEPT ![op.conn] = t]
    BY <1>4 DEF Posts
  <2> HIDE DEF t
  <2>4. ASSUME NEW b \in Conns, NEW l \in DOMAIN (wire'[b]) PROVE wire'[b][l].from = b
    <3>1. CASE b = op.conn
      BY <1>5, <2>2, <2>3, <2>4, <3>1
    <3>2. CASE b # op.conn
      BY <1>5, <2>3, <2>4, <3>2 DEF Owned, WireOwned
    <3>3. QED
      BY <3>1, <3>2
  <2>5. QED
    BY <2>4 DEF WireOwned
<1>10. q.idx = op.idx /\ (q.res # "Data" => q.terminal) /\ (q.terminal => \A o \in ops' : o.idx # q.idx)
  BY <1>4 DEF Posts, Owned, OpsOwned
<1>11. \A l \in DOMAIN q.frames : q.frames[l].from = op.conn
  <2>1. q.frames = SubSeq(wire[op.conn], 1, n)
    BY <1>4 DEF Posts
  <2>2. DOMAIN q.frames = 1..n /\ \A k \in 1..n : q.frames[k] = wire[op.conn][k]
    BY <1>5, <2>1, PrefixEffect
  <2>3. \A k \in 1..n : k \in DOMAIN wire[op.conn]
    BY <1>5
  <2>4. QED
    BY <1>5, <2>2, <2>3 DEF Owned, WireOwned
<1>12. /\ cq \in Seq(Completion) /\ Len(cq) \in Nat /\ DOMAIN cq = 1..Len(cq)
       /\ DOMAIN cq' = 1..(Len(cq) + 1) /\ cq'[Len(cq) + 1] = q
       /\ \A k \in 1..Len(cq) : cq'[k] = cq[k]
  <2>1. cq \in Seq(Completion) /\ cq' = Append(cq, q)
    BY <1>4 DEF Posts, Types, SlabTypes
  <2>2. QED
    BY <2>1, AppendEffect, SeqFacts
<1>13. CqOwned'
  <2>0. UNCHANGED <<slab, recv>> /\ Entries' = Entries
    BY <1>1 DEF slabVars, Entries
  <2>1. ASSUME NEW k \in DOMAIN cq'
        PROVE  /\ cq'[k].idx \in Entries' /\ slab'[cq'[k].idx] # 0 /\ recv'[cq'[k].idx] \in Engaged
               /\ cq'[k].res # "Data" => cq'[k].terminal
               /\ \A l \in DOMAIN (cq'[k].frames) : cq'[k].frames[l].from = slab'[cq'[k].idx]
               /\ cq'[k].terminal => \A o \in ops' : o.idx # cq'[k].idx
    <3>1. CASE k \in 1..Len(cq)
      <4>1. cq'[k] = cq[k] /\ k \in DOMAIN cq
        BY <1>12, <3>1
      <4>2. QED
        BY <1>7, <2>0, <4>1 DEF Owned, CqOwned
    <3>2. CASE k = Len(cq) + 1
      <4>1. cq'[k] = q
        BY <1>12, <3>2
      <4>2. slab[op.idx] # 0
        BY <1>5 DEF Owned, FreeVacant, Engaged
      <4>3. QED
        BY <1>5, <1>10, <1>11, <2>0, <4>1, <4>2
    <3>3. QED
      BY <1>12, <2>1, <3>1, <3>2
  <2>2. ASSUME NEW k \in DOMAIN cq', NEW l \in DOMAIN cq', k < l, cq'[k].terminal
        PROVE  cq'[l].idx # cq'[k].idx
    <3>1. k \in DOMAIN cq /\ cq'[k] = cq[k]
      BY <1>12, <2>2
    <3>2. CASE l \in 1..Len(cq)
      BY <1>12, <2>2, <3>1, <3>2 DEF Owned, CqOwned
    <3>3. CASE l = Len(cq) + 1
      BY <1>10, <1>12, <2>2, <3>1, <3>3 DEF Owned, CqOwned
    <3>4. QED
      BY <1>12, <3>2, <3>3
  <2>3. QED
    BY <2>1, <2>2 DEF CqOwned
<1>14. QED
  BY <1>6, <1>8, <1>9, <1>13 DEF Owned

LEMMA OwnedRegister ==
  ASSUME Numbered, Types, Owned, Register
  PROVE  Owned'
<1>1. SlabTypes /\ AcceptTypes /\ FreeVacant /\ OpsOwned /\ CqOwned /\ BusyOwned /\ BytesUnderOwner /\ WireOwned
  BY DEF Types, Owned
<1>2. busy = 0 /\ Head(regs) \in Conns
  BY <1>1, RegisterEffect
<1>3. PICK i \in Nat :
        /\ Becomes(i, Head(regs), "Armed", <<>>, 0)
        /\ \/ i \notin Entries /\ free' = free
           \/ i \in Entries /\ slab[i] = 0 /\ free # <<>> /\ free' = Front(free) /\ i = Last(free)
        /\ ops' = ops \cup {Op(i, Head(regs))}
  BY <1>1, RegisterEffect
<1>4. cq' = cq /\ wire' = wire /\ UNCHANGED <<busy, batch, staged>>
  BY DEF Register, clientVars, callVars
<1>5. Head(regs) # 0 /\ "Armed" \in Engaged
  BY <1>2 DEF Numbered, Engaged
<1>6. FreeVacant'
  BY <1>1, <1>3, <1>5, FreeRegistered
<1>7. BytesUnderOwner'
  BY <1>1, <1>3, BytesMoved
<1>8. \A op \in ops : op.idx # i
  BY <1>1, <1>3 DEF OpsOwned, FreeVacant, Engaged
<1>9. \A k \in DOMAIN cq : cq[k].idx # i
  BY <1>1, <1>3 DEF CqOwned
<1>10. Op(i, Head(regs)).idx = i /\ Op(i, Head(regs)).conn = Head(regs)
  BY DEF Op
<1>11. OpsOwned'
  <2>1. \A op \in ops' :
           \/ /\ \E o \in ops : o.idx = op.idx /\ o.conn = op.conn
              /\ op.idx = i => Head(regs) = slab[i] /\ "Armed" \in Engaged
           \/ op.idx = i /\ op.conn = Head(regs) /\ "Armed" \in Engaged
    BY <1>3, <1>5, <1>8, <1>10
  <2>2. \A op, o \in ops' : op.idx = o.idx => op = o
    BY <1>1, <1>3, <1>8, <1>10 DEF OpsOwned
  <2>3. QED
    BY <1>1, <1>3, <2>1, <2>2, OpsMoved
<1>12. CqOwned'
  <2>1. \A op \in ops' : \/ \E o \in ops : o.idx = op.idx
                         \/ op.idx = i /\ \A k \in DOMAIN cq' : cq'[k].idx # i
    BY <1>3, <1>4, <1>9, <1>10
  <2>2. \A k \in DOMAIN cq' : cq'[k].idx = i => Head(regs) = slab[i] /\ "Armed" \in Engaged
    BY <1>4, <1>9
  <2>3. QED
    BY <1>1, <1>3, <1>4, <2>1, <2>2, CqMoved
<1>13. BusyOwned'
  <2>1. 0 \notin Entries
    BY DEF Entries
  <2>2. QED
    BY <1>1, <1>2, <1>4, <2>1 DEF BusyOwned
<1>14. WireOwned'
  BY <1>1, <1>4, OwnedFrame
<1>15. QED
  BY <1>6, <1>7, <1>11, <1>12, <1>13, <1>14 DEF Owned

\* A teardown leaves every completion and receive with its entry.
LEMMA OwnedTeardown ==
  ASSUME Types, Owned, NEW i \in Entries, slab[i] # 0, recv[i] # "Dying", BeginTeardown(i), cq' = cq
  PROVE  FreeVacant' /\ OpsOwned' /\ CqOwned' /\ BytesUnderOwner' /\ Entries' = Entries
<1>1. SlabTypes /\ FreeVacant /\ OpsOwned /\ CqOwned /\ BytesUnderOwner
  BY DEF Types, Owned
<1>2. /\ Entries' = Entries
      /\ \/ /\ recv[i] \in {"Idle", "Parked"} /\ Becomes(i, 0, "Idle", <<>>, 0)
            /\ free' = Append(free, i) /\ free' \in Seq(Nat) /\ ops' = ops
         \/ /\ recv[i] \in {"Armed", "Resuming", "ParkedCancelling"}
            /\ Becomes(i, slab[i], "Dying", buf[i], shed[i])
            /\ free' = free /\ ops' \in {ops, Cancelled(i)}
  BY <1>1, TeardownEffect
<1>3. CASE /\ recv[i] \in {"Idle", "Parked"} /\ Becomes(i, 0, "Idle", <<>>, 0)
           /\ free' = Append(free, i) /\ ops' = ops
  <2>1. recv[i] \notin Engaged
    BY <1>3 DEF Engaged
  <2>2. (\A op \in ops : op.idx # i) /\ (\A k \in DOMAIN cq : cq[k].idx # i)
    BY <1>1, <2>1 DEF OpsOwned, CqOwned
  <2>3. FreeVacant'
    BY <1>1, <1>2, <1>3, FreeGrown
  <2>4. BytesUnderOwner'
    BY <1>1, <1>3, BytesMoved
  <2>5. OpsOwned'
    <3>1. \A op \in ops' :
            \/ /\ \E o \in ops : o.idx = op.idx /\ o.conn = op.conn
               /\ op.idx = i => 0 = slab[i] /\ "Idle" \in Engaged
            \/ op.idx = i /\ op.conn = 0 /\ "Idle" \in Engaged
      BY <1>3, <2>2
    <3>2. \A op, o \in ops' : op.idx = o.idx => op = o
      BY <1>1, <1>3 DEF OpsOwned
    <3>3. QED
      BY <1>1, <1>3, <3>1, <3>2, OpsMoved
  <2>6. CqOwned'
    <3>1. \A op \in ops' : \/ \E o \in ops : o.idx = op.idx
                           \/ op.idx = i /\ \A k \in DOMAIN cq' : cq'[k].idx # i
      BY <1>3
    <3>2. \A k \in DOMAIN cq' : cq'[k].idx = i => 0 = slab[i] /\ "Idle" \in Engaged
      BY <2>2
    <3>3. QED
      BY <1>1, <1>3, <3>1, <3>2, CqMoved
  <2>7. QED
    BY <1>2, <2>3, <2>4, <2>5, <2>6
<1>4. CASE /\ recv[i] \in {"Armed", "Resuming", "ParkedCancelling"}
           /\ Becomes(i, slab[i], "Dying", buf[i], shed[i])
           /\ free' = free /\ ops' \in {ops, Cancelled(i)}
  <2>1. "Dying" \in Engaged
    BY DEF Engaged
  <2>2. /\ \A op \in ops' : \E o \in ops : o.idx = op.idx /\ o.conn = op.conn
        /\ \A op, o \in ops' : op.idx = o.idx => op = o
    BY <1>1, <1>4, CancelledShadow
  <2>3. FreeVacant'
    BY <1>1, <1>2, <1>4, FreeKept
  <2>4. \A k \in DOMAIN buf[i] : buf[i][k].from = slab[i]
    BY <1>1 DEF BytesUnderOwner
  <2>5. BytesUnderOwner'
    BY <1>1, <1>4, <2>4, BytesMoved
  <2>6. OpsOwned'
    BY <1>1, <1>4, <2>1, <2>2, OpsMoved
  <2>7. CqOwned'
    BY <1>1, <1>4, <2>1, <2>2, CqMoved
  <2>8. QED
    BY <1>2, <2>3, <2>5, <2>6, <2>7
<1>5. QED
  BY <1>2, <1>3, <1>4

LEMMA OwnedTimeOut ==
  ASSUME Types, Owned, NEW i \in Entries, TimeOut(i)
  PROVE  Owned'
<1>1. TimeOutRest /\ slab[i] # 0 /\ recv[i] # "Dying" /\ BeginTeardown(i) /\ busy = 0
  BY DEF TimeOut, TimeOutRest
<1>2. cq' = cq /\ wire' = wire /\ UNCHANGED <<busy, batch, staged>>
  BY <1>1 DEF TimeOutRest, clientVars, callVars
<1>3. FreeVacant' /\ OpsOwned' /\ CqOwned' /\ BytesUnderOwner'
  BY <1>1, <1>2, OwnedTeardown
<1>4. BusyOwned'
  <2>1. 0 \notin Entries
    BY DEF Entries
  <2>2. QED
    BY <1>1, <1>2, <2>1 DEF Owned, BusyOwned
<1>5. WireOwned'
  BY <1>2, OwnedFrame DEF Owned
<1>6. QED
  BY <1>3, <1>4, <1>5 DEF Owned

LEMMA OwnedRetry ==
  ASSUME Types, Owned, NEW i \in Entries, NEW v, Retry(i, v)
  PROVE  Owned'
<1>1. /\ busy' = i /\ recv[i] \in {"Parked", "ParkedCancelling"} /\ slab[i] # 0
      /\ UNCHANGED <<sock, clientVars, active, acceptVars, control, slabVars, ops, cq, input, early,
                     half, output, stageVars, durable, tails, onRing, missed>>
  BY RetryEffect DEF Types, Owned
<1>2. UNCHANGED slabVars /\ ops' = ops /\ cq' = cq /\ wire' = wire
  BY <1>1 DEF clientVars
<1>3. FreeVacant' /\ OpsOwned' /\ CqOwned' /\ BytesUnderOwner' /\ WireOwned'
  BY <1>2, OwnedFrame DEF Owned
<1>4. BusyOwned'
  BY <1>1 DEF BusyOwned, slabVars, Entries
<1>5. QED
  BY <1>3, <1>4 DEF Owned

LEMMA OwnedEndCall ==
  ASSUME Types, Owned, EndCall
  PROVE  Owned'
<1>1. SlabTypes /\ FreeVacant /\ OpsOwned /\ CqOwned /\ BytesUnderOwner /\ BusyOwned
  BY DEF Types, Owned
<1>2. /\ busy # 0 /\ busy' = 0 /\ batch' = <<>> /\ staged' = <<>>
      /\ BeginTeardown(busy) \/ (CallLeaves(busy) /\ Entries' = Entries)
  BY <1>1, EndCallEffect
<1>3. busy \in Entries /\ slab[busy] # 0 /\ recv[busy] # "Dying" /\ slab[busy] \in Conns
  BY <1>1, <1>2, BusyFacts
<1>4. cq' = cq /\ wire' = wire
  BY DEF EndCall, clientVars
<1>5. BusyOwned' /\ WireOwned'
  BY <1>2, <1>4, OwnedFrame DEF Owned, BusyOwned
<1>6. CASE BeginTeardown(busy)
  BY <1>3, <1>4, <1>5, <1>6, OwnedTeardown DEF Owned
<1>7. CASE CallLeaves(busy) /\ Entries' = Entries
  <2> DEFINE i == busy
  <2>1. free' = free
    BY <1>7 DEF CallLeaves
  <2>2. PICK r : /\ Becomes(i, slab[i], r, buf[i], shed[i])
                 /\ \/ recv[i] \in {"Idle", "Parked"} /\ ops' = ops \cup {Op(i, slab[i])} /\ r \in Engaged
                    \/ recv[i] \in {"Idle", "Parked"} /\ ops' = ops
                    \/ recv[i] \in Engaged /\ ops' \in {ops, Cancelled(i)} /\ r \in Engaged
    <3>1. "Armed" \in Engaged
      BY DEF Engaged
    <3>2. QED
      BY <1>7, <3>1 DEF CallLeaves
  <2> HIDE DEF i
  <2>3. i \in Entries /\ slab[i] # 0
    BY <1>3 DEF i
  <2>4. FreeVacant'
    BY <1>1, <1>7, <2>1, <2>2, <2>3, FreeKept
  <2>5. \A k \in DOMAIN buf[i] : buf[i][k].from = slab[i]
    BY <1>1, <2>3 DEF BytesUnderOwner
  <2>6. BytesUnderOwner'
    BY <1>1, <2>2, <2>5, BytesMoved
  <2>7. recv[i] \in {"Idle", "Parked"} => (\A op \in ops : op.idx # i) /\ (\A k \in DOMAIN cq : cq[k].idx # i)
    <3>1. recv[i] \in {"Idle", "Parked"} => recv[i] \notin Engaged
      BY DEF Engaged
    <3>2. QED
      BY <1>1, <3>1 DEF OpsOwned, CqOwned
  <2>8. OpsOwned' /\ CqOwned'
    <3>1. CASE recv[i] \in {"Idle", "Parked"} /\ ops' = ops \cup {Op(i, slab[i])} /\ r \in Engaged
      <4>1. Op(i, slab[i]).idx = i /\ Op(i, slab[i]).conn = slab[i]
        BY DEF Op
      <4>2. \A op, o \in ops' : op.idx = o.idx => op = o
        BY <1>1, <2>7, <3>1, <4>1 DEF OpsOwned
      <4>3. OpsOwned'
        BY <1>1, <2>2, <3>1, <4>1, <4>2, OpsMoved
      <4>4. \A op \in ops' : \/ \E o \in ops : o.idx = op.idx
                             \/ op.idx = i /\ \A k \in DOMAIN cq' : cq'[k].idx # i
        BY <1>4, <2>7, <3>1, <4>1
      <4>5. CqOwned'
        BY <1>1, <1>4, <2>2, <3>1, <4>4, CqMoved
      <4>6. QED
        BY <4>3, <4>5
    <3>2. CASE recv[i] \in {"Idle", "Parked"} /\ ops' = ops
      <4>1. \A op \in ops' :
              \/ /\ \E o \in ops : o.idx = op.idx /\ o.conn = op.conn
                 /\ op.idx = i => slab[i] = slab[i] /\ r \in Engaged
              \/ op.idx = i /\ op.conn = slab[i] /\ r \in Engaged
        BY <2>7, <3>2
      <4>2. \A op, o \in ops' : op.idx = o.idx => op = o
        BY <1>1, <3>2 DEF OpsOwned
      <4>3. OpsOwned'
        BY <1>1, <2>2, <4>1, <4>2, OpsMoved
      <4>4. \A op \in ops' : \/ \E o \in ops : o.idx = op.idx
                             \/ op.idx = i /\ \A k \in DOMAIN cq' : cq'[k].idx # i
        BY <3>2
      <4>5. \A k \in DOMAIN cq' : cq'[k].idx = i => slab[i] = slab[i] /\ r \in Engaged
        BY <1>4, <2>7, <3>2
      <4>6. CqOwned'
        BY <1>1, <1>4, <2>2, <4>4, <4>5, CqMoved
      <4>7. QED
        BY <4>3, <4>6
    <3>3. CASE recv[i] \in Engaged /\ ops' \in {ops, Cancelled(i)} /\ r \in Engaged
      <4>1. /\ \A op \in ops' : \E o \in ops : o.idx = op.idx /\ o.conn = op.conn
            /\ \A op, o \in ops' : op.idx = o.idx => op = o
        BY <1>1, <3>3, CancelledShadow
      <4>2. OpsOwned'
        BY <1>1, <2>2, <3>3, <4>1, OpsMoved
      <4>3. CqOwned'
        BY <1>1, <1>4, <2>2, <3>3, <4>1, CqMoved
      <4>4. QED
        BY <4>2, <4>3
    <3>4. QED
      BY <2>2, <3>1, <3>2, <3>3
  <2>9. QED
    BY <1>5, <2>4, <2>6, <2>8 DEF Owned
<1>8. QED
  BY <1>2, <1>6, <1>7

\* A terminal completion is the last that names its entry.
LEMMA LastOfReceive ==
  ASSUME Types, Owned, cq # <<>>, cq' = Tail(cq), cq[1].terminal
  PROVE  (\A op \in ops : op.idx # cq[1].idx) /\ (\A k \in DOMAIN cq' : cq'[k].idx # cq[1].idx)
<1>0. cq \in Seq(Completion) /\ cq # <<>> /\ cq' = Tail(cq)
  BY DEF Types, SlabTypes
<1>1. /\ Len(cq) \in Nat /\ Len(cq) >= 1 /\ Len(cq') = Len(cq) - 1 /\ DOMAIN cq' = 1..Len(cq')
      /\ DOMAIN cq = 1..Len(cq) /\ \A k \in 1..Len(cq') : cq'[k] = cq[k + 1]
  <2>1. DOMAIN cq = 1..Len(cq)
    BY <1>0, SeqFacts
  <2>2. QED
    BY ONLY <1>0, <2>1, TailEffect
<1>2. 1 \in DOMAIN cq
  BY <1>1
<1>3. ASSUME NEW k \in DOMAIN cq' PROVE cq'[k].idx # cq[1].idx
  <2> DEFINE m == k + 1
  <2>1. m \in DOMAIN cq /\ 1 < m /\ cq'[k] = cq[m]
    BY <1>1, <1>3
  <2> HIDE DEF m
  <2>2. QED
    BY <1>2, <2>1 DEF Owned, CqOwned
<1>4. QED
  BY <1>2, <1>3 DEF Owned, CqOwned

LEMMA OwnedTakeCqe ==
  ASSUME Numbered, Types, Owned, NEW v, TakeCqe(v)
  PROVE  Owned'
<1>1. SlabTypes /\ FreeVacant /\ OpsOwned /\ CqOwned /\ BytesUnderOwner /\ BusyOwned
  BY DEF Types, Owned
<1>2. /\ busy = 0 /\ cq # <<>> /\ cq' = Tail(cq) /\ Entries' = Entries
      /\ \/ CqeKept(cq[1].idx, cq[1])
         \/ CqeArms(cq[1].idx, cq[1])
         \/ CqeVacates(cq[1].idx, cq[1])
  BY <1>1, TakeCqeEffect
<1> DEFINE q == cq[1]
           i == q.idx
<1>3. /\ 1 \in DOMAIN cq /\ i \in Entries /\ q.frames \in Seq(Request) /\ q.terminal \in BOOLEAN
      /\ slab[i] # 0 /\ recv[i] \in Engaged
  BY <1>1, <1>2, HeadCqe
<1>4. q.terminal => (\A op \in ops : op.idx # i) /\ (\A k \in DOMAIN cq' : cq'[k].idx # i)
  BY <1>2, LastOfReceive
<1>5. \A k \in DOMAIN q.frames : q.frames[k].from = slab[i]
  BY <1>1, <1>3 DEF CqOwned
<1>6. \A k \in DOMAIN buf[i] : buf[i][k].from = slab[i]
  BY <1>1, <1>3 DEF BytesUnderOwner
<1>7. wire' = wire
  BY DEF TakeCqe, clientVars
<1>8. batch = <<>> /\ staged = <<>>
  <2>1. 0 \notin Entries
    BY DEF Entries
  <2>2. QED
    BY <1>1, <1>2, <2>1 DEF BusyOwned
<1>9. recv[i] \in RecvStates /\ buf[i] \in Seq(Request)
  BY <1>1, <1>3, SlabFacts
<1>10. WireOwned'
  BY <1>7, OwnedFrame DEF Owned
<1>11. CqeKept(i, q) \/ CqeArms(i, q) \/ CqeVacates(i, q)
  BY <1>2
<1> HIDE DEF q, i
<1>12. CASE CqeKept(i, q)
  <2> DEFINE r == Afterwards(recv[i], q.terminal)
  <2>1. PICK b \in {buf[i], buf[i] \o q.frames} : Becomes(i, slab[i], r, b, shed[i])
    BY <1>12 DEF CqeKept
  <2>2. free' = free /\ ops' = ops /\ CallBegins(i)
    BY <1>12 DEF CqeKept
  <2>3. ~q.terminal => r \in Engaged
    BY <1>3 DEF Afterwards
  <2>4. recv[i] # "Dying" => r # "Dying"
    BY <1>9, AfterTerminal DEF Afterwards, RecvStates
  <2> HIDE DEF r
  <2>5. \A k \in DOMAIN b : b[k].from = slab[i]
    <3>1. CASE b = buf[i]
      BY <1>6, <3>1
    <3>2. CASE b = buf[i] \o q.frames
      <4>1. ASSUME NEW k \in DOMAIN b PROVE b[k].from = slab[i]
        <5>1. \/ k \in 1..Len(buf[i]) /\ b[k] = buf[i][k]
              \/ k - Len(buf[i]) \in 1..Len(q.frames) /\ b[k] = q.frames[k - Len(buf[i])]
          <6>1. buf[i] \in Seq(Request) /\ q.frames \in Seq(Request) /\ b = buf[i] \o q.frames /\ k \in DOMAIN b
            BY <1>3, <1>9, <3>2, <4>1
          <6> DEFINE x == buf[i]
                     y == q.frames
          <6>2. x \in Seq(Request) /\ y \in Seq(Request) /\ b = x \o y /\ k \in DOMAIN b
            BY <6>1
          <6> HIDE DEF x, y
          <6>3. \/ k \in 1..Len(x) /\ b[k] = x[k]
                \/ k - Len(x) \in 1..Len(y) /\ b[k] = y[k - Len(x)] /\ k > Len(x)
            BY ONLY <6>2, ConcatSplit, Zenon
          <6>4. QED
            BY <6>3 DEF x, y
        <5>2. DOMAIN buf[i] = 1..Len(buf[i]) /\ DOMAIN q.frames = 1..Len(q.frames)
          BY <1>3, <1>9, SeqFacts
        <5>3. QED
          BY <1>5, <1>6, <5>1, <5>2
      <4>2. QED
        BY <4>1
    <3>3. QED
      BY <3>1, <3>2
  <2>6. FreeVacant'
    BY <1>1, <1>2, <1>3, <2>1, <2>2, FreeKept
  <2>7. BytesUnderOwner'
    BY <1>1, <2>1, <2>5, BytesMoved
  <2>8. OpsOwned'
    <3>1. \A op \in ops' :
            \/ /\ \E o \in ops : o.idx = op.idx /\ o.conn = op.conn
               /\ op.idx = i => slab[i] = slab[i] /\ r \in Engaged
            \/ op.idx = i /\ op.conn = slab[i] /\ r \in Engaged
      BY <1>3, <1>4, <2>2, <2>3
    <3>2. \A op, o \in ops' : op.idx = o.idx => op = o
      BY <1>1, <2>2 DEF OpsOwned
    <3>3. QED
      BY <1>1, <2>1, <3>1, <3>2, OpsMoved
  <2>9. CqOwned'
    <3>1. \A k \in DOMAIN cq' : cq'[k].idx = i => slab[i] = slab[i] /\ r \in Engaged
      BY <1>3, <1>4, <2>3
    <3>2. \A op \in ops' : \/ \E o \in ops : o.idx = op.idx
                           \/ op.idx = i /\ \A k \in DOMAIN cq' : cq'[k].idx # i
      BY <2>2
    <3>3. QED
      BY <1>1, <1>2, <2>1, <3>1, <3>2, CqMoved
  <2>10. BusyOwned'
    <3>1. CASE busy' = 0 /\ batch' = batch /\ staged' = staged
      BY <1>8, <3>1 DEF BusyOwned
    <3>2. CASE busy' = i /\ recv[i] # "Dying"
      <4>1. i \in Entries' /\ slab'[i] = slab[i] /\ recv'[i] = r
        BY <1>2, <1>3, <2>1 DEF Becomes
      <4>2. QED
        BY <1>3, <2>4, <3>2, <4>1 DEF BusyOwned
    <3>3. QED
      BY <2>2, <3>1, <3>2 DEF CallBegins
  <2>11. QED
    BY <1>10, <2>6, <2>7, <2>8, <2>9, <2>10 DEF Owned
<1>13. CASE CqeArms(i, q)
  <2>1. /\ q.terminal /\ Becomes(i, slab[i], "Armed", buf[i], shed[i])
        /\ free' = free /\ ops' = ops \cup {Op(i, slab[i])}
        /\ busy' = 0 /\ batch' = batch /\ staged' = staged
    BY <1>13 DEF CqeArms
  <2>2. Op(i, slab[i]).idx = i /\ Op(i, slab[i]).conn = slab[i] /\ "Armed" \in Engaged
    BY DEF Op, Engaged
  <2>3. FreeVacant'
    BY <1>1, <1>2, <1>3, <2>1, FreeKept
  <2>4. BytesUnderOwner'
    BY <1>1, <1>6, <2>1, BytesMoved
  <2>5. \A op, o \in ops' : op.idx = o.idx => op = o
    BY <1>1, <1>4, <2>1, <2>2 DEF OpsOwned
  <2>6. OpsOwned'
    BY <1>1, <2>1, <2>2, <2>5, OpsMoved
  <2>7. \A op \in ops' : \/ \E o \in ops : o.idx = op.idx
                         \/ op.idx = i /\ \A k \in DOMAIN cq' : cq'[k].idx # i
    BY <1>4, <2>1, <2>2
  <2>8. CqOwned'
    BY <1>1, <1>2, <2>1, <2>2, <2>7, CqMoved
  <2>9. BusyOwned'
    BY <1>8, <2>1 DEF BusyOwned
  <2>10. QED
    BY <1>10, <2>3, <2>4, <2>6, <2>8, <2>9 DEF Owned
<1>14. CASE CqeVacates(i, q)
  <2>1. /\ q.terminal /\ Becomes(i, 0, "Idle", <<>>, 0)
        /\ free' = Append(free, i) /\ ops' = ops
        /\ busy' = 0 /\ batch' = batch /\ staged' = staged
    BY <1>14 DEF CqeVacates
  <2>2. FreeVacant'
    BY <1>1, <1>2, <1>3, <2>1, FreeGrown
  <2>3. BytesUnderOwner'
    BY <1>1, <2>1, BytesMoved
  <2>4. OpsOwned'
    <3>1. \A op \in ops' :
            \/ /\ \E o \in ops : o.idx = op.idx /\ o.conn = op.conn
               /\ op.idx = i => 0 = slab[i] /\ "Idle" \in Engaged
            \/ op.idx = i /\ op.conn = 0 /\ "Idle" \in Engaged
      BY <1>4, <2>1
    <3>2. \A op, o \in ops' : op.idx = o.idx => op = o
      BY <1>1, <2>1 DEF OpsOwned
    <3>3. QED
      BY <1>1, <2>1, <3>1, <3>2, OpsMoved
  <2>5. CqOwned'
    <3>1. \A k \in DOMAIN cq' : cq'[k].idx = i => 0 = slab[i] /\ "Idle" \in Engaged
      BY <1>4, <2>1
    <3>2. \A op \in ops' : \/ \E o \in ops : o.idx = op.idx
                           \/ op.idx = i /\ \A k \in DOMAIN cq' : cq'[k].idx # i
      BY <2>1
    <3>3. QED
      BY <1>1, <1>2, <2>1, <3>1, <3>2, CqMoved
  <2>6. BusyOwned'
    BY <1>8, <2>1 DEF BusyOwned
  <2>7. QED
    BY <1>10, <2>2, <2>3, <2>4, <2>5, <2>6 DEF Owned
<1>15. QED
  BY <1>11, <1>12, <1>13, <1>14

LEMMA OwnedProcessFrame ==
  ASSUME Types, Owned, ProcessFrame
  PROVE  Owned'
<1>1. SlabTypes /\ FreeVacant /\ OpsOwned /\ CqOwned /\ BytesUnderOwner /\ BusyOwned
  BY DEF Types, Owned
<1>2. /\ busy # 0 /\ buf[busy] # <<>> /\ Entries' = Entries
      /\ FrameAnswered(busy) \/ FrameParks(busy) \/ FrameTaken(busy)
  BY <1>1, ProcessFrameEffect
<1> DEFINE i == busy
<1>3. i \in Entries /\ slab[i] # 0 /\ recv[i] # "Dying" /\ buf[i] \in Seq(Request)
  BY <1>1, <1>2, BusyFacts
<1>4. UNCHANGED <<free, ops, cq, wire, busy>>
  BY DEF ProcessFrame, clientVars
<1>5. PICK b \in {buf[i], Tail(buf[i])} : \E s \in Nat : Becomes(i, slab[i], recv[i], b, s)
  BY <1>2 DEF FrameAnswered, FrameParks, FrameTaken
<1>6. PICK s \in Nat : Becomes(i, slab[i], recv[i], b, s)
  BY <1>5
<1>7. \A k \in DOMAIN buf[i] : buf[i][k].from = slab[i]
  BY <1>1, <1>3 DEF BytesUnderOwner
<1>8. \A k \in DOMAIN b : b[k].from = slab[i]
  <2>1. CASE b = buf[i]
    BY <1>7, <2>1
  <2>2. CASE b = Tail(buf[i])
    <3>1. /\ Len(buf[i]) \in Nat /\ Len(b) = Len(buf[i]) - 1 /\ DOMAIN b = 1..Len(b)
          /\ \A k \in 1..Len(b) : b[k] = buf[i][k + 1]
      BY <1>2, <1>3, <2>2, TailEffect
    <3>2. DOMAIN buf[i] = 1..Len(buf[i])
      BY <1>3, SeqFacts
    <3>3. \A k \in DOMAIN b : k + 1 \in DOMAIN buf[i] /\ b[k] = buf[i][k + 1]
      BY <3>1, <3>2
    <3>4. QED
      BY <1>7, <3>3
  <2>3. QED
    BY <1>5, <2>1, <2>2
<1>9. busy' = i /\ recv'[i] = recv[i] /\ slab'[i] = slab[i]
  BY <1>4, <1>6 DEF Becomes
<1> HIDE DEF i
<1>10. FreeVacant'
  BY <1>1, <1>2, <1>3, <1>4, <1>6, FreeKept
<1>11. BytesUnderOwner'
  BY <1>1, <1>6, <1>8, BytesMoved
<1>12. OpsOwned'
  <2>1. \A op \in ops' :
          \/ /\ \E o \in ops : o.idx = op.idx /\ o.conn = op.conn
             /\ op.idx = i => slab[i] = slab[i] /\ recv[i] \in Engaged
          \/ op.idx = i /\ op.conn = slab[i] /\ recv[i] \in Engaged
    BY <1>1, <1>4 DEF OpsOwned
  <2>2. \A op, o \in ops' : op.idx = o.idx => op = o
    BY <1>1, <1>4 DEF OpsOwned
  <2>3. QED
    BY <1>1, <1>6, <2>1, <2>2, OpsMoved
<1>13. CqOwned'
  <2>1. \A k \in DOMAIN cq' : cq'[k].idx = i => slab[i] = slab[i] /\ recv[i] \in Engaged
    BY <1>1, <1>4 DEF CqOwned
  <2>2. \A op \in ops' : \/ \E o \in ops : o.idx = op.idx
                         \/ op.idx = i /\ \A k \in DOMAIN cq' : cq'[k].idx # i
    BY <1>4
  <2>3. QED
    BY <1>1, <1>4, <1>6, <2>1, <2>2, CqMoved
<1>14. BusyOwned'
  BY <1>2, <1>3, <1>9 DEF BusyOwned
<1>15. WireOwned'
  BY <1>4, OwnedFrame DEF Owned
<1>16. QED
  BY <1>10, <1>11, <1>12, <1>13, <1>14, <1>15 DEF Owned

-----------------------------------------------------------------------------
(* The roll is kept *)

\* No connection is forgotten, and none opened again.
Onward ==
  \A c \in Conns : /\ sock[c] # "none" /\ accepting # c => sock'[c] # "none" /\ accepting' # c
                   /\ sock[c] = "shut" => sock'[c] = "shut"

LEMMA OnwardSame ==
  ASSUME UNCHANGED <<sock, accepting>>
  PROVE  Onward
BY DEF Onward

LEMMA OnwardShut ==
  ASSUME Types, NEW c \in Conns, sock' = [sock EXCEPT ![c] = "shut"], accepting' = accepting
  PROVE  Onward /\ sock'[c] = "shut" /\ \A b \in Conns : b # c => sock'[b] = sock[b]
<1>1. sock'[c] = "shut" /\ \A b \in Conns : b # c => sock'[b] = sock[b]
  BY DEF Types, ClientTypes
<1>2. QED
  BY <1>1 DEF Onward

LEMMA NamedAppended ==
  ASSUME AcceptTypes, NEW what \in {"Connected", "Disconnected"}, NEW c \in Conns,
         control' = Append(control, <<what, c>>)
  PROVE  /\ Named(what)' = Named(what) \cup {c}
         /\ \A w : w # what => Named(w)' = Named(w)
<1> DEFINE T == {"Connected", "Disconnected"} \X Conns
<1>1. control \in Seq(T) /\ <<what, c>> \in T /\ Len(control) \in Nat /\ DOMAIN control = 1..Len(control)
  BY SeqFacts DEF AcceptTypes
<1> HIDE DEF T
<1>2. /\ DOMAIN control' = 1..(Len(control) + 1) /\ control'[Len(control) + 1] = <<what, c>>
      /\ \A k \in 1..Len(control) : control'[k] = control[k]
  BY <1>1, AppendEffect
<1>3. \A k \in DOMAIN control' : k \in DOMAIN control \/ k = Len(control) + 1
  BY <1>1, <1>2
<1>4. Len(control) + 1 \in DOMAIN control' /\ \A k \in DOMAIN control : k \in DOMAIN control'
  BY <1>1, <1>2
<1>5. ASSUME NEW w, NEW b \in Conns
      PROVE  (\E k \in DOMAIN control' : control'[k] = <<w, b>>)
             <=> (\E k \in DOMAIN control : control[k] = <<w, b>>) \/ (w = what /\ b = c)
  <2>1. <<what, c>> = <<w, b>> <=> (w = what /\ b = c)
    OBVIOUS
  <2> DEFINE x == <<w, b>>
             z == <<what, c>>
  <2>2. control'[Len(control) + 1] = z
    BY <1>2
  <2> HIDE DEF x, z
  <2>3. (\E k \in DOMAIN control' : control'[k] = x) <=> (\E k \in DOMAIN control : control[k] = x) \/ z = x
    BY <1>1, <1>2, <1>3, <1>4, <2>2
  <2>4. QED
    BY <2>1, <2>3 DEF x, z
<1>6. QED
  BY <1>5 DEF Named

LEMMA NamedNone ==
  ASSUME control' = <<>>
  PROVE  \A w : Named(w)' = {}
BY DEF Named

LEMMA NamedSame ==
  ASSUME control' = control
  PROVE  \A w : Named(w)' = Named(w)
BY DEF Named

\* Whom a queue names.
Names(s) == {s[k].conn : k \in DOMAIN s}

LEMMA NamesFacts ==
  ASSUME NEW S, NEW s \in Seq(S), NEW t
  PROVE  /\ \A e \in S : t = Append(s, e) => Names(t) \subseteq Names(s) \cup {e.conn}
         /\ s # <<>> /\ t = Tail(s) => Names(t) \subseteq Names(s)
         /\ \A u \in Seq(S) : t = s \o u => Names(t) \subseteq Names(s) \cup Names(u)

<1>0. Len(s) \in Nat /\ DOMAIN s = 1..Len(s)
  BY SeqFacts
<1>1. ASSUME NEW e \in S, t = Append(s, e) PROVE Names(t) \subseteq Names(s) \cup {e.conn}
  <2>1. DOMAIN t = 1..(Len(s) + 1) /\ t[Len(s) + 1] = e /\ \A k \in 1..Len(s) : t[k] = s[k]
    BY <1>1, AppendEffect
  <2>2. \A k \in DOMAIN t : k \in DOMAIN s \/ k = Len(s) + 1
    BY <1>0, <2>1
  <2>3. QED
    BY <1>0, <2>1, <2>2 DEF Names
<1>2. ASSUME s # <<>>, t = Tail(s) PROVE Names(t) \subseteq Names(s)
  <2>1. Len(t) = Len(s) - 1 /\ DOMAIN t = 1..Len(t) /\ \A k \in 1..Len(t) : t[k] = s[k + 1]
    BY <1>2, TailEffect
  <2>2. \A k \in DOMAIN t : k + 1 \in DOMAIN s /\ t[k] = s[k + 1]
    BY <1>0, <2>1
  <2>3. QED
    BY <2>2 DEF Names
<1>3. ASSUME NEW u \in Seq(S), t = s \o u PROVE Names(t) \subseteq Names(s) \cup Names(u)
  <2>1. ASSUME NEW k \in DOMAIN t PROVE t[k].conn \in Names(s) \cup Names(u)
    <3>1. \/ k \in 1..Len(s) /\ t[k] = s[k]
          \/ k - Len(s) \in 1..Len(u) /\ t[k] = u[k - Len(s)]
      BY <1>3, <2>1, ConcatSplit, Zenon
    <3>2. DOMAIN u = 1..Len(u)
      BY SeqFacts
    <3>3. QED
      BY <1>0, <3>1, <3>2 DEF Names
  <2>2. QED
    BY <2>1 DEF Names
<1>4. QED
  BY <1>1, <1>2, <1>3

Mentioned == Names(batch) \cup Names(input) \cup Names(output) \cup Names(staged) \cup Names(early)

LEMMA MentionedKnown ==
  QueuesKnown <=> \A c \in Mentioned : Known(c)
BY DEF QueuesKnown, Mentioned, Names

LEMMA MentionedTyped ==
  ASSUME QueueTypes
  PROVE  Mentioned \subseteq Conns
<1>1. Names(batch) \subseteq Conns
  <2>1. \A k \in DOMAIN batch : batch[k] \in Ask
    BY SeqFacts DEF QueueTypes
  <2>2. QED
    BY <2>1 DEF Names, Ask
<1>2. Names(input) \subseteq Conns
  <2>1. \A k \in DOMAIN input : input[k] \in Ask
    BY SeqFacts DEF QueueTypes
  <2>2. QED
    BY <2>1 DEF Names, Ask
<1>3. Names(output) \subseteq Conns
  <2>1. \A k \in DOMAIN output : output[k] \in Slot
    BY SeqFacts DEF QueueTypes
  <2>2. QED
    BY <2>1 DEF Names, Slot
<1>4. Names(staged) \subseteq Conns
  <2>1. \A k \in DOMAIN staged : staged[k] \in Reply
    BY SeqFacts DEF QueueTypes
  <2>2. QED
    BY <2>1 DEF Names, Reply
<1>5. Names(early) \subseteq Conns
  <2>1. \A k \in DOMAIN early : early[k] \in Reply
    BY SeqFacts DEF QueueTypes
  <2>2. QED
    BY <2>1 DEF Names, Reply
<1>6. QED
  BY <1>1, <1>2, <1>3, <1>4, <1>5 DEF Mentioned

\* Queues that name no one new, or one who is known, name whom is known.
LEMMA QueuesMoved ==
  ASSUME QueueTypes, QueuesKnown, Onward, NEW c \in Conns, Known(c), Mentioned' \subseteq Mentioned \cup {c}
  PROVE  QueuesKnown'
<1>1. \A b \in Mentioned : b \in Conns /\ Known(b)
  BY MentionedKnown, MentionedTyped
<1>2. \A b \in Mentioned' : Known(b)'
  BY <1>1 DEF Onward, Known
<1>3. QED
  BY <1>2 DEF QueuesKnown, Mentioned, Names

LEMMA QueuesStay ==
  ASSUME QueueTypes, QueuesKnown, Onward, Mentioned' \subseteq Mentioned
  PROVE  QueuesKnown'
<1>1. \A b \in Mentioned : b \in Conns /\ Known(b)
  BY MentionedKnown, MentionedTyped
<1>2. \A b \in Mentioned' : Known(b)'
  BY <1>1 DEF Onward, Known
<1>3. QED
  BY <1>2 DEF QueuesKnown, Mentioned, Names

\* No entry passes from one connection to another.
Tenants == \A j \in Entries : slab[j] # 0 => slab'[j] \in {slab[j], 0}

LEMMA ReaderStays ==
  ASSUME SlabTypes, AcceptTypes, ReaderKnown, Onward, Entries' \subseteq Entries,
         \A j \in Entries : slab'[j] \in {slab[j], 0}, regs' = regs
  PROVE  ReaderKnown'
<1>1. \A i \in Entries : slab[i] \in Conns \cup {0}
  BY SlabFacts
<1>2. \A k \in DOMAIN regs : regs[k] \in Conns
  BY SeqFacts DEF AcceptTypes
<1>3. \A i \in Entries' : slab'[i] # 0 => sock'[slab'[i]] # "none" /\ accepting' # slab'[i]
  BY <1>1 DEF Onward, ReaderKnown, Known
<1>4. \A k \in DOMAIN regs' : sock'[regs'[k]] # "none" /\ accepting' # regs'[k]
  BY <1>2 DEF Onward, ReaderKnown, Known
<1>5. QED
  BY <1>3, <1>4 DEF ReaderKnown, Known

\* The completions that are left are of the connections they were of.
LEMMA ClosedStays ==
  ASSUME SlabTypes, CqOwned, CqOwned', EndsShut, Onward, Tenants,
         cq' = cq \/ (cq # <<>> /\ cq' = Tail(cq))
  PROVE  \A k \in DOMAIN cq' : cq'[k].res = "Closed" => sock'[slab'[cq'[k].idx]] = "shut"
<1>1. PICK d \in {0, 1} : \A k \in DOMAIN cq' : k \in Nat /\ k + d \in DOMAIN cq /\ cq'[k] = cq[k + d]
  BY CqShift
<1>2. ASSUME NEW k \in DOMAIN cq', cq'[k].res = "Closed" PROVE sock'[slab'[cq'[k].idx]] = "shut"
  <2> DEFINE m == k + d
             q == cq'[k]
  <2>1. m \in DOMAIN cq /\ q = cq[m]
    BY <1>1, <1>2
  <2>2. slab'[q.idx] # 0
    BY <1>2 DEF CqOwned
  <2>3. q.res = "Closed"
    BY <1>2
  <2> HIDE DEF m, q
  <2>4. q.idx \in Entries /\ slab[q.idx] # 0 /\ sock[slab[q.idx]] = "shut"
    BY <2>1, <2>3 DEF CqOwned, EndsShut
  <2>5. slab[q.idx] \in Conns
    BY <2>4, SlabFacts
  <2>6. sock'[slab'[q.idx]] = "shut"
    BY <2>2, <2>4, <2>5 DEF Tenants, Onward
  <2>7. QED
    BY <2>6 DEF q
<1>3. QED
  BY <1>2

\* Whom the response stage holds or is to be told of.
Held == table \cup Named("Connected")

\* Those a permit is out for.
Admitted == {c \in Conns : HoldsPermit(c)}

LEMMA HeldTyped ==
  ASSUME Types
  PROVE  Held \subseteq Conns /\ Admitted \subseteq Conns /\ table \subseteq Conns
BY DEF Held, Admitted, Named, Types, StageTypes

LEMMA AdmittedFinite ==
  ASSUME Numbered
  PROVE  IsFiniteSet(Admitted)
BY FS_Subset DEF Numbered, Admitted

\* The reader's side of the roll, when no entry changes hands and the queues stay.
LEMMA ReaderSideStays ==
  ASSUME Types, Owned, Owned', Roll, Onward, UNCHANGED <<slab, regs, cq>>,
         UNCHANGED <<batch, input, output, staged, early>>
  PROVE  /\ ReaderKnown' /\ QueuesKnown'
         /\ \A k \in DOMAIN cq' : cq'[k].res = "Closed" => sock'[slab'[cq'[k].idx]] = "shut"
<1>1. SlabTypes /\ AcceptTypes /\ QueueTypes /\ CqOwned /\ CqOwned' /\ ReaderKnown /\ QueuesKnown /\ EndsShut
  BY DEF Types, Owned, Roll
<1>2. Entries' = Entries
  BY DEF Entries
<1>3. ReaderKnown'
  BY <1>1, <1>2, ReaderStays
<1>4. Mentioned' = Mentioned
  BY DEF Mentioned, Names
<1>5. QueuesKnown'
  BY <1>1, <1>4, QueuesStay
<1>6. Tenants
  BY DEF Tenants
<1>7. QED
  BY <1>1, <1>3, <1>5, <1>6, ClosedStays

\* Ends stay shut, those told of and one more.
LEMMA EndsStay ==
  ASSUME Types, EndsShut, Onward,
         \A b \in Named("Disconnected")' : b \in Named("Disconnected") \/ (Known(b) /\ sock'[b] = "shut")
  PROVE  \A b \in Named("Disconnected")' : Known(b)' /\ sock'[b] = "shut"
<1>1. ASSUME NEW b \in Named("Disconnected")' PROVE b \in Conns /\ Known(b) /\ sock'[b] = "shut"
  <2>1. b \in Conns
    BY <1>1 DEF Named
  <2>2. QED
    BY <1>1, <2>1 DEF EndsShut, Onward
<1>2. QED
  BY <1>1 DEF Onward, Known

LEMMA RollInit ==
  ASSUME Numbered, PathInit
  PROVE  Roll
<1>1. /\ Entries = {} /\ DOMAIN regs = {} /\ DOMAIN batch = {} /\ DOMAIN input = {} /\ DOMAIN output = {}
      /\ DOMAIN staged = {} /\ DOMAIN early = {} /\ DOMAIN cq = {} /\ DOMAIN control = {}
  BY DEF PathInit, Entries
<1>2. \A w : Named(w) = {}
  BY <1>1 DEF Named
<1>3. table = {} /\ accepting = 0 /\ announced = FALSE /\ active = 0
  BY DEF PathInit
<1>4. \A c \in Conns : sock[c] = "none" /\ sendbuf[c] = <<>>
  BY DEF PathInit
<1>5. RollKept
  BY <1>2, <1>3, <1>4 DEF RollKept, Known
<1>6. PermitsCounted
  <2>1. {c \in Conns : HoldsPermit(c)} = {}
    BY <1>2, <1>3 DEF HoldsPermit, Numbered
  <2>2. QED
    BY <1>3, <2>1, FS_EmptySet DEF PermitsCounted
<1>7. QED
  BY <1>1, <1>2, <1>5, <1>6 DEF Roll, ReaderKnown, QueuesKnown, EndsShut

LEMMA RollSame ==
  ASSUME Types, Owned, Owned', Roll,
         UNCHANGED <<sock, accepting, announced, control, regs, slab, cq, active, table, sendbuf>>,
         UNCHANGED <<batch, input, output, staged, early>>
  PROVE  Roll'
<1>1. Onward
  BY OnwardSame
<1>2. /\ ReaderKnown' /\ QueuesKnown'
      /\ \A k \in DOMAIN cq' : cq'[k].res = "Closed" => sock'[slab'[cq'[k].idx]] = "shut"
  BY <1>1, ReaderSideStays
<1>3. \A w : Named(w)' = Named(w)
  BY NamedSame
<1>4. EndsShut'
  BY <1>1, <1>2, <1>3, EndsStay DEF EndsShut, Roll
<1>5. RollKept'
  BY <1>3 DEF Roll, RollKept, Known
<1>6. PermitsCounted'
  BY <1>3 DEF Roll, PermitsCounted, HoldsPermit
<1>7. QED
  BY <1>2, <1>4, <1>5, <1>6 DEF Roll

LEMMA RollAdmit ==
  ASSUME Numbered, Types, Owned, Owned', Roll, NEW c \in Conns, Accept(c)
  PROVE  Roll'
<1>1. /\ UNCHANGED <<control, regs, slab, cq, table, sendbuf>> /\ UNCHANGED <<batch, input, output, staged, early>>
      /\ accepting = 0 /\ accepting' = c /\ announced' = FALSE /\ active' = active + 1 /\ sock[c] = "none"
  BY DEF Accept, slabVars, stageVars, callVars
<1>2. sock'[c] = "open" /\ \A b \in Conns : b # c => sock'[b] = sock[b]
  BY DEF Accept, Types, ClientTypes
<1>3. 0 \notin Conns
  BY DEF Numbered
<1>4. Onward
  BY <1>1, <1>2 DEF Onward
<1>5. /\ ReaderKnown' /\ QueuesKnown'
      /\ \A k \in DOMAIN cq' : cq'[k].res = "Closed" => sock'[slab'[cq'[k].idx]] = "shut"
  BY <1>1, <1>4, ReaderSideStays
<1>6. \A w : Named(w)' = Named(w)
  BY <1>1, NamedSame
<1>7. EndsShut'
  BY <1>4, <1>5, <1>6, EndsStay DEF EndsShut, Roll
<1>8. c \notin Held
  BY <1>1 DEF Roll, RollKept, Held
<1>9. RollKept'
  <2>1. \A b \in table' \cup Named("Connected")' : sock'[b] # "none"
    <3>1. ASSUME NEW b \in table \cup Named("Connected") PROVE sock'[b] # "none"
      BY <1>2, <3>1, HeldTyped DEF Held, Roll, RollKept
    <3>2. QED
      BY <1>1, <1>6, <3>1
  <2>2. \A b \in Conns : Known(b)' /\ b \notin table' \cup Named("Connected")' => sock'[b] = "shut"
    BY <1>1, <1>2, <1>3, <1>6 DEF Roll, RollKept, Known
  <2>3. \A b \in Conns : sendbuf'[b] # <<>> => b \in table' /\ Known(b)'
    BY <1>1, <1>2, <1>8 DEF Roll, RollKept, Known, Held
  <2>4. table' \cap Named("Connected")' = {}
    BY <1>1, <1>6 DEF Roll, RollKept
  <2>5. accepting' \notin table' \cup Named("Connected")' /\ sock'[accepting'] # "none" /\ accepting' # 0 /\ ~announced'
    BY <1>1, <1>2, <1>3, <1>6, <1>8 DEF Held
  <2>6. QED
    BY <2>1, <2>2, <2>3, <2>4, <2>5 DEF RollKept
<1>10. PermitsCounted'
  <2>1. Admitted' = Admitted \cup {c}
    BY <1>1, <1>3, <1>6 DEF Admitted, HoldsPermit
  <2>2. c \notin Admitted
    BY <1>1, <1>3, <1>8 DEF Admitted, HoldsPermit, Held
  <2>3. active = Cardinality(Admitted)
    BY DEF Roll, PermitsCounted, Admitted
  <2>4. active' = Cardinality(Admitted')
    BY <1>1, <2>1, <2>2, <2>3, AdmittedFinite, FS_AddElement
  <2>5. QED
    BY <2>4 DEF PermitsCounted, Admitted
<1>11. QED
  BY <1>5, <1>7, <1>9, <1>10 DEF Roll

\* A connection ends: its socket is shut, and nothing else of the roll changes.
LEMMA RollShut ==
  ASSUME Types, Roll, NEW c \in Conns, sock[c] # "none", sock' = [sock EXCEPT ![c] = "shut"],
         UNCHANGED <<accepting, announced, active, table, sendbuf>>,
         Named("Connected")' = Named("Connected")
  PROVE  RollKept' /\ PermitsCounted'
<1>1. sock'[c] = "shut" /\ \A b \in Conns : b # c => sock'[b] = sock[b]
  BY DEF Types, ClientTypes
<1>2. RollKept'
  <2>0. \A b \in Conns : (sock'[b] # "none" <=> sock[b] # "none") /\ (sock[b] = "shut" => sock'[b] = "shut")
    BY <1>1
  <2>1. \A b \in table' \cup Named("Connected")' : sock'[b] # "none"
    <3>1. ASSUME NEW b \in table \cup Named("Connected") PROVE sock'[b] # "none"
      BY <2>0, <3>1, HeldTyped DEF Held, Roll, RollKept
    <3>2. QED
      BY <3>1
  <2>2. \A b \in Conns : Known(b)' /\ b \notin table' \cup Named("Connected")' => sock'[b] = "shut"
    BY <2>0 DEF Roll, RollKept, Known
  <2>3. \A b \in Conns : sendbuf'[b] # <<>> => b \in table' /\ Known(b)'
    BY <2>0 DEF Roll, RollKept, Known
  <2>4. accepting' # 0 => sock'[accepting'] # "none"
    <3>1. accepting \in Conns \cup {0}
      BY DEF Types, AcceptTypes
    <3>2. QED
      BY <2>0, <3>1 DEF Roll, RollKept
  <2>5. QED
    BY <2>1, <2>2, <2>3, <2>4 DEF Roll, RollKept
<1>3. PermitsCounted'
  BY DEF Roll, PermitsCounted, HoldsPermit
<1>4. QED
  BY <1>2, <1>3

LEMMA RollClose ==
  ASSUME Types, Owned, Owned', Roll, NEW c \in Conns, Close(c)
  PROVE  Roll'
<1>1. /\ UNCHANGED <<control, regs, slab, cq, active, accepting, announced, table, sendbuf>>
      /\ UNCHANGED <<batch, input, output, staged, early>>
      /\ sock' = [sock EXCEPT ![c] = "shut"] /\ sock[c] # "none"
  BY DEF Close, slabVars, stageVars, callVars, acceptVars
<1>2. Onward
  BY <1>1, OnwardShut
<1>3. /\ ReaderKnown' /\ QueuesKnown'
      /\ \A k \in DOMAIN cq' : cq'[k].res = "Closed" => sock'[slab'[cq'[k].idx]] = "shut"
  BY <1>1, <1>2, ReaderSideStays
<1>4. \A w : Named(w)' = Named(w)
  BY <1>1, NamedSame
<1>5. EndsShut'
  BY <1>2, <1>3, <1>4, EndsStay DEF EndsShut, Roll
<1>6. RollKept' /\ PermitsCounted'
  BY <1>1, <1>4, RollShut
<1>7. QED
  BY <1>3, <1>5, <1>6 DEF Roll

LEMMA RollAnnounce ==
  ASSUME Numbered, Types, Owned, Owned', Roll, Announce
  PROVE  Roll'
<1>1. /\ UNCHANGED <<sock, slab, cq, active, table, sendbuf>> /\ UNCHANGED <<batch, input, output, staged, early>>
  BY DEF Announce, slabVars, stageVars, callVars
<1>2. SlabTypes /\ AcceptTypes /\ QueueTypes /\ CqOwned /\ CqOwned' /\ ReaderKnown /\ QueuesKnown /\ EndsShut /\ RollKept
  BY DEF Types, Owned, Roll
<1>3. accepting # 0 /\ accepting \in Conns /\ 0 \notin Conns /\ announced' = ~announced
  BY <1>2, AnnounceEffect DEF AcceptTypes, Numbered
<1>4. CASE /\ ~announced /\ accepting' = accepting /\ regs' = regs
           /\ control' = Append(control, <<"Connected", accepting>>)
  <2>1. Onward
    BY <1>1, <1>4, OnwardSame
  <2>2. /\ ReaderKnown' /\ QueuesKnown'
        /\ \A k \in DOMAIN cq' : cq'[k].res = "Closed" => sock'[slab'[cq'[k].idx]] = "shut"
    BY <1>1, <1>4, <2>1, ReaderSideStays
  <2>3. /\ Named("Connected")' = Named("Connected") \cup {accepting}
        /\ Named("Disconnected")' = Named("Disconnected")
    BY <1>2, <1>3, <1>4, NamedAppended
  <2>4. EndsShut'
    BY <1>2, <2>1, <2>2, <2>3, EndsStay DEF EndsShut
  <2>5. accepting \notin table \cup Named("Connected")
    BY <1>2, <1>3, <1>4 DEF RollKept
  <2>6. RollKept'
    <3>1. \A b \in table' \cup Named("Connected")' : sock'[b] # "none"
      BY <1>1, <1>2, <1>3, <2>3 DEF RollKept
    <3>2. \A b \in Conns : Known(b)' /\ b \notin table' \cup Named("Connected")' => sock'[b] = "shut"
      BY <1>1, <1>2, <1>4, <2>3 DEF RollKept, Known
    <3>3. \A b \in Conns : sendbuf'[b] # <<>> => b \in table' /\ Known(b)'
      BY <1>1, <1>2, <1>4 DEF RollKept, Known
    <3>4. table' \cap Named("Connected")' = {}
      BY <1>1, <1>2, <2>3, <2>5 DEF RollKept
    <3>5. accepting' \in table' \cup Named("Connected")' /\ sock'[accepting'] # "none" /\ accepting' # 0 /\ announced'
      BY <1>1, <1>2, <1>3, <1>4, <2>3 DEF RollKept
    <3>6. QED
      BY <3>1, <3>2, <3>3, <3>4, <3>5 DEF RollKept
  <2>7. PermitsCounted'
    <3>1. Admitted' = Admitted
      BY <1>1, <1>4, <2>3 DEF Admitted, HoldsPermit
    <3>2. QED
      BY <1>1, <3>1 DEF Roll, PermitsCounted, Admitted
  <2>8. QED
    BY <2>2, <2>4, <2>6, <2>7 DEF Roll
<1>5. CASE /\ announced /\ accepting' = 0 /\ control' = control
           /\ regs' = Append(regs, accepting)
  <2>1. Onward
    BY <1>1, <1>3, <1>5 DEF Onward
  <2>2. \A w : Named(w)' = Named(w)
    BY <1>5, NamedSame
  <2>3. sock[accepting] # "none" /\ accepting \in table \cup Named("Connected")
    BY <1>2, <1>3, <1>5 DEF RollKept
  <2>4. ReaderKnown'
    <3>1. /\ DOMAIN regs' = 1..(Len(regs) + 1) /\ regs'[Len(regs) + 1] = accepting
          /\ \A k \in 1..Len(regs) : regs'[k] = regs[k]
      <4>1. regs \in Seq(Conns) /\ accepting \in Conns /\ regs' = Append(regs, accepting) /\ Len(regs) \in Nat
        BY <1>2, <1>3, <1>5, SeqFacts DEF AcceptTypes
      <4>2. QED
        BY ONLY <4>1, AppendEffect
    <3>2. Len(regs) \in Nat /\ DOMAIN regs = 1..Len(regs) /\ \A k \in DOMAIN regs : regs[k] \in Conns
      BY <1>2, SeqFacts DEF AcceptTypes
    <3>3. \A k \in DOMAIN regs' : sock'[regs'[k]] # "none" /\ accepting' # regs'[k]
      <4>1. ASSUME NEW k \in DOMAIN regs' PROVE sock'[regs'[k]] # "none" /\ accepting' # regs'[k]
        <5>1. k \in DOMAIN regs \/ k = Len(regs) + 1
          BY <3>1, <3>2
        <5>2. QED
          BY <1>1, <1>2, <1>3, <1>5, <2>3, <3>1, <3>2, <5>1 DEF ReaderKnown, Known
      <4>2. QED
        BY <4>1
    <3>4. \A i \in Entries' : slab'[i] # 0 => sock'[slab'[i]] # "none" /\ accepting' # slab'[i]
      BY <1>1, <1>2, <1>5 DEF ReaderKnown, Known, Entries
    <3>5. QED
      BY <3>3, <3>4 DEF ReaderKnown, Known
  <2>5. QueuesKnown'
    <3>1. Mentioned' = Mentioned
      BY <1>1 DEF Mentioned, Names
    <3>2. QED
      BY <1>2, <2>1, <3>1, QueuesStay
  <2>6. EndsShut'
    <3>1. Tenants
      BY <1>1 DEF Tenants
    <3>2. \A k \in DOMAIN cq' : cq'[k].res = "Closed" => sock'[slab'[cq'[k].idx]] = "shut"
      BY <1>1, <1>2, <2>1, <3>1, ClosedStays
    <3>3. QED
      BY <1>2, <2>1, <2>2, <3>2, EndsStay DEF EndsShut
  <2>7. RollKept'
    <3>1. \A b \in table' \cup Named("Connected")' : sock'[b] # "none"
      BY <1>1, <1>2, <2>2 DEF RollKept
    <3>2. \A b \in Conns : Known(b)' /\ b \notin table' \cup Named("Connected")' => sock'[b] = "shut"
      BY <1>1, <1>2, <1>5, <2>2, <2>3 DEF RollKept, Known
    <3>3. \A b \in Conns : sendbuf'[b] # <<>> => b \in table' /\ Known(b)'
      BY <1>1, <1>2, <1>3, <1>5 DEF RollKept, Known
    <3>4. table' \cap Named("Connected")' = {}
      BY <1>1, <1>2, <2>2 DEF RollKept
    <3>5. accepting' = 0 /\ ~announced'
      BY <1>3, <1>5
    <3>6. QED
      BY <3>1, <3>2, <3>3, <3>4, <3>5 DEF RollKept
  <2>8. PermitsCounted'
    <3>1. Admitted' = Admitted
      BY <1>1, <1>3, <1>5, <2>2, <2>3 DEF Admitted, HoldsPermit
    <3>2. QED
      BY <1>1, <3>1 DEF Roll, PermitsCounted, Admitted
  <2>9. QED
    BY <2>4, <2>5, <2>6, <2>7, <2>8 DEF Roll
<1>6. QED
  BY <1>4, <1>5, AnnounceEffect

LEMMA RollKernel ==
  ASSUME Types, Owned, Owned', Roll, Kernel
  PROVE  Roll'
<1>1. /\ UNCHANGED <<sock, slab, active, table, sendbuf, accepting, announced, control, regs>>
      /\ UNCHANGED <<batch, input, output, staged, early>>
  BY KernelEffect DEF Types, KernelRest, slabVars, stageVars, callVars, acceptVars
<1>2. PICK op \in ops : \E n \in 0..Len(wire[op.conn]) : \E q \in Completion : Posts(op, n, q)
  BY KernelEffect DEF Types
<1>3. PICK n \in 0..Len(wire[op.conn]) : \E q \in Completion : Posts(op, n, q)
  BY <1>2
<1>4. PICK q \in Completion : Posts(op, n, q)
  BY <1>3
<1>5. SlabTypes /\ AcceptTypes /\ QueueTypes /\ ReaderKnown /\ QueuesKnown /\ EndsShut /\ RollKept
  BY DEF Types, Owned, Roll
<1>6. Onward
  BY <1>1, OnwardSame
<1>7. \A w : Named(w)' = Named(w)
  BY <1>1, NamedSame
<1>8. ReaderKnown' /\ QueuesKnown'
  BY <1>1, <1>5 DEF ReaderKnown, QueuesKnown, Known, Entries
<1>9. q.idx = op.idx /\ slab[op.idx] = op.conn /\ (q.res = "Closed" => sock[op.conn] = "shut") /\ cq' = Append(cq, q)
  BY <1>4 DEF Posts, Owned, OpsOwned
<1>10. \A k \in DOMAIN cq' : cq'[k].res = "Closed" => sock'[slab'[cq'[k].idx]] = "shut"
  <2>1. /\ cq \in Seq(Completion) /\ Len(cq) \in Nat /\ DOMAIN cq = 1..Len(cq)
        /\ DOMAIN cq' = 1..(Len(cq) + 1) /\ cq'[Len(cq) + 1] = q
        /\ \A k \in 1..Len(cq) : cq'[k] = cq[k]
    BY <1>5, <1>9, AppendEffect, SeqFacts DEF SlabTypes
  <2>2. ASSUME NEW k \in DOMAIN cq', cq'[k].res = "Closed" PROVE sock'[slab'[cq'[k].idx]] = "shut"
    <3>1. k \in DOMAIN cq \/ k = Len(cq) + 1
      BY <2>1
    <3>2. QED
      BY <1>1, <1>5, <1>9, <2>1, <2>2, <3>1 DEF EndsShut
  <2>3. QED
    BY <2>2
<1>11. EndsShut'
  BY <1>5, <1>6, <1>7, <1>10, EndsStay DEF EndsShut
<1>12. RollKept'
  BY <1>1, <1>5, <1>7 DEF RollKept, Known
<1>13. PermitsCounted'
  BY <1>1, <1>7 DEF Roll, PermitsCounted, HoldsPermit
<1>14. QED
  BY <1>8, <1>11, <1>12, <1>13 DEF Roll

LEMMA RollRegister ==
  ASSUME Types, Owned, Owned', Roll, Register
  PROVE  Roll'
<1>1. /\ UNCHANGED <<sock, active, table, sendbuf, accepting, announced, control, cq>>
      /\ UNCHANGED <<batch, input, output, staged, early>>
  BY DEF Register, stageVars, callVars
<1>2. SlabTypes /\ AcceptTypes /\ QueueTypes /\ CqOwned /\ CqOwned' /\ ReaderKnown /\ QueuesKnown /\ EndsShut /\ RollKept
  BY DEF Types, Owned, Roll
<1>3. regs # <<>> /\ regs' = Tail(regs) /\ Head(regs) \in Conns
  BY <1>2, RegisterEffect DEF Owned
<1>4. PICK i \in Nat : /\ Becomes(i, Head(regs), "Armed", <<>>, 0)
                       /\ i \notin Entries \/ slab[i] = 0
  BY <1>2, RegisterEffect DEF Owned
<1>5. Onward
  BY <1>1, OnwardSame
<1>6. \A w : Named(w)' = Named(w)
  BY <1>1, NamedSame
<1>7. /\ Len(regs) \in Nat /\ Len(regs) >= 1 /\ Len(regs') = Len(regs) - 1 /\ DOMAIN regs' = 1..Len(regs')
      /\ Head(regs) = regs[1] /\ \A k \in 1..Len(regs') : regs'[k] = regs[k + 1]
  <2>1. regs \in Seq(Conns) /\ regs # <<>> /\ regs' = Tail(regs)
    BY <1>2, <1>3 DEF AcceptTypes
  <2>2. QED
    BY ONLY <2>1, TailEffect
<1>8. 1 \in DOMAIN regs /\ \A k \in DOMAIN regs' : k + 1 \in DOMAIN regs
  <2>1. DOMAIN regs = 1..Len(regs)
    BY <1>2, SeqFacts DEF AcceptTypes
  <2>2. QED
    BY <1>7, <2>1
<1>9. ReaderKnown'
  <2>1. \A k \in DOMAIN regs' : sock'[regs'[k]] # "none" /\ accepting' # regs'[k]
    BY <1>1, <1>2, <1>7, <1>8 DEF ReaderKnown, Known
  <2>2. \A j \in Entries' : slab'[j] # 0 => sock'[slab'[j]] # "none" /\ accepting' # slab'[j]
    <3>1. ASSUME NEW j \in Entries', slab'[j] # 0 PROVE sock'[slab'[j]] # "none" /\ accepting' # slab'[j]
      <4>1. CASE j = i
        BY <1>1, <1>2, <1>4, <1>7, <1>8, <4>1 DEF ReaderKnown, Known, Becomes
      <4>2. CASE j # i
        BY <1>1, <1>2, <1>4, <3>1, <4>2 DEF ReaderKnown, Known, Becomes
      <4>3. QED
        BY <4>1, <4>2
    <3>2. QED
      BY <3>1
  <2>3. QED
    BY <2>1, <2>2 DEF ReaderKnown, Known
<1>10. QueuesKnown'
  BY <1>1, <1>2 DEF QueuesKnown, Known
<1>11. EndsShut'
  <2>1. Tenants
    BY <1>4 DEF Tenants, Becomes
  <2>2. \A k \in DOMAIN cq' : cq'[k].res = "Closed" => sock'[slab'[cq'[k].idx]] = "shut"
    BY <1>1, <1>2, <1>5, <2>1, ClosedStays
  <2>3. QED
    BY <1>2, <1>5, <1>6, <2>2, EndsStay DEF EndsShut
<1>12. RollKept'
  BY <1>1, <1>2, <1>6 DEF RollKept, Known
<1>13. PermitsCounted'
  BY <1>1, <1>6 DEF Roll, PermitsCounted, HoldsPermit
<1>14. QED
  BY <1>9, <1>10, <1>11, <1>12, <1>13 DEF Roll

\* An entry keeps its connection or lets go of it.
LEMMA TenantsStay ==
  ASSUME NEW i \in Entries, NEW c, NEW r, NEW b, NEW s, Becomes(i, c, r, b, s), c \in {slab[i], 0}
  PROVE  Tenants /\ \A j \in Entries : slab'[j] \in {slab[j], 0}
BY DEF Tenants, Becomes

\* The reader tells the response stage of an end: the socket is shut by then.
LEMMA RollEnds ==
  ASSUME Types, Roll, NEW c \in Conns, Known(c),
         \/ sock' = [sock EXCEPT ![c] = "shut"]
         \/ sock' = sock /\ sock[c] = "shut",
         UNCHANGED <<accepting, announced, active, table, sendbuf>>,
         control' = Append(control, <<"Disconnected", c>>)
  PROVE  /\ Onward /\ RollKept' /\ PermitsCounted'
         /\ \A b \in Named("Disconnected")' : Known(b)' /\ sock'[b] = "shut"
<1>1. Named("Disconnected")' = Named("Disconnected") \cup {c} /\ Named("Connected")' = Named("Connected")
  BY NamedAppended DEF Types, AcceptTypes
<1>2. sock[c] # "none" /\ EndsShut
  BY DEF Known, Roll
<1>3. Onward /\ sock'[c] = "shut"
  BY OnwardSame, OnwardShut
<1>4. RollKept' /\ PermitsCounted'
  <2>1. CASE sock' = [sock EXCEPT ![c] = "shut"]
    BY <1>1, <1>2, <2>1, RollShut
  <2>2. CASE sock' = sock
    BY <1>1, <2>2 DEF Roll, RollKept, Known, PermitsCounted, HoldsPermit
  <2>3. QED
    BY <2>1, <2>2
<1>5. \A b \in Named("Disconnected")' : b \in Named("Disconnected") \/ (Known(b) /\ sock'[b] = "shut")
  BY <1>1, <1>3
<1>6. QED
  BY <1>2, <1>3, <1>4, <1>5, EndsStay

LEMMA RollTeardown ==
  ASSUME Numbered, Types, Owned, Owned', Roll, NEW i \in Entries, slab[i] # 0, recv[i] # "Dying", BeginTeardown(i),
         UNCHANGED <<accepting, announced, active, table, sendbuf, cq, regs>>
  PROVE  Onward /\ ReaderKnown' /\ EndsShut' /\ RollKept' /\ PermitsCounted'
<1>1. SlabTypes /\ AcceptTypes /\ CqOwned /\ CqOwned' /\ ReaderKnown /\ EndsShut
  BY DEF Types, Owned, Roll
<1>2. slab[i] \in Conns /\ Known(slab[i])
  BY <1>1, SlabFacts DEF ReaderKnown
<1>3. /\ sock' = [sock EXCEPT ![slab[i]] = "shut"]
      /\ control' = Append(control, <<"Disconnected", slab[i]>>)
      /\ Entries' = Entries
      /\ \/ Becomes(i, 0, "Idle", <<>>, 0)
         \/ Becomes(i, slab[i], "Dying", buf[i], shed[i])
  BY <1>1, TeardownEffect
<1>4. /\ Onward /\ RollKept' /\ PermitsCounted'
      /\ \A b \in Named("Disconnected")' : Known(b)' /\ sock'[b] = "shut"
  BY <1>2, <1>3, RollEnds
<1>5. Tenants /\ \A j \in Entries : slab'[j] \in {slab[j], 0}
  BY <1>3, TenantsStay
<1>6. ReaderKnown'
  BY <1>1, <1>3, <1>4, <1>5, ReaderStays
<1>7. \A k \in DOMAIN cq' : cq'[k].res = "Closed" => sock'[slab'[cq'[k].idx]] = "shut"
  BY <1>1, <1>4, <1>5, ClosedStays
<1>8. QED
  BY <1>4, <1>6, <1>7 DEF EndsShut

LEMMA RollTimeOut ==
  ASSUME Numbered, Types, Owned, Owned', Roll, NEW i \in Entries, TimeOut(i)
  PROVE  Roll'
<1>1. TimeOutRest /\ slab[i] # 0 /\ recv[i] # "Dying" /\ BeginTeardown(i)
  BY DEF TimeOut, TimeOutRest
<1>2. UNCHANGED <<accepting, announced, active, table, sendbuf, cq, regs>> /\ UNCHANGED <<batch, input, output, staged, early>>
  BY <1>1 DEF TimeOutRest, acceptVars, callVars, stageVars
<1>3. Onward /\ ReaderKnown' /\ EndsShut' /\ RollKept' /\ PermitsCounted'
  BY <1>1, <1>2, RollTeardown
<1>4. Mentioned' = Mentioned
  BY <1>2 DEF Mentioned, Names
<1>5. QueuesKnown'
  BY <1>3, <1>4, QueuesStay DEF Types, Roll
<1>6. QED
  BY <1>3, <1>5 DEF Roll

LEMMA RollTakeCqe ==
  ASSUME Numbered, Types, Owned, Owned', Roll, NEW v, TakeCqe(v)
  PROVE  Roll'
<1>1. /\ UNCHANGED <<sock, accepting, announced, active, table, sendbuf, regs>> /\ UNCHANGED <<input, output, early>>
  BY DEF TakeCqe, acceptVars, stageVars
<1>2. SlabTypes /\ AcceptTypes /\ QueueTypes /\ CqOwned /\ BusyOwned /\ CqOwned' /\ ReaderKnown /\ QueuesKnown /\ EndsShut /\ RollKept
  BY DEF Types, Owned, Roll
<1>3. /\ cq # <<>> /\ cq' = Tail(cq) /\ Entries' = Entries
      /\ CqeKept(cq[1].idx, cq[1]) \/ CqeArms(cq[1].idx, cq[1]) \/ CqeVacates(cq[1].idx, cq[1])
  BY <1>2, TakeCqeEffect
<1> DEFINE q == cq[1]
           i == q.idx
<1>4. 1 \in DOMAIN cq /\ i \in Entries /\ slab[i] # 0 /\ slab[i] \in Conns
  BY <1>2, <1>3, HeadCqe, SlabFacts
<1>5. PICK c \in {slab[i], 0} : \E r, b, s : Becomes(i, c, r, b, s)
  BY <1>3 DEF CqeKept, CqeArms, CqeVacates
<1>6. PICK r, b, s : Becomes(i, c, r, b, s)
  BY <1>5
<1>7. /\ batch' = batch /\ staged' = staged
      /\ control' = control \/ (q.res = "Closed" /\ control' = Append(control, <<"Disconnected", slab[i]>>))
  BY <1>3 DEF CqeKept, CqeArms, CqeVacates, CallBegins
<1>8. Known(slab[i]) /\ (q.res = "Closed" => sock[slab[i]] = "shut")
  BY <1>2, <1>4 DEF ReaderKnown, EndsShut
<1> HIDE DEF q, i
<1>9. Tenants /\ \A j \in Entries : slab'[j] \in {slab[j], 0}
  BY <1>4, <1>6, TenantsStay
<1>10. Onward
  BY <1>1, OnwardSame
<1>11. ReaderKnown'
  BY <1>1, <1>2, <1>3, <1>9, <1>10, ReaderStays
<1>12. QueuesKnown'
  BY <1>1, <1>2, <1>7 DEF QueuesKnown, Known
<1>13. \A k \in DOMAIN cq' : cq'[k].res = "Closed" => sock'[slab'[cq'[k].idx]] = "shut"
  BY <1>2, <1>3, <1>9, <1>10, ClosedStays
<1>14. CASE control' = control
  <2>1. \A w : Named(w)' = Named(w)
    BY <1>14, NamedSame
  <2>2. EndsShut'
    BY <1>2, <1>10, <1>13, <2>1, EndsStay DEF EndsShut
  <2>3. RollKept'
    BY <1>1, <1>2, <2>1 DEF RollKept, Known
  <2>4. PermitsCounted'
    BY <1>1, <2>1 DEF Roll, PermitsCounted, HoldsPermit
  <2>5. QED
    BY <1>11, <1>12, <2>2, <2>3, <2>4 DEF Roll
<1>15. CASE q.res = "Closed" /\ control' = Append(control, <<"Disconnected", slab[i]>>)
  <2>1. /\ RollKept' /\ PermitsCounted'
        /\ \A x \in Named("Disconnected")' : Known(x)' /\ sock'[x] = "shut"
    BY <1>1, <1>4, <1>8, <1>15, RollEnds
  <2>2. QED
    BY <1>11, <1>12, <1>13, <2>1 DEF Roll, EndsShut
<1>16. QED
  BY <1>7, <1>14, <1>15

LEMMA RollProcessFrame ==
  ASSUME Types, Owned, Owned', Roll, ProcessFrame
  PROVE  Roll'
<1>1. /\ UNCHANGED <<sock, slab, accepting, announced, active, table, sendbuf, regs, control, cq>>
      /\ UNCHANGED <<input, output, early>>
  BY DEF ProcessFrame, acceptVars, stageVars
<1>2. SlabTypes /\ QueueTypes /\ CqOwned /\ BusyOwned /\ ReaderKnown /\ QueuesKnown /\ EndsShut /\ RollKept
  BY DEF Types, Owned, Roll
<1>3. /\ busy # 0 /\ buf[busy] # <<>>
      /\ FrameAnswered(busy) \/ FrameParks(busy) \/ FrameTaken(busy)
  BY <1>2, ProcessFrameEffect
<1>4. busy \in Entries /\ slab[busy] \in Conns /\ Known(slab[busy]) /\ buf[busy] \in Seq(Request)
  BY <1>2, <1>3, BusyFacts DEF ReaderKnown
<1>5. buf[busy][1].id \in Nat
  <2>1. buf[busy][1] \in Request
    BY <1>3, <1>4, SeqFacts
  <2>2. QED
    BY <2>1 DEF Request
<1>6. Names(batch') \subseteq Names(batch) \cup {slab[busy]} /\ Names(staged') \subseteq Names(staged) \cup {slab[busy]}
  <2>1. CASE FrameAnswered(busy)
    <3>1. PICK kind \in {"early", "rejected"} :
            staged' = Append(staged, [conn |-> slab[busy], id |-> buf[busy][1].id, kind |-> kind])
      BY <2>1 DEF FrameAnswered
    <3>2. [conn |-> slab[busy], id |-> buf[busy][1].id, kind |-> kind] \in Reply
      BY <1>4, <1>5 DEF Reply
    <3>3. staged \in Seq(Reply)
      BY <1>2 DEF QueueTypes
    <3> DEFINE e == [conn |-> slab[busy], id |-> buf[busy][1].id, kind |-> kind]
    <3>4. e.conn = slab[busy] /\ e \in Reply /\ staged' = Append(staged, e)
      BY <3>1, <3>2
    <3> HIDE DEF e
    <3>5. Names(staged') \subseteq Names(staged) \cup {e.conn}
      BY <3>3, <3>4, NamesFacts
    <3>6. batch' = batch
      BY <2>1 DEF FrameAnswered
    <3>7. QED
      BY <3>4, <3>5, <3>6
  <2>2. CASE FrameParks(busy)
    BY <2>2 DEF FrameParks
  <2>3. CASE FrameTaken(busy)
    <3> DEFINE e == [conn |-> slab[busy], id |-> buf[busy][1].id]
    <3>1. e.conn = slab[busy] /\ e \in Ask /\ batch' = Append(batch, e) /\ staged' = staged
      BY <1>4, <1>5, <2>3 DEF Ask, FrameTaken
    <3>2. batch \in Seq(Ask)
      BY <1>2 DEF QueueTypes
    <3> HIDE DEF e
    <3>3. Names(batch') \subseteq Names(batch) \cup {e.conn}
      BY <3>1, <3>2, NamesFacts
    <3>4. QED
      BY <3>1, <3>3
  <2>4. QED
    BY <1>3, <2>1, <2>2, <2>3
<1>7. Mentioned' \subseteq Mentioned \cup {slab[busy]}
  BY <1>1, <1>6 DEF Mentioned, Names
<1>8. Onward
  BY <1>1, OnwardSame
<1>9. QueuesKnown'
  BY <1>2, <1>4, <1>7, <1>8, QueuesMoved
<1>10. \A w : Named(w)' = Named(w)
  BY <1>1, NamedSame
<1>11. ReaderKnown' /\ EndsShut'
  BY <1>1, <1>2, <1>10 DEF ReaderKnown, EndsShut, Known, Entries
<1>12. RollKept' /\ PermitsCounted'
  BY <1>1, <1>2, <1>10 DEF RollKept, Known, PermitsCounted, HoldsPermit, Roll
<1>13. QED
  BY <1>9, <1>11, <1>12 DEF Roll

LEMMA RollEndCall ==
  ASSUME Numbered, Types, Owned, Owned', Roll, EndCall
  PROVE  Roll'
<1>1. UNCHANGED <<accepting, announced, active, table, sendbuf, cq, regs, output>>
  BY DEF EndCall, acceptVars, stageVars
<1>2. SlabTypes /\ AcceptTypes /\ QueueTypes /\ CqOwned /\ CqOwned' /\ BusyOwned /\ ReaderKnown /\ QueuesKnown /\ EndsShut /\ RollKept
  BY DEF Types, Owned, Roll
<1>3. /\ busy # 0 /\ batch' = <<>> /\ staged' = <<>>
      /\ input' = input \o batch /\ early' = early \o staged
      /\ BeginTeardown(busy) \/ (CallLeaves(busy) /\ Entries' = Entries)
  BY <1>2, EndCallEffect
<1>4. busy \in Entries /\ slab[busy] # 0 /\ recv[busy] # "Dying"
  BY <1>2, <1>3, BusyFacts
<1>5. Mentioned' \subseteq Mentioned
  <2>1. Names(input') \subseteq Names(input) \cup Names(batch)
    BY <1>2, <1>3, NamesFacts DEF QueueTypes
  <2>2. Names(early') \subseteq Names(early) \cup Names(staged)
    BY <1>2, <1>3, NamesFacts DEF QueueTypes
  <2>3. Names(batch') = {} /\ Names(staged') = {}
    BY <1>3 DEF Names
  <2>4. QED
    BY <1>1, <2>1, <2>2, <2>3 DEF Mentioned, Names
<1>6. CASE BeginTeardown(busy)
  <2>1. Onward /\ ReaderKnown' /\ EndsShut' /\ RollKept' /\ PermitsCounted'
    BY <1>1, <1>4, <1>6, RollTeardown
  <2>2. QueuesKnown'
    BY <1>2, <1>5, <2>1, QueuesStay
  <2>3. QED
    BY <2>1, <2>2 DEF Roll
<1>7. CASE CallLeaves(busy) /\ Entries' = Entries
  <2>1. sock' = sock /\ control' = control
    BY <1>7 DEF CallLeaves
  <2>2. PICK r : Becomes(busy, slab[busy], r, buf[busy], shed[busy])
    BY <1>7 DEF CallLeaves
  <2>3. Onward
    BY <1>1, <2>1, OnwardSame
  <2>4. Tenants /\ \A j \in Entries : slab'[j] \in {slab[j], 0}
    BY <1>4, <2>2, TenantsStay
  <2>5. ReaderKnown'
    BY <1>1, <1>2, <1>7, <2>3, <2>4, ReaderStays
  <2>6. QueuesKnown'
    BY <1>2, <1>5, <2>3, QueuesStay
  <2>7. \A k \in DOMAIN cq' : cq'[k].res = "Closed" => sock'[slab'[cq'[k].idx]] = "shut"
    BY <1>1, <1>2, <2>3, <2>4, ClosedStays
  <2>8. \A w : Named(w)' = Named(w)
    BY <2>1, NamedSame
  <2>9. EndsShut'
    BY <1>2, <2>3, <2>7, <2>8, EndsStay DEF EndsShut
  <2>10. RollKept' /\ PermitsCounted'
    BY <1>1, <1>2, <2>1, <2>8 DEF RollKept, Known, PermitsCounted, HoldsPermit, Roll
  <2>11. QED
    BY <2>5, <2>6, <2>9, <2>10 DEF Roll
<1>8. QED
  BY <1>3, <1>6, <1>7

LEMMA RollDrain ==
  ASSUME Numbered, Types, Owned, Owned', Roll, Drain
  PROVE  Roll'
<1>1. /\ UNCHANGED <<sock, slab, accepting, announced, regs, cq>> /\ UNCHANGED <<batch, input, output, staged, early>>
  BY DrainEffect DEF StageUnchanged, stageRest, slabVars, acceptVars, callVars
<1>2. /\ table' = (table \cup Named("Connected")) \ Named("Disconnected")
      /\ active' = active - Cardinality(Returned)
      /\ sendbuf' = [c \in Conns |-> IF c \in Named("Disconnected") THEN <<>> ELSE sendbuf[c]]
      /\ control' = <<>>
  BY DrainEffect
<1>3. Named("Connected")' = {} /\ Named("Disconnected")' = {}
  BY <1>2, NamedNone
<1>4. EndsShut /\ RollKept /\ accepting \in Conns \cup {0}
  BY DEF Roll, Types, AcceptTypes
<1>5. Onward
  BY <1>1, OnwardSame
<1>6. /\ ReaderKnown' /\ QueuesKnown'
      /\ \A k \in DOMAIN cq' : cq'[k].res = "Closed" => sock'[slab'[cq'[k].idx]] = "shut"
  BY <1>1, <1>5, ReaderSideStays
<1>7. EndsShut'
  BY <1>3, <1>6 DEF EndsShut
<1>8. accepting \notin Named("Disconnected")
  BY <1>4 DEF EndsShut, Known
<1>9. RollKept'
  <2>1. \A b \in table' \cup Named("Connected")' : sock'[b] # "none"
    BY <1>1, <1>2, <1>3, <1>4 DEF RollKept
  <2>2. \A b \in Conns : Known(b)' /\ b \notin table' \cup Named("Connected")' => sock'[b] = "shut"
    BY <1>1, <1>2, <1>4 DEF RollKept, EndsShut, Known
  <2>3. \A b \in Conns : sendbuf'[b] # <<>> => b \in table' /\ Known(b)'
    BY <1>1, <1>2, <1>4 DEF RollKept, Known
  <2>4. accepting' # 0 /\ announced' => accepting' \in table' \cup Named("Connected")'
    BY <1>1, <1>2, <1>4, <1>8 DEF RollKept
  <2>5. accepting' # 0 /\ ~announced' => accepting' \notin table' \cup Named("Connected")'
    BY <1>1, <1>2, <1>3, <1>4 DEF RollKept
  <2>6. accepting' = 0 => ~announced'
    BY <1>1, <1>4 DEF RollKept
  <2>7. accepting' # 0 => sock'[accepting'] # "none"
    BY <1>1, <1>4 DEF RollKept
  <2>8. QED
    BY <1>3, <2>1, <2>2, <2>3, <2>4, <2>5, <2>6, <2>7 DEF RollKept
<1>10. PermitsCounted'
  <2>1. Admitted' = Admitted \ Returned
    BY <1>1, <1>2, <1>3, <1>8 DEF Admitted, HoldsPermit, Returned
  <2>2. Admitted \cap Returned = Returned
    BY HeldTyped DEF Admitted, HoldsPermit, Returned, Held
  <2>3. active = Cardinality(Admitted)
    BY DEF Roll, PermitsCounted, Admitted
  <2>4. active' = Cardinality(Admitted')
    BY <1>2, <2>1, <2>2, <2>3, AdmittedFinite, FS_Difference
  <2>5. QED
    BY <2>4 DEF PermitsCounted, Admitted
<1>11. QED
  BY <1>6, <1>7, <1>9, <1>10 DEF Roll

\* A release without a reply of c leaves c's buffer.
LEMMA JoinedNone ==
  ASSUME NEW c, NEW st, NEW s \in Seq(Reply), \A k \in 1..Len(s) : s[k].conn # c
  PROVE  Joined(c, st, s) = st
<1>1. PICK h : IsJoin(h, c, st, s) /\ Joined(c, st, s) = h[Len(s)]
  BY JoinedRuns
<1>2. Len(s) \in Nat
  BY LenProperties
<1> DEFINE A == {k \in 0..Len(s) : h[k] = st}
<1>3. 0 \in A
  BY <1>1, <1>2 DEF IsJoin
<1>4. \A k \in 1..Len(s) : k - 1 \in A => k \in A
  BY <1>1, <1>2 DEF IsJoin, added
<1> HIDE DEF A
<1>5. \A k \in 0..Len(s) : k \in A
  BY <1>2, <1>3, <1>4, Climb
<1>6. Len(s) \in A
  BY <1>2, <1>5
<1>7. QED
  BY <1>1, <1>6 DEF A

LEMMA RollTurn ==
  ASSUME Types, Owned, Owned', Roll, Idle \/ BeforeSlot \/ WaitRelease
  PROVE  Roll'
<1>1. /\ UNCHANGED <<sock, slab, accepting, announced, regs, cq, control, active, table>>
      /\ UNCHANGED <<batch, input, output, staged>>
  BY TurnEffect DEF StageUnchanged, stageRest, slabVars, acceptVars, callVars
<1>2. SlabTypes /\ QueueTypes /\ ReaderKnown /\ QueuesKnown /\ EndsShut /\ RollKept
  BY DEF Types, Roll
<1>3. CASE NoRelease
  <2>1. UNCHANGED <<sendbuf, early>>
    BY <1>3 DEF NoRelease
  <2>2. QED
    BY <1>1, <2>1, RollSame
<1>4. CASE Release
  <2>1. /\ \A c \in Conns : sendbuf'[c] = IF c \in table THEN Joined(c, sendbuf[c], Snapped) ELSE sendbuf[c]
        /\ early' = SubSeq(early, snap + 1, Len(early))
    BY <1>4, ReleaseEffect
  <2>2. /\ early \in Seq(Reply) /\ snap \in 0..Len(early) /\ Snapped \in Seq(Reply) /\ Len(Snapped) = snap
        /\ \A k \in 1..snap : Snapped[k] = early[k] /\ k \in DOMAIN early
    BY SnapFacts
  <2>3. Names(early') \subseteq Names(early)
    <3> DEFINE e == early'
    <3>1. early \in Seq(Reply) /\ snap \in 0..Len(early) /\ e = SubSeq(early, snap + 1, Len(early))
      BY <2>1, <2>2
    <3> HIDE DEF e
    <3>2. /\ DOMAIN e = 1..Len(e) /\ DOMAIN early = 1..Len(early)
          /\ \A k \in 1..Len(e) : snap + k \in 1..Len(early) /\ e[k] = early[snap + k]
      BY ONLY <3>1, SuffixEffect, SeqFacts
    <3>3. Names(e) \subseteq Names(early)
      BY <3>2 DEF Names
    <3>4. QED
      BY <3>3 DEF e
  <2>4. Mentioned' \subseteq Mentioned
    BY <1>1, <2>3 DEF Mentioned, Names
  <2>5. Onward
    BY <1>1, OnwardSame
  <2>6. QueuesKnown'
    BY <1>2, <2>4, <2>5, QueuesStay
  <2>7. \A w : Named(w)' = Named(w)
    BY <1>1, NamedSame
  <2>8. ReaderKnown' /\ EndsShut'
    BY <1>1, <1>2, <2>7 DEF ReaderKnown, EndsShut, Known, Entries
  <2>9. \A b \in Conns : sendbuf'[b] # <<>> => b \in table' /\ Known(b)'
    <3>1. ASSUME NEW b \in Conns, sendbuf'[b] # <<>> PROVE b \in table /\ Known(b)
      <4>1. CASE sendbuf[b] # <<>>
        BY <1>2, <4>1 DEF RollKept
      <4>2. CASE sendbuf[b] = <<>>
        <5>1. b \in table /\ Joined(b, sendbuf[b], Snapped) # sendbuf[b]
          BY <2>1, <3>1, <4>2
        <5>2. PICK k \in 1..snap : Snapped[k].conn = b
          BY <2>2, <5>1, JoinedNone
        <5>3. QED
          BY <1>2, <2>2, <5>1, <5>2 DEF QueuesKnown
      <4>3. QED
        BY <4>1, <4>2
    <3>2. QED
      BY <1>1, <3>1 DEF Known
  <2>10. RollKept'
    BY <1>1, <1>2, <2>7, <2>9 DEF RollKept, Known
  <2>11. PermitsCounted'
    BY <1>1, <2>7 DEF PermitsCounted, HoldsPermit, Roll
  <2>12. QED
    BY <2>6, <2>8, <2>10, <2>11 DEF Roll
<1>5. QED
  BY <1>3, <1>4, TurnEffect

LEMMA RollSendSlot ==
  ASSUME Types, Owned, Owned', Roll, SendSlot
  PROVE  Roll'
<1>1. /\ UNCHANGED <<sock, slab, accepting, announced, regs, cq, control, active, table>>
      /\ UNCHANGED <<batch, input, early, staged>>
  BY SendSlotEffect DEF StageUnchanged, stageRest, slabVars, acceptVars, callVars
<1>2. SlabTypes /\ QueueTypes /\ ReaderKnown /\ QueuesKnown /\ EndsShut /\ RollKept
  BY DEF Types, Roll
<1>3. /\ output # <<>> /\ output' = Tail(output) /\ output[1].conn \in Conns
      /\ sendbuf' = IF output[1].conn \in table
                    THEN [sendbuf EXCEPT ![output[1].conn] = @ \o SlotFrames(output[1])] ELSE sendbuf
  BY SendSlotEffect DEF Slot
<1>4. Names(output') \subseteq Names(output)
  BY <1>2, <1>3, NamesFacts DEF QueueTypes
<1>5. Mentioned' \subseteq Mentioned
  BY <1>1, <1>4 DEF Mentioned, Names
<1>6. Onward
  BY <1>1, OnwardSame
<1>7. QueuesKnown'
  BY <1>2, <1>5, <1>6, QueuesStay
<1>8. \A w : Named(w)' = Named(w)
  BY <1>1, NamedSame
<1>9. ReaderKnown' /\ EndsShut'
  BY <1>1, <1>2, <1>8 DEF ReaderKnown, EndsShut, Known, Entries
<1>10. Known(output[1].conn)
  <2>1. 1 \in DOMAIN output
    BY <1>2, <1>3, SeqFacts DEF QueueTypes
  <2>2. QED
    BY <1>2, <2>1 DEF QueuesKnown
<1>11. \A b \in Conns : sendbuf'[b] # <<>> => b \in table' /\ Known(b)'
  <2>1. ASSUME NEW b \in Conns, sendbuf'[b] # <<>> PROVE b \in table /\ Known(b)
    <3>1. CASE sendbuf[b] # <<>>
      BY <1>2, <3>1 DEF RollKept
    <3>2. CASE sendbuf[b] = <<>>
      <4>1. b = output[1].conn /\ b \in table
        BY <1>3, <2>1, <3>2 DEF Types, StageTypes
      <4>2. QED
        BY <1>10, <4>1
    <3>3. QED
      BY <3>1, <3>2
  <2>2. QED
    BY <1>1, <2>1 DEF Known
<1>12. RollKept'
  BY <1>1, <1>2, <1>8, <1>11 DEF RollKept, Known
<1>13. PermitsCounted'
  BY <1>1, <1>8 DEF PermitsCounted, HoldsPermit, Roll
<1>14. QED
  BY <1>7, <1>9, <1>12, <1>13 DEF Roll

LEMMA RollMatch ==
  ASSUME Types, Owned, Owned', Roll, MatchStep
  PROVE  Roll'
<1>1. /\ UNCHANGED <<sock, slab, accepting, announced, regs, cq, control, active, table, sendbuf>>
      /\ UNCHANGED <<batch, early, staged>>
  BY MatchEffect DEF MatchRest, slabVars, acceptVars, callVars, stageVars
<1>2. SlabTypes /\ QueueTypes /\ ReaderKnown /\ QueuesKnown /\ EndsShut /\ RollKept
  BY DEF Types, Roll
<1> DEFINE e == [conn |-> input[1].conn, id |-> input[1].id, last |-> half]
<1>3. /\ input # <<>> /\ output' = Append(output, e) /\ e \in Slot /\ e.conn = input[1].conn
      /\ input' \in {Tail(input), input}
  BY MatchEffect
<1> HIDE DEF e
<1>4. Names(output') \subseteq Names(output) \cup {e.conn}
  BY <1>2, <1>3, NamesFacts DEF QueueTypes
<1>5. Names(input') \subseteq Names(input)
  BY <1>2, <1>3, NamesFacts DEF QueueTypes
<1>6. e.conn \in Names(input)
  <2>1. 1 \in DOMAIN input
    BY <1>2, <1>3, SeqFacts DEF QueueTypes
  <2>2. QED
    BY <1>3, <2>1 DEF Names
<1>7. Mentioned' \subseteq Mentioned
  BY <1>1, <1>4, <1>5, <1>6 DEF Mentioned, Names
<1>8. Onward
  BY <1>1, OnwardSame
<1>9. QueuesKnown'
  BY <1>2, <1>7, <1>8, QueuesStay
<1>10. \A w : Named(w)' = Named(w)
  BY <1>1, NamedSame
<1>11. ReaderKnown' /\ EndsShut'
  BY <1>1, <1>2, <1>10 DEF ReaderKnown, EndsShut, Known, Entries
<1>12. RollKept' /\ PermitsCounted'
  BY <1>1, <1>2, <1>10 DEF RollKept, Known, PermitsCounted, HoldsPermit, Roll
<1>13. QED
  BY <1>9, <1>11, <1>12 DEF Roll

LEMMA RollFlush ==
  ASSUME Numbered, Types, Owned, Owned', Roll, Flush
  PROVE  Roll'
<1>1. /\ UNCHANGED <<slab, accepting, announced, regs, cq, control>>
      /\ UNCHANGED <<batch, input, early, staged, output>>
  BY FlushEffect DEF FlushRest, slabVars, acceptVars, callVars
<1>2. SlabTypes /\ QueueTypes /\ ReaderKnown /\ QueuesKnown /\ EndsShut /\ RollKept
  BY DEF Types, Roll
<1>3. \A w : Named(w)' = Named(w)
  BY <1>1, NamedSame
<1>4. FlushAll \/ \E c \in table : \E n \in 0..(Len(sendbuf[c]) - 1) : FlushSome(c, n)
  BY FlushEffect
<1>5. CASE /\ UNCHANGED <<sock, active, table>>
           /\ \A b \in Conns : sendbuf'[b] # <<>> => sendbuf[b] # <<>>
  <2>1. Onward
    BY <1>1, <1>5, OnwardSame
  <2>2. ReaderKnown' /\ EndsShut' /\ QueuesKnown'
    BY <1>1, <1>2, <1>3, <1>5 DEF ReaderKnown, EndsShut, Known, Entries, QueuesKnown
  <2>3. \A b \in Conns : sendbuf'[b] # <<>> => b \in table' /\ Known(b)'
    BY <1>1, <1>2, <1>5 DEF RollKept, Known
  <2>4. RollKept'
    BY <1>1, <1>2, <1>3, <1>5, <2>3 DEF RollKept, Known
  <2>5. PermitsCounted'
    BY <1>1, <1>3, <1>5 DEF PermitsCounted, HoldsPermit, Roll
  <2>6. QED
    BY <2>2, <2>4, <2>5 DEF Roll
<1>6. CASE FlushAll
  BY <1>5, <1>6 DEF FlushAll
<1>7. ASSUME NEW c \in table, NEW n \in 0..(Len(sendbuf[c]) - 1), FlushSome(c, n) PROVE Roll'
  <2>1. c \in Conns /\ sendbuf[c] # <<>> /\ Known(c)
    <3>1. c \in Conns /\ sendbuf[c] \in Seq(Bytes)
      BY HeldTyped DEF Types, StageTypes
    <3>2. sendbuf[c] # <<>>
      BY <1>7, <3>1, SeqFacts
    <3>3. QED
      BY <1>2, <3>1, <3>2 DEF RollKept
  <2>2. CASE sock' = sock /\ active' = active /\ table' = table
    <3>1. \A b \in Conns : sendbuf'[b] # <<>> => sendbuf[b] # <<>>
      BY <1>7, <2>1 DEF FlushSome
    <3>2. QED
      BY <1>5, <2>2, <3>1
  <2>3. CASE /\ sendbuf'[c] = <<>> /\ table' = table \ {c} /\ active' = active - 1
             /\ sock' = [sock EXCEPT ![c] = "shut"]
    <3>1. Onward /\ sock'[c] = "shut" /\ \A b \in Conns : b # c => sock'[b] = sock[b]
      BY <1>1, <2>1, <2>3, OnwardShut
    <3>2. /\ ReaderKnown' /\ QueuesKnown'
          /\ \A k \in DOMAIN cq' : cq'[k].res = "Closed" => sock'[slab'[cq'[k].idx]] = "shut"
      BY <1>1, <3>1, ReaderSideStays
    <3>3. EndsShut'
      BY <1>2, <1>3, <3>1, <3>2, EndsStay DEF EndsShut
    <3>4. c \notin Named("Connected") /\ accepting # c /\ sock[c] # "none"
      BY <1>2, <2>1 DEF RollKept, Known
    <3>5. \A b \in Conns : sendbuf'[b] = <<>>
      BY <1>7, <2>3 DEF FlushSome
    <3>6. RollKept'
      <4>0. \A b \in Conns : (sock'[b] # "none" <=> sock[b] # "none") /\ (sock[b] = "shut" => sock'[b] = "shut")
        BY <3>1, <3>4
      <4>1. \A b \in table' \cup Named("Connected")' : sock'[b] # "none"
        <5>1. ASSUME NEW b \in table \cup Named("Connected") PROVE sock'[b] # "none"
          BY <1>2, <4>0, <5>1, HeldTyped DEF Held, RollKept
        <5>2. QED
          BY <1>3, <2>3, <5>1
      <4>2. \A b \in Conns : Known(b)' /\ b \notin table' \cup Named("Connected")' => sock'[b] = "shut"
        BY <1>1, <1>2, <1>3, <2>3, <3>1, <4>0 DEF RollKept, Known
      <4>3. accepting' # 0 => sock'[accepting'] # "none"
        <5>1. accepting \in Conns \cup {0}
          BY DEF Types, AcceptTypes
        <5>2. QED
          BY <1>1, <1>2, <4>0, <5>1 DEF RollKept
      <4>4. QED
        BY <1>1, <1>2, <1>3, <2>3, <3>4, <3>5, <4>1, <4>2, <4>3 DEF RollKept
    <3>7. PermitsCounted'
      <4>1. Admitted' = Admitted \ {c}
        BY <1>1, <1>3, <2>3, <3>4 DEF Admitted, HoldsPermit
      <4>2. c \in Admitted
        BY <2>1 DEF Admitted, HoldsPermit
      <4>3. active = Cardinality(Admitted)
        BY DEF Roll, PermitsCounted, Admitted
      <4>4. active' = Cardinality(Admitted')
        BY <2>3, <4>1, <4>2, <4>3, AdmittedFinite, FS_RemoveElement
      <4>5. QED
        BY <4>4 DEF PermitsCounted, Admitted
    <3>8. QED
      BY <3>2, <3>3, <3>6, <3>7 DEF Roll
  <2>4. QED
    BY <1>7, <2>2, <2>3 DEF FlushSome
<1>8. QED
  BY <1>4, <1>6, <1>7

-----------------------------------------------------------------------------
(* Connections are accounted for *)

\* A step, action by action.
LEMMA StepCases ==
  ASSUME [PathNext]_pathVars
  PROVE  \/ \E c \in Conns : Accept(c) \/ Close(c)
         \/ \E c \in Conns : \E k \in Kinds : Send(c, k)
         \/ Announce \/ Kernel \/ Register \/ ProcessFrame \/ EndCall
         \/ \E v : TakeCqe(v)
         \/ \E i \in Entries : \E v : Retry(i, v)
         \/ \E i \in Entries : TimeOut(i)
         \/ MatchStep \/ Durable \/ UNCHANGED pathVars
         \/ Read \/ Snapshot \/ BeforeWait \/ WhileWaiting \/ Drain
         \/ Idle \/ BeforeSlot \/ WaitRelease \/ SendSlot \/ Flush
<1>1. PathNext => \/ \E c \in Conns : Accept(c) \/ Close(c)
                  \/ \E c \in Conns : \E k \in Kinds : Send(c, k)
                  \/ Announce \/ Kernel \/ ReaderStep \/ (\E i \in Entries : TimeOut(i))
                  \/ MatchStep \/ Durable \/ Stage
  BY Zenon DEF PathNext
<1>2. ReaderStep => \/ Register \/ ProcessFrame \/ EndCall
                    \/ \E v : TakeCqe(v)
                    \/ \E i \in Entries : \E v : Retry(i, v)
  BY Zenon DEF ReaderStep
<1>3. QED
  BY <1>1, <1>2, Zenon DEF Stage

TypesAndOwned == Types /\ Owned

LEMMA TypesOwnedNext ==
  ASSUME Numbered, TypesAndOwned, [PathNext]_pathVars
  PROVE  TypesAndOwned'
<1>0. Types /\ Owned /\ FreeVacant /\ CqOwned /\ BusyOwned
  BY DEF TypesAndOwned, Owned
<1> SUFFICES Types' /\ Owned'
  BY DEF TypesAndOwned
<1>1. ASSUME NEW c \in Conns, Accept(c) \/ Close(c) PROVE Types' /\ Owned'
  <2>1. UNCHANGED slabVars /\ UNCHANGED <<ops, cq, busy, batch, staged, wire>>
    BY <1>1 DEF Accept, Close, callVars, clientVars
  <2>2. QED
    BY <1>0, <1>1, <2>1, TypesAdmit, OwnedSame
<1>2. ASSUME NEW c \in Conns, NEW k \in Kinds, Send(c, k) PROVE Types' /\ Owned'
  BY <1>0, <1>2, TypesSend, OwnedSend
<1>3. CASE Announce
  <2>1. UNCHANGED slabVars /\ UNCHANGED <<ops, cq, busy, batch, staged, wire>>
    BY <1>3 DEF Announce, callVars, clientVars
  <2>2. QED
    BY <1>0, <1>3, <2>1, TypesAnnounce, OwnedSame
<1>4. CASE Kernel
  BY <1>0, <1>4, TypesKernel, OwnedKernel
<1>5. CASE Register
  BY <1>0, <1>5, TypesRegister, OwnedRegister
<1>6. CASE ProcessFrame
  BY <1>0, <1>6, TypesProcessFrame, OwnedProcessFrame
<1>7. CASE EndCall
  BY <1>0, <1>7, TypesEndCall, OwnedEndCall
<1>8. ASSUME NEW v, TakeCqe(v) PROVE Types' /\ Owned'
  BY <1>0, <1>8, TypesTakeCqe, OwnedTakeCqe
<1>9. ASSUME NEW i \in Entries, NEW v, Retry(i, v) PROVE Types' /\ Owned'
  BY <1>0, <1>9, TypesRetry, OwnedRetry
<1>10. ASSUME NEW i \in Entries, TimeOut(i) PROVE Types' /\ Owned'
  BY <1>0, <1>10, TypesTimeOut, OwnedTimeOut
<1>11. CASE MatchStep
  <2>1. UNCHANGED slabVars /\ UNCHANGED <<ops, cq, busy, batch, staged, wire>>
    BY <1>11 DEF MatchStep, callVars, clientVars
  <2>2. QED
    BY <1>0, <1>11, <2>1, TypesMatch, OwnedSame
<1>12. CASE Durable \/ UNCHANGED pathVars
  <2>1. UNCHANGED PathVars
    BY <1>12, DurableEffect
  <2>2. UNCHANGED slabVars /\ UNCHANGED <<ops, cq, busy, batch, staged, wire>>
    BY <2>1 DEF PathVars, clientVars
  <2>3. QED
    BY <1>0, <2>1, <2>2, TypesSame, OwnedSame
<1>13. ASSUME StageUnchanged PROVE Owned'
  <2>1. UNCHANGED slabVars /\ UNCHANGED <<ops, cq, busy, batch, staged, wire>>
    BY <1>13 DEF StageUnchanged, stageRest, callVars, clientVars
  <2>2. QED
    BY <1>0, <2>1, OwnedSame
<1>14. CASE Read \/ Snapshot \/ BeforeWait \/ WhileWaiting
  BY <1>0, <1>13, <1>14, TypesLook, LookEffect
<1>15. CASE Drain
  BY <1>0, <1>13, <1>15, TypesDrain, DrainEffect
<1>16. CASE Idle \/ BeforeSlot \/ WaitRelease
  BY <1>0, <1>13, <1>16, TypesTurn, TurnEffect
<1>17. CASE SendSlot
  BY <1>0, <1>13, <1>17, TypesSendSlot, SendSlotEffect
<1>18. CASE Flush
  <2>1. UNCHANGED slabVars /\ UNCHANGED <<ops, cq, busy, batch, staged, wire>>
    BY <1>18 DEF Flush, callVars
  <2>2. QED
    BY <1>0, <1>18, <2>1, TypesFlush, OwnedSame
<1>19. QED
  BY StepCases, <1>1, <1>2, <1>3, <1>4, <1>5, <1>6, <1>7, <1>8, <1>9, <1>10, <1>11, <1>12, <1>14, <1>15,
     <1>16, <1>17, <1>18, Zenon

Accounted == Types /\ Owned /\ Roll

LEMMA AccountedInit ==
  ASSUME Numbered, PathInit
  PROVE  Accounted
BY TypesInit, OwnedInit, RollInit DEF Accounted

LEMMA AccountedNext ==
  ASSUME Numbered, Accounted, [PathNext]_pathVars
  PROVE  Accounted'
<1>0. Types /\ Owned /\ Roll /\ Types' /\ Owned'
  BY TypesOwnedNext DEF Accounted, TypesAndOwned
<1> SUFFICES Roll'
  BY <1>0 DEF Accounted
<1>1. ASSUME NEW c \in Conns, Accept(c) PROVE Roll'
  BY <1>0, <1>1, RollAdmit
<1>2. ASSUME NEW c \in Conns, Close(c) PROVE Roll'
  BY <1>0, <1>2, RollClose
<1>3. ASSUME NEW c \in Conns, NEW k \in Kinds, Send(c, k) PROVE Roll'
  <2>1. /\ UNCHANGED <<sock, accepting, announced, control, regs, slab, cq, active, table, sendbuf>>
        /\ UNCHANGED <<batch, input, output, staged, early>>
    BY <1>3 DEF Send, acceptVars, slabVars, callVars, stageVars
  <2>2. QED
    BY <1>0, <2>1, RollSame
<1>4. CASE Announce
  BY <1>0, <1>4, RollAnnounce
<1>5. CASE Kernel
  BY <1>0, <1>5, RollKernel
<1>6. CASE Register
  BY <1>0, <1>6, RollRegister
<1>7. CASE ProcessFrame
  BY <1>0, <1>7, RollProcessFrame
<1>8. CASE EndCall
  BY <1>0, <1>8, RollEndCall
<1>9. ASSUME NEW v, TakeCqe(v) PROVE Roll'
  BY <1>0, <1>9, RollTakeCqe
<1>10. ASSUME NEW i \in Entries, NEW v, Retry(i, v) PROVE Roll'
  <2>1. /\ batch' = batch /\ staged' = staged
        /\ UNCHANGED <<sock, clientVars, active, acceptVars, control, slabVars, ops, cq, input, early,
                       half, output, stageVars, durable, tails, onRing, missed>>
    BY <1>0, <1>10, RetryEffect DEF Types, Owned
  <2>2. /\ UNCHANGED <<sock, accepting, announced, control, regs, slab, cq, active, table, sendbuf>>
        /\ UNCHANGED <<batch, input, output, staged, early>>
    BY <2>1 DEF acceptVars, slabVars, stageVars
  <2>3. QED
    BY <1>0, <2>2, RollSame
<1>11. ASSUME NEW i \in Entries, TimeOut(i) PROVE Roll'
  BY <1>0, <1>11, RollTimeOut
<1>12. CASE MatchStep
  BY <1>0, <1>12, RollMatch
<1>13. CASE Durable \/ UNCHANGED pathVars
  <2>1. UNCHANGED PathVars
    BY <1>13, DurableEffect
  <2>2. /\ UNCHANGED <<sock, accepting, announced, control, regs, slab, cq, active, table, sendbuf>>
        /\ UNCHANGED <<batch, input, output, staged, early>>
    BY <2>1 DEF PathVars, slabVars, stageVars
  <2>3. QED
    BY <1>0, <2>2, RollSame
<1>14. CASE Read \/ Snapshot \/ BeforeWait \/ WhileWaiting
  <2>1. StageUnchanged /\ UNCHANGED <<sock, active, control, early, output, between, table, sendbuf, missed>>
    BY <1>0, <1>14, LookEffect
  <2>2. /\ UNCHANGED <<sock, accepting, announced, control, regs, slab, cq, active, table, sendbuf>>
        /\ UNCHANGED <<batch, input, output, staged, early>>
    BY <2>1 DEF StageUnchanged, stageRest, acceptVars, slabVars, callVars
  <2>3. QED
    BY <1>0, <2>2, RollSame
<1>15. CASE Drain
  BY <1>0, <1>15, RollDrain
<1>16. CASE Idle \/ BeforeSlot \/ WaitRelease
  BY <1>0, <1>16, RollTurn
<1>17. CASE SendSlot
  BY <1>0, <1>17, RollSendSlot
<1>18. CASE Flush
  BY <1>0, <1>18, RollFlush
<1>19. QED
  BY StepCases, <1>1, <1>2, <1>3, <1>4, <1>5, <1>6, <1>7, <1>8, <1>9, <1>10, <1>11, <1>12, <1>13, <1>14, <1>15,
     <1>16, <1>17, <1>18, Zenon

\* The bytes buffered under a slab entry were sent by the connection it holds: a
\* torn-down entry keeps its index until the last completion of its receive is in
\* (begin_teardown, RecvState).  And active_connections counts exactly the
\* connections the accept loop has admitted and the response stage has not let go:
\* the reader's Disconnected and the egress's own drop of a connection give its
\* permit back once between them (drain_control, teardown_dropped).
THEOREM ConnectionsAlwaysAccounted ==
  ASSUME Numbered
  PROVE  PathSpec => []ConnectionsAccounted
<1>1. PathInit => Accounted
  BY AccountedInit
<1>2. Accounted /\ [PathNext]_pathVars => Accounted'
  BY AccountedNext
<1>3. Accounted => ConnectionsAccounted
  BY DEF Accounted, Owned, Roll, ConnectionsAccounted
<1>4. QED
  BY <1>1, <1>2, <1>3, PTL DEF PathSpec

-----------------------------------------------------------------------------
(* The response stage has heard of whom it answers *)

LEMMA StageFacts ==
  ASSUME Types
  PROVE  /\ take \in Nat /\ snap \in Nat
         /\ output \in Seq(Slot) /\ Len(output) \in Nat /\ DOMAIN output = 1..Len(output) /\ take <= Len(output)
         /\ early \in Seq(Reply) /\ Len(early) \in Nat /\ DOMAIN early = 1..Len(early) /\ snap <= Len(early)
         /\ (\A k \in 1..take : k \in DOMAIN output) /\ (\A k \in 1..snap : k \in DOMAIN early)
<1>1. /\ output \in Seq(Slot) /\ Len(output) \in Nat /\ DOMAIN output = 1..Len(output)
      /\ early \in Seq(Reply) /\ Len(early) \in Nat /\ DOMAIN early = 1..Len(early)
  BY SeqFacts DEF Types, QueueTypes
<1>2. take \in Nat /\ snap \in Nat /\ take <= Len(output) /\ snap <= Len(early)
  BY DEF Types, StageTypes, Bounds
<1>3. QED
  BY <1>1, <1>2

\* The stage stands where it stood, and what it has taken note of is there.
LEMMA HeardStays ==
  ASSUME Types, Roll, Heard, UNCHANGED <<rpc, take, snap, missed>>,
         \A c \in Named("Connected")' : c \in Named("Connected") \/ c = accepting,
         \A k \in 1..take : output'[k] = output[k],
         \A k \in 1..snap : early'[k] = early[k]
  PROVE  Heard'
<1>1. /\ \A k \in 1..take : Known(output[k].conn)
      /\ \A k \in 1..snap : Known(early[k].conn)
  BY StageFacts DEF Roll, QueuesKnown
<1>2. rpc' \notin {"snap", "drain"} => \A k \in 1..take' : output'[k].conn \notin Named("Connected")'
  BY <1>1 DEF Heard, Known
<1>3. rpc' \notin {"drain", "redrain"} => \A k \in 1..snap' : early'[k].conn \notin Named("Connected")'
  BY <1>1 DEF Heard, Known
<1>4. QED
  BY <1>2, <1>3 DEF Heard, NoReplyLost

LEMMA HeardSame ==
  ASSUME Types, Roll, Heard, UNCHANGED <<rpc, take, snap, missed, output, early, control>>
  PROVE  Heard'
<1>1. \A c \in Named("Connected")' : c \in Named("Connected")
  BY NamedSame
<1>2. QED
  BY <1>1, HeardStays

LEMMA HeardAnnounce ==
  ASSUME Types, Roll, Heard, Announce
  PROVE  Heard'
<1>1. UNCHANGED <<rpc, take, snap, missed, output, early>>
  BY DEF Announce, stageVars
<1>2. \A c \in Named("Connected")' : c \in Named("Connected") \/ c = accepting
  <2>1. accepting \in Conns /\ AcceptTypes
    BY AnnounceEffect DEF Types, AcceptTypes
  <2>2. CASE control' = control
    BY <2>2, NamedSame
  <2>3. CASE control' = Append(control, <<"Connected", accepting>>)
    BY <2>1, <2>3, NamedAppended
  <2>4. QED
    BY <2>2, <2>3, AnnounceEffect
<1>3. QED
  BY <1>1, <1>2, HeardStays

\* The reader only ever tells of an end, and adds to the early replies.
LEMMA HeardReader ==
  ASSUME Numbered, Types, Roll, Heard, UNCHANGED <<rpc, take, snap, missed, output>>,
         early' = early \/ early' = early \o staged,
         \/ control' = control
         \/ \E c \in Conns : control' = Append(control, <<"Disconnected", c>>)
  PROVE  Heard'
<1>1. \A c \in Named("Connected")' : c \in Named("Connected")
  <2>1. CASE control' = control
    BY <2>1, NamedSame
  <2>2. ASSUME NEW c \in Conns, control' = Append(control, <<"Disconnected", c>>)
        PROVE  Named("Connected")' = Named("Connected")
    BY <2>2, NamedAppended DEF Types
  <2>3. QED
    BY <2>1, <2>2
<1>2. \A k \in 1..snap : early'[k] = early[k]
  <2>1. CASE early' = early
    BY <2>1
  <2>2. CASE early' = early \o staged
    <3> DEFINE e == early'
    <3>1. early \in Seq(Reply) /\ staged \in Seq(Reply) /\ e = early \o staged
      BY <2>2 DEF Types, QueueTypes
    <3> HIDE DEF e
    <3>2. \A k \in 1..Len(early) : e[k] = early[k]
      BY ONLY <3>1, ConcatEffect
    <3>3. \A k \in 1..snap : e[k] = early[k]
      BY <3>2, StageFacts
    <3>4. QED
      BY <3>3 DEF e
  <2>3. QED
    BY <2>1, <2>2
<1>3. QED
  BY <1>1, <1>2, HeardStays

LEMMA HeardTimeOut ==
  ASSUME Numbered, Types, Roll, Heard, NEW i \in Entries, TimeOut(i)
  PROVE  Heard'
<1>1. TimeOutRest /\ slab[i] # 0 /\ recv[i] # "Dying" /\ BeginTeardown(i)
  BY DEF TimeOut, TimeOutRest
<1>2. UNCHANGED <<rpc, take, snap, missed, output, early>>
  BY <1>1 DEF TimeOutRest, stageVars
<1>3. slab[i] \in Conns /\ control' = Append(control, <<"Disconnected", slab[i]>>)
  BY <1>1, SlabFacts, TeardownEffect DEF Types
<1>4. QED
  BY <1>2, <1>3, HeardReader

LEMMA HeardTakeCqe ==
  ASSUME Numbered, Types, Owned, Roll, Heard, NEW v, TakeCqe(v)
  PROVE  Heard'
<1>1. UNCHANGED <<rpc, take, snap, missed, output, early>>
  BY DEF TakeCqe, stageVars
<1>2. SlabTypes /\ CqOwned /\ BusyOwned
  BY DEF Types, Owned
<1>3. /\ cq # <<>>
      /\ CqeKept(cq[1].idx, cq[1]) \/ CqeArms(cq[1].idx, cq[1]) \/ CqeVacates(cq[1].idx, cq[1])
  BY <1>2, TakeCqeEffect
<1>4. control' = control \/ control' = Append(control, <<"Disconnected", slab[cq[1].idx]>>)
  BY <1>3 DEF CqeKept, CqeArms, CqeVacates
<1>5. slab[cq[1].idx] \in Conns
  BY <1>2, <1>3, HeadCqe, SlabFacts
<1>6. QED
  BY <1>1, <1>4, <1>5, HeardReader

LEMMA HeardEndCall ==
  ASSUME Numbered, Types, Owned, Roll, Heard, EndCall
  PROVE  Heard'
<1>1. UNCHANGED <<rpc, take, snap, missed, output>>
  BY DEF EndCall, stageVars
<1>2. SlabTypes /\ BusyOwned
  BY DEF Types, Owned
<1>3. /\ busy # 0 /\ early' = early \o staged
      /\ BeginTeardown(busy) \/ (CallLeaves(busy) /\ Entries' = Entries)
  BY <1>2, EndCallEffect
<1>4. busy \in Entries /\ slab[busy] \in Conns /\ recv[busy] # "Dying"
  BY <1>2, <1>3, BusyFacts
<1>5. control' = control \/ control' = Append(control, <<"Disconnected", slab[busy]>>)
  BY <1>2, <1>3, <1>4, TeardownEffect DEF CallLeaves
<1>6. QED
  BY <1>1, <1>3, <1>4, <1>5, HeardReader

LEMMA HeardMatch ==
  ASSUME Types, Roll, Heard, MatchStep
  PROVE  Heard'
<1>1. UNCHANGED <<rpc, take, snap, missed, early, control>>
  BY DEF MatchStep, stageVars
<1>2. \A k \in 1..take : output'[k] = output[k]
  <2> DEFINE e == [conn |-> input[1].conn, id |-> input[1].id, last |-> half]
  <2>1. output' = Append(output, e) /\ e \in Slot /\ output \in Seq(Slot)
    BY MatchEffect, StageFacts
  <2> HIDE DEF e
  <2>2. \A k \in 1..Len(output) : output'[k] = output[k]
    BY <2>1, AppendEffect
  <2>3. QED
    BY <2>2, StageFacts
<1>3. \A c \in Named("Connected")' : c \in Named("Connected")
  BY <1>1, NamedSame
<1>4. QED
  BY <1>1, <1>2, <1>3, HeardStays

LEMMA HeardLook ==
  ASSUME Numbered, Types, Heard, Read \/ Snapshot \/ BeforeWait \/ WhileWaiting
  PROVE  Heard'
<1>1. /\ UNCHANGED <<control, early, output, missed>>
      /\ \/ rpc = "read" /\ rpc' = "snap" /\ snap' = snap
         \/ rpc = "snap" /\ rpc' = "drain"
         \/ rpc = "resnap" /\ rpc' = "redrain" /\ take' = take
         \/ rpc \in {"gate", "waiting"} /\ rpc' \in {"waitFlush", "resnap"} /\ take' = take /\ snap' = snap
  BY LookEffect
<1>2. Named("Connected")' = Named("Connected")
  BY <1>1, NamedSame
<1>3. QED
  BY <1>1, <1>2 DEF Heard, NoReplyLost

LEMMA HeardDrain ==
  ASSUME Heard, Drain
  PROVE  Heard'
<1>1. Named("Connected")' = {} /\ missed' = missed
  BY DrainEffect, NamedNone
<1>2. QED
  BY <1>1 DEF Heard, NoReplyLost

\* Whom the stage answers and does not hold has gone.
LEMMA AnsweredGone ==
  ASSUME Roll, NEW c \in Conns, Known(c), c \notin Named("Connected"), c \notin table
  PROVE  sock[c] # "open"
BY DEF Roll, RollKept

LEMMA HeardTurn ==
  ASSUME Types, Roll, Heard, Idle \/ BeforeSlot \/ WaitRelease
  PROVE  Heard'
<1>1. /\ UNCHANGED <<control, output, take, sock, table>>
      /\ rpc \in {"turn", "release"} /\ rpc' \in {"idleFlush", "gate", "waitFlush", "waiting"}
      /\ Release \/ NoRelease
  BY TurnEffect
<1>2. Named("Connected")' = Named("Connected")
  BY <1>1, NamedSame
<1>3. CASE NoRelease
  BY <1>1, <1>2, <1>3 DEF Heard, NoReplyLost, NoRelease
<1>4. CASE Release
  <2>1. snap' = 0
    BY <1>4 DEF Release
  <2>2. missed' = {}
    <3>1. missed' = missed \cup {c \in Conns \ table : sock[c] = "open" /\ \E k \in 1..snap : early[k].conn = c}
      BY <1>4 DEF Release
    <3>2. ASSUME NEW c \in Conns \ table, NEW k \in 1..snap, early[k].conn = c PROVE sock[c] # "open"
      <4>1. Known(c)
        BY <3>2, StageFacts DEF Roll, QueuesKnown
      <4>2. c \notin Named("Connected")
        BY <1>1, <3>2 DEF Heard
      <4>3. QED
        BY <4>1, <4>2, AnsweredGone
    <3>3. missed = {}
      BY DEF Heard, NoReplyLost
    <3>4. QED
      BY <3>1, <3>2, <3>3
  <2>3. QED
    BY <1>1, <1>2, <2>1, <2>2 DEF Heard, NoReplyLost
<1>5. QED
  BY <1>1, <1>3, <1>4

LEMMA HeardSendSlot ==
  ASSUME Types, Roll, Heard, SendSlot
  PROVE  Heard'
<1>1. /\ UNCHANGED <<control, early, snap, table, sock>> /\ rpc \in {"gate", "waiting"} /\ take > 0
      /\ rpc' \in {"slotFlush", "read", "turn"} /\ output # <<>> /\ output' = Tail(output) /\ take' = take - 1
      /\ missed' = IF output[1].conn \notin table /\ sock[output[1].conn] = "open"
                   THEN missed \cup {output[1].conn} ELSE missed
      /\ output[1].conn \in Conns
  BY SendSlotEffect DEF Slot
<1>2. Named("Connected")' = Named("Connected")
  BY <1>1, NamedSame
<1>3. \A k \in 1..take : output[k].conn \notin Named("Connected") /\ Known(output[k].conn)
  BY <1>1, StageFacts DEF Heard, Roll, QueuesKnown
<1>4. \A k \in 1..take' : output'[k] = output[k + 1] /\ k + 1 \in 1..take
  <2>1. Len(output') = Len(output) - 1 /\ \A k \in 1..Len(output') : output'[k] = output[k + 1]
    <3>1. output \in Seq(Slot) /\ output # <<>> /\ output' = Tail(output)
      BY <1>1, StageFacts
    <3>2. QED
      BY ONLY <3>1, TailEffect
  <2>2. QED
    BY <1>1, <2>1, StageFacts
<1>5. missed' = {}
  <2>1. 1 \in 1..take
    BY <1>1, StageFacts
  <2>2. output[1].conn \notin table => sock[output[1].conn] # "open"
    BY <1>1, <1>3, <2>1, AnsweredGone
  <2>3. QED
    BY <1>1, <2>2 DEF Heard, NoReplyLost
<1>6. \A k \in 1..take' : output'[k].conn \notin Named("Connected")'
  BY <1>2, <1>3, <1>4
<1>7. \A k \in 1..snap' : early'[k].conn \notin Named("Connected")'
  BY <1>1, <1>2 DEF Heard
<1>8. QED
  BY <1>5, <1>6, <1>7 DEF Heard, NoReplyLost

LEMMA HeardFlush ==
  ASSUME Types, Heard, Flush
  PROVE  Heard'
<1>1. /\ UNCHANGED <<control, early, output, take, snap, missed>>
      /\ rpc \in {"idleFlush", "waitFlush", "slotFlush"} /\ rpc' \in {"read", "waiting", "turn"}
  BY FlushEffect DEF FlushRest
<1>2. Named("Connected")' = Named("Connected")
  BY <1>1, NamedSame
<1>3. QED
  BY <1>1, <1>2 DEF Heard, NoReplyLost

LEMMA HeardInit ==
  ASSUME PathInit
  PROVE  Heard
BY DEF PathInit, Heard, NoReplyLost

LEMMA HeardNext ==
  ASSUME Numbered, Types, Owned, Roll, Heard, [PathNext]_pathVars
  PROVE  Heard'
<1>1. ASSUME UNCHANGED <<rpc, take, snap, missed, output, early, control>> PROVE Heard'
  BY <1>1, HeardSame
<1>2. ASSUME NEW c \in Conns, Accept(c) \/ Close(c) PROVE Heard'
  BY <1>1, <1>2 DEF Accept, Close, stageVars
<1>3. ASSUME NEW c \in Conns, NEW k \in Kinds, Send(c, k) PROVE Heard'
  BY <1>1, <1>3 DEF Send, stageVars
<1>4. CASE Announce
  BY <1>4, HeardAnnounce
<1>5. CASE Kernel
  <2>1. KernelRest
    BY <1>5, KernelEffect DEF Types
  <2>2. QED
    BY <1>1, <2>1 DEF KernelRest, stageVars
<1>6. CASE Register
  BY <1>1, <1>6 DEF Register, stageVars
<1>7. CASE ProcessFrame
  BY <1>1, <1>7 DEF ProcessFrame, stageVars
<1>8. CASE EndCall
  BY <1>8, HeardEndCall
<1>9. ASSUME NEW v, TakeCqe(v) PROVE Heard'
  BY <1>9, HeardTakeCqe
<1>10. ASSUME NEW i \in Entries, NEW v, Retry(i, v) PROVE Heard'
  BY <1>1, <1>10 DEF Retry, stageVars
<1>11. ASSUME NEW i \in Entries, TimeOut(i) PROVE Heard'
  BY <1>11, HeardTimeOut
<1>12. CASE MatchStep
  BY <1>12, HeardMatch
<1>13. CASE Durable \/ UNCHANGED pathVars
  <2>1. UNCHANGED PathVars
    BY <1>13, DurableEffect
  <2>2. QED
    BY <1>1, <2>1 DEF PathVars, stageVars
<1>14. CASE Read \/ Snapshot \/ BeforeWait \/ WhileWaiting
  BY <1>14, HeardLook
<1>15. CASE Drain
  BY <1>15, HeardDrain
<1>16. CASE Idle \/ BeforeSlot \/ WaitRelease
  BY <1>16, HeardTurn
<1>17. CASE SendSlot
  BY <1>17, HeardSendSlot
<1>18. CASE Flush
  BY <1>18, HeardFlush
<1>19. QED
  BY StepCases, <1>2, <1>3, <1>4, <1>5, <1>6, <1>7, <1>8, <1>9, <1>10, <1>11, <1>12, <1>13, <1>14, <1>15,
     <1>16, <1>17, <1>18, Zenon

-----------------------------------------------------------------------------
(* Requests stay in order *)

LEMMA IdsTyped ==
  ASSUME NEW s \in Seq(Request)
  PROVE  Len(s) \in Nat /\ DOMAIN s = 1..Len(s) /\ \A k \in DOMAIN s : s[k].id \in Nat
<1>1. Len(s) \in Nat /\ DOMAIN s = 1..Len(s) /\ \A k \in 1..Len(s) : s[k] \in Request
  BY SeqFacts
<1>2. \A r \in Request : r.id \in Nat
  BY DEF Request
<1>3. QED
  BY <1>1, <1>2

LEMMA OrderTail ==
  ASSUME NEW s \in Seq(Request), s # <<>>, NEW t, t = Tail(s)
  PROVE  /\ Ascending(s) => Ascending(t) /\ Below(s[1].id, t)
         /\ \A n : Upto(s, n) => Upto(t, n)
         /\ \A u : Precede(s, u) => Precede(t, u)
         /\ \A n : Below(n, s) => Below(n, t)
<1>1. /\ Len(s) \in Nat /\ Len(s) >= 1 /\ Len(t) = Len(s) - 1 /\ DOMAIN t = 1..Len(t) /\ DOMAIN s = 1..Len(s)
      /\ \A k \in 1..Len(t) : t[k] = s[k + 1]
  BY TailEffect, SeqFacts
<1>2. \A k \in DOMAIN t : k + 1 \in DOMAIN s /\ t[k] = s[k + 1] /\ 1 < k + 1 /\ 1 \in DOMAIN s
  BY <1>1
<1>3. \A k, l \in DOMAIN t : k < l => k + 1 < l + 1
  BY <1>1
<1>4. Ascending(s) => Ascending(t) /\ Below(s[1].id, t)
  BY <1>2, <1>3 DEF Ascending, Below
<1>5. QED
  BY <1>2, <1>4 DEF Upto, Precede, Below

\* s is cut into p and t.
OrderParts(s, p, t) ==
  /\ Ascending(s) => Ascending(p) /\ Ascending(t) /\ Precede(p, t)
  /\ \A m : Upto(s, m) => Upto(p, m) /\ Upto(t, m)
  /\ \A u : Precede(u, s) => Precede(u, p) /\ Precede(u, t)
  /\ \A m : Below(m, s) => Below(m, p) /\ Below(m, t)

LEMMA OrderCut ==
  ASSUME NEW s \in Seq(Request), NEW n \in 0..Len(s), NEW p, p = SubSeq(s, 1, n),
         NEW t, t = SubSeq(s, n + 1, Len(s))
  PROVE  OrderParts(s, p, t)
<1>0. Len(s) \in Nat /\ DOMAIN s = 1..Len(s)
  BY SeqFacts
<1>1. DOMAIN p = 1..n /\ \A k \in 1..n : p[k] = s[k]
  BY PrefixEffect
<1>2. /\ Len(t) = Len(s) - n /\ DOMAIN t = 1..Len(t)
      /\ \A k \in 1..Len(t) : n + k \in 1..Len(s) /\ t[k] = s[n + k]
  BY SuffixEffect
<1>3. \A k \in DOMAIN p : k \in DOMAIN s /\ p[k] = s[k]
  BY <1>0, <1>1
<1>4. \A k \in DOMAIN t : n + k \in DOMAIN s /\ t[k] = s[n + k]
  BY <1>0, <1>2
<1>5. (\A k, l \in DOMAIN t : k < l => n + k < n + l) /\ (\A k \in DOMAIN p : \A l \in DOMAIN t : k < n + l)
  <2>0. n \in Nat /\ Len(t) \in Nat
    <3>1. n \in 0..Len(s) /\ Len(s) \in Nat /\ Len(t) = Len(s) - n
      BY <1>0, <1>2
    <3>2. QED
      BY ONLY <3>1
  <2>1. n \in Nat /\ (\A k \in DOMAIN t : k \in Nat /\ k >= 1) /\ (\A k \in DOMAIN p : k \in Nat /\ k <= n)
    <3>1. \A k \in 1..Len(t) : k \in Nat /\ k >= 1
      BY <2>0
    <3>2. \A k \in 1..n : k \in Nat /\ k <= n
      BY <2>0
    <3>3. QED
      BY <1>1, <1>2, <2>0, <3>1, <3>2
  <2>2. \A k, l \in Nat : (k < l => n + k < n + l) /\ (k <= n /\ l >= 1 => k < n + l)
    BY <2>1
  <2>3. QED
    BY <2>1, <2>2
<1>6. Ascending(s) => Ascending(p) /\ Ascending(t) /\ Precede(p, t)
  BY <1>3, <1>4, <1>5 DEF Ascending, Precede
<1>7. QED
  BY <1>3, <1>4, <1>6 DEF Upto, Precede, Below, OrderParts

\* t is s and then u.
OrderJoin(s, u, t) ==
  /\ Ascending(s) /\ Ascending(u) /\ Precede(s, u) => Ascending(t)
  /\ \A n : Upto(s, n) /\ Upto(u, n) => Upto(t, n)
  /\ \A v : Precede(s, v) /\ Precede(u, v) => Precede(t, v)
  /\ \A n : Below(n, s) /\ Below(n, u) => Below(n, t)
  /\ Len(t) \in Nat /\ Len(s) \in Nat /\ Len(s) <= Len(t)
  /\ \A k \in DOMAIN t : \/ k \in DOMAIN s /\ t[k] = s[k]
                         \/ k > Len(s) /\ \E l \in DOMAIN u : t[k] = u[l]

LEMMA OrderConcat ==
  ASSUME NEW s \in Seq(Request), NEW u \in Seq(Request), NEW t, t = s \o u
  PROVE  OrderJoin(s, u, t)
<1>0. Len(s) \in Nat /\ DOMAIN s = 1..Len(s) /\ Len(u) \in Nat /\ DOMAIN u = 1..Len(u)
  BY SeqFacts
<1>1. Len(t) = Len(s) + Len(u) /\ DOMAIN t = 1..Len(t)
  BY ConcatEffect
<1>2. ASSUME NEW k \in DOMAIN t
      PROVE  \/ k \in 1..Len(s) /\ t[k] = s[k]
             \/ k - Len(s) \in 1..Len(u) /\ t[k] = u[k - Len(s)] /\ k > Len(s)
  BY <1>2, ConcatSplit, Zenon
<1>3. Ascending(s) /\ Ascending(u) /\ Precede(s, u) => Ascending(t)
  <2>1. ASSUME Ascending(s), Ascending(u), Precede(s, u), NEW k \in DOMAIN t, NEW l \in DOMAIN t, k < l
        PROVE  t[k].id < t[l].id
    <3>0. k \in Nat /\ l \in Nat
      BY <1>0, <1>1, <2>1
    <3>1. CASE k \in 1..Len(s) /\ t[k] = s[k]
      BY <1>0, <1>2, <2>1, <3>1 DEF Ascending, Precede
    <3>2. CASE k - Len(s) \in 1..Len(u) /\ t[k] = u[k - Len(s)] /\ k > Len(s)
      <4>1. l - Len(s) \in 1..Len(u) /\ t[l] = u[l - Len(s)]
        BY <1>0, <1>2, <2>1, <3>0, <3>2
      <4>2. k - Len(s) < l - Len(s)
        BY <1>0, <2>1, <3>0
      <4>3. QED
        BY <1>0, <2>1, <3>2, <4>1, <4>2 DEF Ascending
    <3>3. QED
      BY <1>2, <3>1, <3>2
  <2>2. QED
    BY <2>1 DEF Ascending
<1>4. \A k \in DOMAIN t : \/ k \in DOMAIN s /\ t[k] = s[k]
                          \/ k > Len(s) /\ \E l \in DOMAIN u : t[k] = u[l]
  BY <1>0, <1>2
<1>5. \A k \in DOMAIN t : (\E l \in DOMAIN s : t[k] = s[l]) \/ (\E l \in DOMAIN u : t[k] = u[l])
  BY <1>4
<1>6. /\ \A n : Upto(s, n) /\ Upto(u, n) => Upto(t, n)
      /\ \A v : Precede(s, v) /\ Precede(u, v) => Precede(t, v)
      /\ \A n : Below(n, s) /\ Below(n, u) => Below(n, t)
  BY <1>5 DEF Upto, Precede, Below
<1>7. Len(s) <= Len(t) /\ Len(t) \in Nat
  BY <1>0, <1>1
<1>8. QED
  BY <1>0, <1>3, <1>4, <1>6, <1>7 DEF OrderJoin

LEMMA OrderAppend ==
  ASSUME NEW s \in Seq(Request), NEW n \in Nat, Upto(s, n), NEW e \in Request, e.id = n + 1,
         NEW t, t = Append(s, e)
  PROVE  /\ Ascending(s) => Ascending(t)
         /\ Upto(t, n + 1)
         /\ \A u \in Seq(Request) : Upto(u, n) /\ Precede(u, s) => Precede(u, t)
         /\ \A m \in Nat : m <= n /\ Below(m, s) => Below(m, t)
<1>0. Len(s) \in Nat /\ DOMAIN s = 1..Len(s) /\ \A k \in DOMAIN s : s[k].id \in Nat
  BY IdsTyped
<1>1. DOMAIN t = 1..(Len(s) + 1) /\ t[Len(s) + 1] = e /\ \A k \in 1..Len(s) : t[k] = s[k]
  BY AppendEffect
<1>2. \A k \in DOMAIN t : (k \in DOMAIN s /\ t[k] = s[k]) \/ (k = Len(s) + 1 /\ t[k] = e)
  BY <1>0, <1>1
<1>3. \A k \in DOMAIN s : s[k].id < n + 1
  BY <1>0 DEF Upto
<1>4. \A k \in DOMAIN s : ~(Len(s) + 1 < k)
  BY <1>0
<1>5. Ascending(s) => Ascending(t)
  <2>1. ASSUME Ascending(s), NEW k \in DOMAIN t, NEW l \in DOMAIN t, k < l PROVE t[k].id < t[l].id
    <3>1. k \in DOMAIN s /\ t[k] = s[k]
      BY <1>0, <1>2, <2>1
    <3>2. QED
      BY <1>2, <1>3, <2>1, <3>1 DEF Ascending
  <2>2. QED
    BY <2>1 DEF Ascending
<1>6. Upto(t, n + 1)
  BY <1>0, <1>2, <1>3 DEF Upto
<1>7. ASSUME NEW u \in Seq(Request), Upto(u, n), Precede(u, s) PROVE Precede(u, t)
  <2>1. \A k \in DOMAIN u : u[k].id \in Nat /\ u[k].id < n + 1
    BY <1>7, IdsTyped DEF Upto
  <2>2. QED
    BY <1>2, <1>7, <2>1 DEF Precede
<1>8. ASSUME NEW m \in Nat, m <= n, Below(m, s) PROVE Below(m, t)
  <2>1. m < n + 1
    BY <1>8
  <2>2. QED
    BY <1>2, <1>8, <2>1 DEF Below
<1>9. QED
  BY <1>5, <1>6, <1>7, <1>8

OrderedVars == <<slab, buf, shed, regs, wire, sent, cq, onRing, tails>>

\* The order is kept, and what is past the reader stays so.
OrderStep == Ordered' /\ \A c, n \in Nat : Past(c, n) => Past(c, n)'

LEMMA OrderedSame ==
  ASSUME Ordered, UNCHANGED OrderedVars
  PROVE  OrderStep
<1>0. UNCHANGED <<slab, buf, shed, regs, wire, sent, cq, onRing, tails>>
  BY DEF OrderedVars
<1>1. Placed' /\ WireOrdered' /\ ShedStaysShed'
  BY <1>0 DEF Ordered, Placed, WireOrdered, ShedStaysShed, Entries
<1>2. CqOrdered'
  BY <1>0 DEF Ordered, CqOrdered
<1>3. BufOrdered'
  BY <1>0 DEF Ordered, BufOrdered, Entries
<1>4. PastKept' /\ \A c, n \in Nat : Past(c, n) => Past(c, n)'
  BY <1>0 DEF Ordered, PastKept, Past, ShedPast, Fetched, Entries
<1>5. QED
  BY <1>1, <1>2, <1>3, <1>4 DEF Ordered, OrderStep

LEMMA OrderedInit ==
  ASSUME PathInit
  PROVE  Ordered
<1>1. Entries = {} /\ DOMAIN regs = {} /\ DOMAIN cq = {} /\ onRing = {} /\ tails = {}
  BY DEF PathInit, Entries
<1>2. \A c \in Conns : DOMAIN wire[c] = {}
  BY DEF PathInit
<1>3. WireOrdered
  BY <1>2 DEF WireOrdered, Ascending, Upto
<1>4. QED
  BY <1>1, <1>3 DEF Ordered, Placed, CqOrdered, BufOrdered, PastKept, ShedStaysShed

\* What the ordering says of entry i once it holds c, with buffer b and s to shed.
Fits(i, c, b, s) ==
  /\ Ascending(b) /\ Upto(b, sent[c]) /\ Precede(b, wire[c])
  /\ \A k \in DOMAIN cq' : cq'[k].idx = i => Precede(b, cq'[k].frames)
  /\ \A n : Past(c, n) => Below(n, b)
  /\ \A n : ShedPast(c, n) => \A k \in DOMAIN b : k > s => n < b[k].id

\* A step of the reader on one entry.
EntryStep(i, c, b, s) ==
  /\ \E r : Becomes(i, c, r, b, s)
  /\ Entries' = Entries /\ c \in {slab[i], 0}
  /\ cq' = cq \/ (cq # <<>> /\ cq' = Tail(cq))
  /\ UNCHANGED <<wire, sent, regs>>
  /\ s <= Len(b)
  /\ c # 0 => Fits(i, c, b, s)

LEMMA OrderedMoved ==
  ASSUME Numbered, Types, Owned, Owned', Ordered, NEW i \in Entries, NEW c, NEW b, NEW s, EntryStep(i, c, b, s)
  PROVE  /\ Placed' /\ WireOrdered' /\ CqOrdered' /\ BufOrdered'
         /\ \A d, n : (Past(d, n) => Past(d, n)') /\ (ShedPast(d, n) => ShedPast(d, n)')
         /\ \A j \in Entries' : shed'[j] <= Len(buf'[j])
<1>0. SlabTypes /\ CqOwned /\ CqOwned' /\ Placed /\ WireOrdered /\ CqOrdered /\ BufOrdered /\ PastKept
  BY DEF Types, Owned, Ordered
<1>1. PICK r : Becomes(i, c, r, b, s)
  BY DEF EntryStep
<1>2. /\ Entries' = Entries /\ c \in {slab[i], 0} /\ UNCHANGED <<wire, sent, regs>> /\ s <= Len(b)
      /\ (c # 0 => Fits(i, c, b, s)) /\ (cq' = cq \/ (cq # <<>> /\ cq' = Tail(cq)))
  BY DEF EntryStep
<1>3. /\ slab'[i] = c /\ buf'[i] = b /\ shed'[i] = s
      /\ \A j \in Entries : j # i => slab'[j] = slab[j] /\ buf'[j] = buf[j] /\ shed'[j] = shed[j]
  BY <1>1 DEF Becomes
<1>4. \A j \in Entries : slab'[j] # 0 => slab'[j] = slab[j]
  BY <1>2, <1>3
<1>5. PICK d \in {0, 1} : \A k \in DOMAIN cq' : k \in Nat /\ k + d \in DOMAIN cq /\ cq'[k] = cq[k + d]
  BY <1>0, <1>2, CqShift
<1>6. Placed'
  <2>1. \A k \in DOMAIN regs : regs[k] # 0
    BY SeqFacts DEF Types, AcceptTypes, Numbered
  <2>2. QED
    BY <1>0, <1>2, <1>4, <2>1 DEF Placed
<1>7. WireOrdered'
  BY <1>0, <1>2 DEF WireOrdered
<1>8. ASSUME NEW k \in DOMAIN cq'
      PROVE  /\ cq'[k].idx \in Entries /\ slab'[cq'[k].idx] # 0 /\ slab'[cq'[k].idx] = slab[cq'[k].idx]
             /\ \E m \in DOMAIN cq : cq'[k] = cq[m]
  <2>1. cq'[k].idx \in Entries' /\ slab'[cq'[k].idx] # 0
    BY <1>0, <1>8 DEF CqOwned
  <2>2. QED
    BY <1>2, <1>4, <1>5, <1>8, <2>1
<1>9. CqOrdered'
  <2>1. ASSUME NEW k \in DOMAIN cq'
        PROVE  /\ Ascending(cq'[k].frames) /\ Upto(cq'[k].frames, sent'[slab'[cq'[k].idx]])
               /\ Precede(cq'[k].frames, wire'[slab'[cq'[k].idx]])
               /\ Precede(buf'[cq'[k].idx], cq'[k].frames)
    <3> DEFINE q == cq'[k]
    <3>1. q.idx \in Entries /\ slab'[q.idx] # 0 /\ slab'[q.idx] = slab[q.idx]
      BY <1>8, <2>1
    <3>2. PICK m \in DOMAIN cq : q = cq[m]
      BY <1>8, <2>1
    <3>3. q.idx = i => c # 0 /\ Precede(b, q.frames)
      BY <1>2, <1>3, <2>1, <3>1 DEF Fits
    <3> HIDE DEF q
    <3>4. /\ Ascending(q.frames) /\ Upto(q.frames, sent[slab[q.idx]])
          /\ Precede(q.frames, wire[slab[q.idx]]) /\ Precede(buf[q.idx], q.frames)
      BY <1>0, <3>2 DEF CqOrdered
    <3>5. Precede(buf'[q.idx], q.frames)
      BY <1>3, <3>1, <3>3, <3>4
    <3>6. /\ Ascending(q.frames) /\ Upto(q.frames, sent'[slab'[q.idx]])
          /\ Precede(q.frames, wire'[slab'[q.idx]]) /\ Precede(buf'[q.idx], q.frames)
      BY <1>2, <3>1, <3>4, <3>5
    <3>7. QED
      BY <3>6 DEF q
  <2>2. ASSUME NEW k \in DOMAIN cq', NEW l \in DOMAIN cq', k < l, cq'[k].idx = cq'[l].idx
        PROVE  Precede(cq'[k].frames, cq'[l].frames)
    <3> DEFINE m == k + d
               n == l + d
    <3>1. k + d < l + d
      BY <1>5, <2>2
    <3>2. m \in DOMAIN cq /\ n \in DOMAIN cq /\ m < n /\ cq'[k] = cq[m] /\ cq'[l] = cq[n]
      BY <1>5, <2>2, <3>1
    <3> HIDE DEF m, n
    <3>3. QED
      BY <1>0, <2>2, <3>2 DEF CqOrdered
  <2>3. QED
    BY <2>1, <2>2 DEF CqOrdered
<1>10. BufOrdered'
  <2>1. ASSUME NEW j \in Entries', slab'[j] # 0
        PROVE  Ascending(buf'[j]) /\ Upto(buf'[j], sent'[slab'[j]]) /\ Precede(buf'[j], wire'[slab'[j]])
    <3>1. CASE j = i
      BY <1>2, <1>3, <2>1, <3>1 DEF Fits
    <3>2. CASE j # i
      BY <1>0, <1>2, <1>3, <2>1, <3>2 DEF BufOrdered
    <3>3. QED
      BY <3>1, <3>2
  <2>2. QED
    BY <2>1 DEF BufOrdered
<1>11. ASSUME NEW e, NEW n, Fetched(e, n) PROVE Fetched(e, n)'
  <2>1. n <= sent'[e] /\ Below(n, wire'[e])
    BY <1>2, <1>11 DEF Fetched
  <2>2. ASSUME NEW k \in DOMAIN cq', slab'[cq'[k].idx] = e PROVE Below(n, cq'[k].frames)
    BY <1>8, <1>11, <2>2 DEF Fetched
  <2>3. QED
    BY <2>1, <2>2 DEF Fetched
<1>12. ASSUME NEW e, NEW n, Past(e, n) PROVE Past(e, n)'
  <2>1. ASSUME NEW j \in Entries', slab'[j] = e PROVE Below(n, buf'[j])
    <3>1. CASE j = i /\ c # 0
      BY <1>2, <1>3, <1>12, <2>1, <3>1 DEF Fits
    <3>2. CASE j # i
      BY <1>2, <1>3, <1>12, <2>1, <3>2 DEF Past
    <3>3. CASE j = i /\ c = 0
      <4>1. b = <<>>
        <5>1. FreeVacant'
          BY DEF Owned
        <5>2. QED
          BY <1>2, <1>3, <3>3, <5>1 DEF FreeVacant
      <4>2. QED
        BY <1>3, <3>3, <4>1 DEF Below
    <3>4. QED
      BY <3>1, <3>2, <3>3
  <2>2. QED
    BY <1>11, <1>12, <2>1 DEF Past
<1>13. ASSUME NEW e, NEW n, ShedPast(e, n) PROVE ShedPast(e, n)'
  <2>1. ASSUME NEW j \in Entries', slab'[j] = e, NEW k \in DOMAIN (buf'[j]), k > shed'[j] PROVE n < buf'[j][k].id
    <3>1. CASE j = i /\ c # 0
      BY <1>2, <1>3, <1>13, <2>1, <3>1 DEF Fits
    <3>2. CASE j # i
      BY <1>2, <1>3, <1>13, <2>1, <3>2 DEF ShedPast
    <3>3. CASE j = i /\ c = 0
      <4>1. b = <<>>
        <5>1. FreeVacant'
          BY DEF Owned
        <5>2. QED
          BY <1>2, <1>3, <3>3, <5>1 DEF FreeVacant
      <4>2. QED
        BY <1>3, <2>1, <3>3, <4>1
    <3>4. QED
      BY <3>1, <3>2, <3>3
  <2>2. QED
    BY <1>11, <1>13, <2>1 DEF ShedPast
<1>14. \A j \in Entries' : shed'[j] <= Len(buf'[j])
  BY <1>0, <1>2, <1>3 DEF PastKept
<1>15. QED
  BY <1>6, <1>7, <1>9, <1>10, <1>12, <1>13, <1>14

\* When no request is taken or shed, the order is kept.
LEMMA OrderedKept ==
  ASSUME Numbered, Types, Owned, Owned', Ordered, NEW i \in Entries, NEW c, NEW b, NEW s, EntryStep(i, c, b, s),
         onRing' = onRing, tails' = tails
  PROVE  OrderStep
<1>1. /\ Placed' /\ WireOrdered' /\ CqOrdered' /\ BufOrdered'
      /\ \A d, n : (Past(d, n) => Past(d, n)') /\ (ShedPast(d, n) => ShedPast(d, n)')
      /\ \A j \in Entries' : shed'[j] <= Len(buf'[j])
  BY OrderedMoved
<1>2. PastKept'
  <2>1. \A p \in onRing' : Past(p[1], p[2])'
    <3>1. ASSUME NEW p \in onRing PROVE Past(p[1], p[2])'
      BY <1>1, <3>1 DEF Ordered, PastKept
    <3>2. QED
      BY <3>1
  <2>2. \A p \in tails' : ShedPast(p[1], p[2])'
    <3>1. ASSUME NEW p \in tails PROVE ShedPast(p[1], p[2])'
      BY <1>1, <3>1 DEF Ordered, PastKept
    <3>2. QED
      BY <3>1
  <2>3. QED
    BY <1>1, <2>1, <2>2 DEF PastKept
<1>3. QED
  BY <1>1, <1>2 DEF Ordered, ShedStaysShed, OrderStep

\* An entry whose buffer stays, or is let go of.
LEMMA FitsStays ==
  ASSUME Types, Owned, Owned', Ordered, NEW i \in Entries, slab[i] # 0,
         cq' = cq \/ (cq # <<>> /\ cq' = Tail(cq))
  PROVE  Fits(i, slab[i], buf[i], shed[i]) /\ shed[i] <= Len(buf[i])
<1>1. /\ Ascending(buf[i]) /\ Upto(buf[i], sent[slab[i]]) /\ Precede(buf[i], wire[slab[i]])
      /\ shed[i] <= Len(buf[i])
  BY DEF Ordered, BufOrdered, PastKept
<1>2. ASSUME NEW k \in DOMAIN cq', cq'[k].idx = i PROVE Precede(buf[i], cq'[k].frames)
  <2>1. PICK m \in DOMAIN cq : cq'[k] = cq[m]
    BY <1>2, CqShift DEF Types
  <2>2. QED
    BY <1>2, <2>1 DEF Ordered, CqOrdered
<1>3. \A n : Past(slab[i], n) => Below(n, buf[i])
  BY DEF Past
<1>4. \A n : ShedPast(slab[i], n) => \A k \in DOMAIN buf[i] : k > shed[i] => n < buf[i][k].id
  BY DEF ShedPast
<1>5. QED
  BY <1>1, <1>2, <1>3, <1>4 DEF Fits

LEMMA OrderedTeardown ==
  ASSUME Numbered, Types, Owned, Owned', Ordered, NEW i \in Entries, slab[i] # 0, recv[i] # "Dying",
         BeginTeardown(i), UNCHANGED <<cq, wire, sent, regs, onRing, tails>>
  PROVE  OrderStep
<1>1. /\ Entries' = Entries
      /\ Becomes(i, 0, "Idle", <<>>, 0) \/ Becomes(i, slab[i], "Dying", buf[i], shed[i])
  BY TeardownEffect DEF Types
<1>2. Fits(i, slab[i], buf[i], shed[i]) /\ shed[i] <= Len(buf[i])
  BY FitsStays
<1>3. CASE Becomes(i, 0, "Idle", <<>>, 0)
  <2>1. EntryStep(i, 0, <<>>, 0)
    BY <1>1, <1>3 DEF EntryStep
  <2>2. QED
    BY <2>1, OrderedKept
<1>4. CASE Becomes(i, slab[i], "Dying", buf[i], shed[i])
  <2>1. EntryStep(i, slab[i], buf[i], shed[i])
    BY <1>1, <1>2, <1>4 DEF EntryStep
  <2>2. QED
    BY <2>1, OrderedKept
<1>5. QED
  BY <1>1, <1>3, <1>4

LEMMA OrderedTimeOut ==
  ASSUME Numbered, Types, Owned, Owned', Ordered, NEW i \in Entries, TimeOut(i)
  PROVE  OrderStep
<1>1. TimeOutRest /\ slab[i] # 0 /\ recv[i] # "Dying" /\ BeginTeardown(i)
  BY DEF TimeOut, TimeOutRest
<1>2. UNCHANGED <<cq, wire, sent, regs, onRing, tails>>
  BY <1>1 DEF TimeOutRest, acceptVars, clientVars
<1>3. QED
  BY <1>1, <1>2, OrderedTeardown

LEMMA OrderedEndCall ==
  ASSUME Numbered, Types, Owned, Owned', Ordered, EndCall
  PROVE  OrderStep
<1>1. UNCHANGED <<cq, wire, sent, regs, onRing, tails>>
  BY DEF EndCall, acceptVars, clientVars
<1>2. SlabTypes /\ BusyOwned
  BY DEF Types, Owned
<1>3. busy # 0 /\ (BeginTeardown(busy) \/ (CallLeaves(busy) /\ Entries' = Entries))
  BY <1>2, EndCallEffect
<1>4. busy \in Entries /\ slab[busy] # 0 /\ recv[busy] # "Dying"
  BY <1>2, <1>3, BusyFacts
<1>5. CASE BeginTeardown(busy)
  BY <1>1, <1>4, <1>5, OrderedTeardown
<1>6. CASE CallLeaves(busy) /\ Entries' = Entries
  <2>1. \E r : Becomes(busy, slab[busy], r, buf[busy], shed[busy])
    BY <1>6 DEF CallLeaves
  <2>2. Fits(busy, slab[busy], buf[busy], shed[busy]) /\ shed[busy] <= Len(buf[busy])
    BY <1>1, <1>4, FitsStays
  <2>3. EntryStep(busy, slab[busy], buf[busy], shed[busy])
    BY <1>1, <1>6, <2>1, <2>2 DEF EntryStep
  <2>4. QED
    BY <1>1, <1>4, <2>3, OrderedKept
<1>7. QED
  BY <1>3, <1>5, <1>6

LEMMA OrderedTakeCqe ==
  ASSUME Numbered, Types, Owned, Owned', Ordered, NEW v, TakeCqe(v)
  PROVE  OrderStep
<1>1. UNCHANGED <<wire, sent, regs, onRing, tails>>
  BY DEF TakeCqe, acceptVars, clientVars
<1>2. SlabTypes /\ CqOwned /\ BusyOwned
  BY DEF Types, Owned
<1>3. /\ cq # <<>> /\ cq' = Tail(cq) /\ Entries' = Entries
      /\ CqeKept(cq[1].idx, cq[1]) \/ CqeArms(cq[1].idx, cq[1]) \/ CqeVacates(cq[1].idx, cq[1])
  BY <1>2, TakeCqeEffect
<1> DEFINE q == cq[1]
           i == q.idx
<1>4. 1 \in DOMAIN cq /\ i \in Entries /\ slab[i] # 0 /\ q.frames \in Seq(Request)
  BY <1>2, <1>3, HeadCqe
<1>5. buf[i] \in Seq(Request) /\ shed[i] \in Nat
  BY <1>2, <1>4, SlabFacts
<1>6. Fits(i, slab[i], buf[i], shed[i]) /\ shed[i] <= Len(buf[i])
  BY <1>3, <1>4, FitsStays
<1>7. /\ Ascending(q.frames) /\ Upto(q.frames, sent[slab[i]]) /\ Precede(q.frames, wire[slab[i]])
      /\ Precede(buf[i], q.frames)
  BY <1>4 DEF Ordered, CqOrdered
<1>8. \A k \in DOMAIN cq' : cq'[k].idx = i => Precede(q.frames, cq'[k].frames)
  <2>0. cq \in Seq(Completion) /\ cq # <<>> /\ cq' = Tail(cq)
    BY <1>2, <1>3 DEF SlabTypes
  <2>1. /\ Len(cq) \in Nat /\ Len(cq) >= 1 /\ Len(cq') = Len(cq) - 1 /\ DOMAIN cq' = 1..Len(cq')
        /\ DOMAIN cq = 1..Len(cq) /\ \A k \in 1..Len(cq') : cq'[k] = cq[k + 1]
    BY ONLY <2>0, TailEffect, SeqFacts
  <2>2. ASSUME NEW k \in DOMAIN cq', cq'[k].idx = i PROVE Precede(q.frames, cq'[k].frames)
    <3> DEFINE m == k + 1
    <3>1. m \in DOMAIN cq /\ 1 < m /\ cq'[k] = cq[m]
      BY <2>1, <2>2
    <3> HIDE DEF m
    <3>2. QED
      BY <1>4, <2>2, <3>1 DEF Ordered, CqOrdered
  <2>3. QED
    BY <2>2
<1>9. \A n : Fetched(slab[i], n) => Below(n, q.frames)
  BY <1>4 DEF Fetched
<1>10. CqeKept(i, q) \/ CqeArms(i, q) \/ CqeVacates(i, q)
  BY <1>3
<1> HIDE DEF q, i
<1>11. ASSUME \E r : Becomes(i, slab[i], r, buf[i], shed[i]) PROVE OrderStep
  <2>1. EntryStep(i, slab[i], buf[i], shed[i])
    BY <1>1, <1>3, <1>6, <1>11 DEF EntryStep
  <2>2. QED
    BY <1>1, <1>4, <2>1, OrderedKept
<1>12. ASSUME \E r : Becomes(i, slab[i], r, buf[i] \o q.frames, shed[i]) PROVE OrderStep
  <2> DEFINE b == buf[i] \o q.frames
  <2>1. b = buf[i] \o q.frames
    OBVIOUS
  <2> HIDE DEF b
  <2>2. /\ Ascending(buf[i]) /\ Ascending(q.frames) /\ Precede(buf[i], q.frames) => Ascending(b)
        /\ \A n : Upto(buf[i], n) /\ Upto(q.frames, n) => Upto(b, n)
        /\ \A u : Precede(buf[i], u) /\ Precede(q.frames, u) => Precede(b, u)
        /\ \A n : Below(n, buf[i]) /\ Below(n, q.frames) => Below(n, b)
        /\ Len(b) \in Nat /\ Len(buf[i]) \in Nat /\ Len(buf[i]) <= Len(b)
        /\ \A k \in DOMAIN b : \/ k \in DOMAIN buf[i] /\ b[k] = buf[i][k]
                               \/ k > Len(buf[i]) /\ \E l \in DOMAIN q.frames : b[k] = q.frames[l]
    <3> DEFINE x == buf[i]
               y == q.frames
    <3>1. x \in Seq(Request) /\ y \in Seq(Request) /\ b = x \o y
      BY <1>4, <1>5, <2>1
    <3> HIDE DEF x, y
    <3>2. OrderJoin(x, y, b)
      BY ONLY <3>1, OrderConcat
    <3>3. QED
      BY <3>2 DEF x, y, OrderJoin
  <2>3. Ascending(b) /\ Upto(b, sent[slab[i]]) /\ Precede(b, wire[slab[i]])
    BY <1>6, <1>7, <2>2 DEF Fits
  <2>4. \A k \in DOMAIN cq' : cq'[k].idx = i => Precede(b, cq'[k].frames)
    BY <1>6, <1>8, <2>2 DEF Fits
  <2>5. \A n : Past(slab[i], n) => Below(n, b)
    BY <1>6, <1>9, <2>2 DEF Fits, Past
  <2>6. ASSUME NEW n, ShedPast(slab[i], n), NEW k \in DOMAIN b, k > shed[i] PROVE n < b[k].id
    <3>1. Below(n, q.frames)
      BY <1>9, <2>6 DEF ShedPast
    <3>2. QED
      BY <1>6, <2>2, <2>6, <3>1 DEF Fits, Below
  <2>7. Fits(i, slab[i], b, shed[i])
    BY <2>3, <2>4, <2>5, <2>6 DEF Fits
  <2>8. shed[i] <= Len(b)
    BY <1>5, <1>6, <2>2
  <2>9. \E r : Becomes(i, slab[i], r, b, shed[i])
    BY <1>12 DEF b
  <2>10. EntryStep(i, slab[i], b, shed[i])
    BY <1>1, <1>3, <2>7, <2>8, <2>9 DEF EntryStep
  <2>11. QED
    BY <1>1, <1>4, <2>10, OrderedKept
<1>13. CASE CqeKept(i, q)
  BY <1>11, <1>12, <1>13 DEF CqeKept
<1>14. CASE CqeArms(i, q)
  BY <1>11, <1>14 DEF CqeArms
<1>15. CASE CqeVacates(i, q)
  <2>1. \E r : Becomes(i, 0, r, <<>>, 0)
    BY <1>15 DEF CqeVacates
  <2>2. EntryStep(i, 0, <<>>, 0)
    BY <1>1, <1>3, <2>1 DEF EntryStep
  <2>3. QED
    BY <1>1, <1>4, <2>2, OrderedKept
<1>16. QED
  BY <1>10, <1>13, <1>14, <1>15

\* What holds of the frames of a call: they are past the socket and the completions,
\* and not on the ring.
LEMMA FrameFacts ==
  ASSUME Types, Owned, Ordered, NEW i \in Entries, NEW c, c = slab[i], c # 0, NEW b, b = buf[i]
  PROVE  /\ b \in Seq(Request) /\ shed[i] \in Nat
         /\ \A n : Past(c, n) <=> Fetched(c, n) /\ Below(n, b)
         /\ \A n : ShedPast(c, n) <=> Fetched(c, n) /\ \A k \in DOMAIN b : k > shed[i] => n < b[k].id
         /\ \A k \in DOMAIN b : Fetched(c, b[k].id)
         /\ \A k \in DOMAIN b : <<c, b[k].id>> \notin onRing
<1>1. b \in Seq(Request) /\ shed[i] \in Nat
  BY SlabFacts DEF Types
<1>2. \A j \in Entries : slab[j] = c <=> j = i
  BY DEF Ordered, Placed
<1>3. \A n : Past(c, n) <=> Fetched(c, n) /\ Below(n, b)
  BY <1>2 DEF Past
<1>4. \A n : ShedPast(c, n) <=> Fetched(c, n) /\ \A k \in DOMAIN b : k > shed[i] => n < b[k].id
  BY <1>2 DEF ShedPast
<1>5. ASSUME NEW k \in DOMAIN b PROVE Fetched(c, b[k].id)
  <2>1. b[k].id <= sent[c] /\ Below(b[k].id, wire[c])
    BY <1>5 DEF Ordered, BufOrdered, Upto, Precede, Below
  <2>2. ASSUME NEW m \in DOMAIN cq, slab[cq[m].idx] = c PROVE Below(b[k].id, cq[m].frames)
    <3>1. cq[m].idx = i
      BY <1>2, <2>2 DEF Owned, CqOwned
    <3>2. Precede(b, cq[m].frames)
      BY <2>2, <3>1 DEF Ordered, CqOrdered
    <3>3. QED
      BY <1>5, <3>2 DEF Precede, Below
  <2>3. QED
    BY <2>1, <2>2 DEF Fetched
<1>6. ASSUME NEW k \in DOMAIN b, <<c, b[k].id>> \in onRing PROVE FALSE
  <2>1. Past(c, b[k].id)
    BY <1>6 DEF Ordered, PastKept
  <2>2. b[k].id < b[k].id /\ b[k].id \in Nat
    BY <1>1, <1>3, <1>6, <2>1, IdsTyped DEF Below
  <2>3. QED
    BY <2>2
<1>7. QED
  BY <1>1, <1>3, <1>4, <1>5, <1>6

\* A step on one entry leaves what is fetched fetched.
LEMMA FetchedStays ==
  ASSUME Owned, NEW i \in Entries, NEW c, c = slab[i], NEW r, NEW b, NEW s, Becomes(i, c, r, b, s),
         UNCHANGED <<wire, sent, cq>>, NEW n, Fetched(c, n)
  PROVE  Fetched(c, n)'
<1>1. n <= sent'[c] /\ Below(n, wire'[c])
  BY DEF Fetched
<1>2. ASSUME NEW m \in DOMAIN cq', slab'[cq'[m].idx] = c PROVE Below(n, cq'[m].frames)
  <2>1. m \in DOMAIN cq /\ cq'[m] = cq[m] /\ cq[m].idx \in Entries
    BY <1>2 DEF Owned, CqOwned
  <2>2. slab[cq[m].idx] = c
    BY <1>2, <2>1 DEF Becomes
  <2>3. QED
    BY <2>1, <2>2 DEF Fetched
<1>3. QED
  BY <1>1, <1>2 DEF Fetched

\* The rest of the buffer is shed: none of it is on the ring, all of it is to shed.
LEMMA OrderedShed ==
  ASSUME Numbered, Types, Owned, Owned', Ordered, NEW i \in Entries, slab[i] # 0,
         NEW b, NEW s, NEW r, Becomes(i, slab[i], r, b, s), EntryStep(i, slab[i], b, s),
         \A k \in DOMAIN b : ~(k > s), UNCHANGED <<wire, sent, cq>>,
         onRing' = onRing, tails' = tails \cup TailOf(i)
  PROVE  OrderStep
<1>0. PICK c : c = slab[i]
  OBVIOUS
<1>1. PICK a : a = buf[i]
  OBVIOUS
<1>2. /\ Placed' /\ WireOrdered' /\ CqOrdered' /\ BufOrdered'
      /\ \A d, n : (Past(d, n) => Past(d, n)') /\ (ShedPast(d, n) => ShedPast(d, n)')
      /\ \A j \in Entries' : shed'[j] <= Len(buf'[j])
  BY OrderedMoved
<1>3. (\A k \in DOMAIN a : Fetched(c, a[k].id)) /\ \A k \in DOMAIN a : <<c, a[k].id>> \notin onRing
  BY <1>0, <1>1, FrameFacts
<1>4. slab'[i] = c /\ buf'[i] = b /\ shed'[i] = s /\ i \in Entries'
  BY <1>0 DEF Becomes
<1>5. ASSUME NEW n, Fetched(c, n) PROVE ShedPast(c, n)'
  <2>1. Fetched(c, n)'
    BY <1>0, <1>5, FetchedStays
  <2>2. ASSUME NEW j \in Entries', slab'[j] = c, NEW l \in DOMAIN (buf'[j]), l > shed'[j] PROVE n < buf'[j][l].id
    <3>1. j = i
      BY <1>0, <1>2, <1>4, <2>2 DEF Placed
    <3>2. QED
      BY <1>4, <2>2, <3>1
  <2>3. QED
    BY <2>1, <2>2 DEF ShedPast
<1>6. TailOf(i) = {<<c, a[k].id>> : k \in DOMAIN a}
  BY <1>0, <1>1 DEF TailOf
<1>7. ASSUME NEW p \in tails' PROVE ShedPast(p[1], p[2])'
  <2>1. CASE p \in tails
    BY <1>2, <2>1 DEF Ordered, PastKept
  <2>2. CASE p \in TailOf(i)
    <3>1. PICK k \in DOMAIN a : p = <<c, a[k].id>>
      BY <1>6, <2>2
    <3>2. p[1] = c /\ p[2] = a[k].id /\ Fetched(c, a[k].id)
      BY <1>3, <3>1
    <3>3. Fetched(c, p[2])
      BY <3>2
    <3>4. ShedPast(c, p[2])'
      BY <1>5, <3>3
    <3>5. QED
      BY <3>2, <3>4
  <2>3. QED
    BY <1>7, <2>1, <2>2
<1>8. ASSUME NEW p \in onRing' PROVE Past(p[1], p[2])'
  BY <1>2, <1>8 DEF Ordered, PastKept
<1>9. tails' \cap onRing' = {}
  BY <1>3, <1>6 DEF Ordered, ShedStaysShed
<1>10. QED
  BY <1>2, <1>7, <1>8, <1>9 DEF Ordered, PastKept, ShedStaysShed, OrderStep

LEMMA OrderedProcessFrame ==
  ASSUME Numbered, Types, Owned, Owned', Ordered, ProcessFrame
  PROVE  OrderStep
<1>1. UNCHANGED <<wire, sent, regs, cq>>
  BY DEF ProcessFrame, acceptVars, clientVars
<1>2. SlabTypes /\ BusyOwned
  BY DEF Types, Owned
<1>3. /\ busy # 0 /\ buf[busy] # <<>> /\ Entries' = Entries
      /\ FrameAnswered(busy) \/ FrameParks(busy) \/ FrameTaken(busy)
  BY <1>2, ProcessFrameEffect
<1>4. PICK i : i = busy
  OBVIOUS
<1>5. PICK c : c = slab[i]
  OBVIOUS
<1>6. PICK b : b = buf[i]
  OBVIOUS
<1>7. PICK t : t = Tail(b)
  OBVIOUS
<1>8. i \in Entries /\ c # 0 /\ b \in Seq(Request) /\ shed[i] \in Nat /\ b # <<>>
  BY <1>2, <1>3, <1>4, <1>5, <1>6, BusyFacts
<1>9. Fits(i, c, b, shed[i]) /\ shed[i] <= Len(b)
  BY <1>1, <1>5, <1>6, <1>8, FitsStays
<1>10. /\ Ascending(b) => Ascending(t) /\ Below(b[1].id, t)
       /\ \A n : Upto(b, n) => Upto(t, n)
       /\ \A u : Precede(b, u) => Precede(t, u)
       /\ \A n : Below(n, b) => Below(n, t)
  BY <1>7, <1>8, OrderTail
<1>11. /\ Len(b) \in Nat /\ Len(b) >= 1 /\ Len(t) = Len(b) - 1 /\ DOMAIN t = 1..Len(t) /\ DOMAIN b = 1..Len(b)
       /\ \A k \in 1..Len(t) : t[k] = b[k + 1]
  BY <1>7, <1>8, TailEffect, SeqFacts
<1>12. /\ \A n : Past(c, n) <=> Fetched(c, n) /\ Below(n, b)
       /\ \A n : ShedPast(c, n) <=> Fetched(c, n) /\ \A k \in DOMAIN b : k > shed[i] => n < b[k].id
       /\ \A k \in DOMAIN b : Fetched(c, b[k].id)
       /\ \A k \in DOMAIN b : <<c, b[k].id>> \notin onRing
  BY <1>5, <1>6, <1>8, FrameFacts
<1>13. \A k \in DOMAIN t : k + 1 \in DOMAIN b /\ t[k] = b[k + 1] /\ k \in Nat
  BY <1>11
<1>14. \A s \in Nat : s <= Len(t) /\ (\A n : ShedPast(c, n) => \A k \in DOMAIN t : k > s => n < t[k].id)
          => Fits(i, c, t, s)
  BY <1>9, <1>10, <1>12 DEF Fits
<1>15. ASSUME NEW n, ShedPast(c, n), NEW k \in DOMAIN t, k + 1 > shed[i] PROVE n < t[k].id
  BY <1>12, <1>13, <1>15
<1>16. ASSUME NEW x, NEW s, Becomes(i, c, recv[i], x, s), s <= Len(x), Fits(i, c, x, s)
       PROVE  EntryStep(i, c, x, s)
  BY <1>1, <1>3, <1>5, <1>16 DEF EntryStep
<1>17. CASE FrameAnswered(i)
  <2>1. PICK s \in Nat : /\ Becomes(i, c, recv[i], t, s)
                         /\ \/ tails' = tails /\ s = (IF shed[i] > 0 THEN shed[i] - 1 ELSE 0)
                            \/ shed[i] = 0 /\ tails' = tails \cup TailOf(i) /\ s = Len(b) - 1
    BY <1>5, <1>6, <1>7, <1>17 DEF FrameAnswered
  <2>2. onRing' = onRing
    BY <1>17 DEF FrameAnswered
  <2>3. CASE tails' = tails /\ s = (IF shed[i] > 0 THEN shed[i] - 1 ELSE 0)
    <3>1. s <= Len(t)
      BY <1>8, <1>9, <1>11, <2>3
    <3>2. \A k \in DOMAIN t : k > s => k + 1 > shed[i]
      BY <1>8, <1>13, <2>3
    <3>3. EntryStep(i, c, t, s)
      BY <1>14, <1>15, <1>16, <2>1, <3>1, <3>2
    <3>4. QED
      BY <1>8, <2>2, <2>3, <3>3, OrderedKept
  <2>4. CASE shed[i] = 0 /\ tails' = tails \cup TailOf(i) /\ s = Len(b) - 1
    <3>1. s <= Len(t) /\ \A k \in DOMAIN t : ~(k > s)
      BY <1>11, <2>4
    <3>2. EntryStep(i, c, t, s)
      BY <1>14, <1>16, <2>1, <3>1
    <3>3. QED
      BY <1>1, <1>5, <1>8, <2>1, <2>2, <2>4, <3>1, <3>2, OrderedShed
  <2>5. QED
    BY <2>1, <2>3, <2>4
<1>18. CASE FrameParks(i)
  <2>1. PICK s \in Nat : /\ Becomes(i, c, recv[i], b, s)
                         /\ \/ tails' = tails /\ s = shed[i]
                            \/ shed[i] = 0 /\ tails' = tails \cup TailOf(i) /\ s = Len(b)
    BY <1>5, <1>6, <1>18 DEF FrameParks
  <2>2. onRing' = onRing
    BY <1>18 DEF FrameParks
  <2>3. CASE tails' = tails /\ s = shed[i]
    <3>1. EntryStep(i, c, b, s)
      BY <1>9, <1>16, <2>1, <2>3
    <3>2. QED
      BY <1>8, <2>2, <2>3, <3>1, OrderedKept
  <2>4. CASE shed[i] = 0 /\ tails' = tails \cup TailOf(i) /\ s = Len(b)
    <3>1. s <= Len(b) /\ \A k \in DOMAIN b : ~(k > s)
      BY <1>11, <2>4
    <3>2. Fits(i, c, b, s)
      BY <1>9, <3>1 DEF Fits
    <3>3. EntryStep(i, c, b, s)
      BY <1>16, <2>1, <3>1, <3>2
    <3>4. QED
      BY <1>1, <1>5, <1>8, <2>1, <2>2, <2>4, <3>1, <3>3, OrderedShed
  <2>5. QED
    BY <2>1, <2>3, <2>4
<1>19. CASE FrameTaken(i)
  <2>0. PICK n : n = b[1].id
    OBVIOUS
  <2>1. Becomes(i, c, recv[i], t, 0) /\ tails' = tails /\ shed[i] = 0 /\ onRing' = onRing \cup {<<c, n>>}
    BY <1>5, <1>6, <1>7, <1>19, <2>0 DEF FrameTaken
  <2>2. EntryStep(i, c, t, 0)
    <3>1. 0 <= Len(t) /\ \A k \in DOMAIN t : k + 1 > shed[i]
      BY <1>11, <1>13, <2>1
    <3>2. QED
      BY <1>14, <1>15, <1>16, <2>1, <3>1
  <2>3. /\ Placed' /\ WireOrdered' /\ CqOrdered' /\ BufOrdered'
        /\ \A d, m : (Past(d, m) => Past(d, m)') /\ (ShedPast(d, m) => ShedPast(d, m)')
        /\ \A j \in Entries' : shed'[j] <= Len(buf'[j])
    BY <1>8, <2>2, OrderedMoved
  <2>4. 1 \in DOMAIN b /\ Fetched(c, n) /\ Below(n, t) /\ n \in Nat
    <3>1. 1 \in DOMAIN b
      BY <1>11
    <3>2. Ascending(b)
      BY <1>9 DEF Fits
    <3>3. QED
      BY <1>8, <1>10, <1>12, <2>0, <3>1, <3>2, IdsTyped
  <2>5. Past(c, n)'
    <3>1. Fetched(c, n)'
      BY <1>1, <1>5, <1>8, <2>1, <2>4, FetchedStays
    <3>2. ASSUME NEW j \in Entries', slab'[j] = c PROVE Below(n, buf'[j])
      <4>1. slab'[i] = c /\ buf'[i] = t /\ i \in Entries'
        BY <1>3, <1>8, <2>1 DEF Becomes
      <4>2. j = i
        BY <1>8, <2>3, <3>2, <4>1 DEF Placed
      <4>3. QED
        BY <2>4, <4>1, <4>2
    <3>3. QED
      BY <3>1, <3>2 DEF Past
  <2>6. ASSUME NEW p \in onRing' PROVE Past(p[1], p[2])'
    <3>1. CASE p \in onRing
      BY <2>3, <3>1 DEF Ordered, PastKept
    <3>2. CASE p = <<c, n>>
      <4>1. p[1] = c /\ p[2] = n
        BY <3>2
      <4>2. QED
        BY <2>5, <4>1
    <3>3. QED
      BY <2>1, <2>6, <3>1, <3>2
  <2>7. ASSUME NEW p \in tails' PROVE ShedPast(p[1], p[2])'
    BY <2>1, <2>3, <2>7 DEF Ordered, PastKept
  <2>8. <<c, n>> \notin tails
    <3>1. SUFFICES ASSUME <<c, n>> \in tails PROVE FALSE
      OBVIOUS
    <3>2. ShedPast(c, n)
      BY <3>1 DEF Ordered, PastKept
    <3>3. 1 > shed[i]
      BY <2>1
    <3>4. n < b[1].id
      BY <1>12, <2>4, <3>2, <3>3
    <3>5. QED
      BY <2>0, <2>4, <3>4
  <2>9. tails' \cap onRing' = {}
    BY <2>1, <2>8 DEF Ordered, ShedStaysShed
  <2>10. QED
    BY <2>3, <2>6, <2>7, <2>9 DEF Ordered, PastKept, ShedStaysShed, OrderStep
<1>20. QED
  BY <1>3, <1>4, <1>17, <1>18, <1>19

\* The entries stay: what is fetched decides what is past.
LEMMA PastFetched ==
  ASSUME Types, Ordered, UNCHANGED <<slab, buf, shed, onRing, tails>>,
         \A c, n \in Nat : Fetched(c, n) => Fetched(c, n)', Conns \subseteq Nat
  PROVE  PastKept' /\ ShedStaysShed' /\ \A c, n \in Nat : Past(c, n) => Past(c, n)'
<1>0. Entries' = Entries
  BY DEF Entries
<1>1. onRing \subseteq Conns \X Nat /\ tails \subseteq Conns \X Nat
  BY DEF Types, QueueTypes
<1>2. ASSUME NEW c \in Nat, NEW n \in Nat, Past(c, n) PROVE Past(c, n)'
  <2>1. Fetched(c, n)'
    BY <1>2 DEF Past
  <2>2. \A i \in Entries' : slab'[i] = c => Below(n, buf'[i])
    BY <1>0, <1>2 DEF Past
  <2>3. QED
    BY <2>1, <2>2 DEF Past
<1>3. ASSUME NEW p \in onRing' PROVE Past(p[1], p[2])'
  <2>1. p[1] \in Nat /\ p[2] \in Nat /\ Past(p[1], p[2])
    BY <1>1, <1>3 DEF Ordered, PastKept
  <2>2. QED
    BY <1>2, <2>1
<1>4. ASSUME NEW p \in tails' PROVE ShedPast(p[1], p[2])'
  <2>1. p[1] \in Nat /\ p[2] \in Nat /\ ShedPast(p[1], p[2])
    BY <1>1, <1>4 DEF Ordered, PastKept
  <2>2. Fetched(p[1], p[2])'
    BY <2>1 DEF ShedPast
  <2>3. \A i \in Entries' : slab'[i] = p[1] => \A k \in DOMAIN (buf'[i]) : k > shed'[i] => p[2] < buf'[i][k].id
    BY <1>0, <2>1 DEF ShedPast
  <2>4. QED
    BY <2>2, <2>3 DEF ShedPast
<1>5. QED
  BY <1>0, <1>3, <1>4, <1>2 DEF Ordered, PastKept, ShedStaysShed

LEMMA OrderedSend ==
  ASSUME Numbered, Types, Owned, Ordered, NEW c \in Conns, NEW kind \in Kinds, Send(c, kind)
  PROVE  OrderStep
<1>1. UNCHANGED <<slab, buf, shed, regs, cq, onRing, tails>> /\ Entries' = Entries
  BY DEF Send, slabVars, acceptVars, Entries
<1>2. /\ sent \in [Conns -> Nat] /\ wire \in [Conns -> Seq(Request)] /\ cq \in Seq(Completion)
      /\ \A j \in Entries : buf[j] \in Seq(Request)
  BY SlabFacts DEF Types, ClientTypes, SlabTypes
<1>3. PICK n : n = sent[c]
  OBVIOUS
<1>4. PICK w : w = wire[c]
  OBVIOUS
<1>5. PICK e : e = [from |-> c, id |-> n + 1, kind |-> kind]
  OBVIOUS
<1>6. PICK t : t = Append(w, e)
  OBVIOUS
<1>7. n \in Nat /\ w \in Seq(Request) /\ e \in Request /\ e.id = n + 1
  <2>1. n \in Nat /\ w \in Seq(Request)
    BY <1>2, <1>3, <1>4
  <2>2. n + 1 \in Nat
    BY <2>1
  <2>3. e \in Request /\ e.id = n + 1
    BY <1>5, <2>2 DEF Request
  <2>4. QED
    BY <2>1, <2>3
<1>8. sent' = [sent EXCEPT ![c] = n + 1] /\ wire' = [wire EXCEPT ![c] = t]
  BY <1>2, <1>3, <1>4, <1>5, <1>6 DEF Send
<1>9. sent'[c] = n + 1 /\ wire'[c] = t /\ \A d \in Conns : d # c => sent'[d] = sent[d] /\ wire'[d] = wire[d]
  BY <1>2, <1>8
<1>10. Ascending(w) /\ Upto(w, n)
  BY <1>3, <1>4 DEF Ordered, WireOrdered
<1>11. /\ Ascending(t) /\ Upto(t, n + 1)
       /\ \A u \in Seq(Request) : Upto(u, n) /\ Precede(u, w) => Precede(u, t)
       /\ \A m \in Nat : m <= n /\ Below(m, w) => Below(m, t)
  BY <1>6, <1>7, <1>10, OrderAppend
<1>12. \A u \in Seq(Request) : Upto(u, n) => Upto(u, n + 1)
  <2>1. ASSUME NEW u \in Seq(Request), Upto(u, n) PROVE Upto(u, n + 1)
    BY <1>7, <2>1, IdsTyped DEF Upto
  <2>2. QED
    BY <2>1
<1>13. ASSUME NEW d \in Conns, NEW u \in Seq(Request), Upto(u, sent[d]), Precede(u, wire[d])
       PROVE  Upto(u, sent'[d]) /\ Precede(u, wire'[d])
  <2>1. CASE d = c
    BY <1>3, <1>4, <1>9, <1>11, <1>12, <1>13, <2>1
  <2>2. CASE d # c
    BY <1>9, <1>13, <2>2
  <2>3. QED
    BY <2>1, <2>2
<1>14. Placed'
  BY <1>1 DEF Ordered, Placed
<1>15. WireOrdered'
  BY <1>9, <1>11 DEF Ordered, WireOrdered
<1>16. CqOrdered'
  <2>1. ASSUME NEW k \in DOMAIN cq
        PROVE  /\ Ascending(cq[k].frames) /\ Upto(cq[k].frames, sent'[slab[cq[k].idx]])
               /\ Precede(cq[k].frames, wire'[slab[cq[k].idx]])
               /\ Precede(buf[cq[k].idx], cq[k].frames)
    <3>1. slab[cq[k].idx] \in Conns
      BY <2>1, SlabFacts DEF Types, Owned, CqOwned
    <3>2. cq[k].frames \in Seq(Request)
      <4>1. cq[k] \in Completion
        BY <1>2, <2>1, SeqFacts
      <4>2. QED
        BY <4>1 DEF Completion
    <3>3. /\ Ascending(cq[k].frames) /\ Upto(cq[k].frames, sent[slab[cq[k].idx]])
          /\ Precede(cq[k].frames, wire[slab[cq[k].idx]])
          /\ Precede(buf[cq[k].idx], cq[k].frames)
      BY <2>1 DEF Ordered, CqOrdered
    <3>4. QED
      BY <1>13, <3>1, <3>2, <3>3
  <2>2. QED
    BY <1>1, <2>1 DEF Ordered, CqOrdered
<1>17. BufOrdered'
  <2>1. ASSUME NEW j \in Entries, slab[j] # 0
        PROVE  Ascending(buf[j]) /\ Upto(buf[j], sent'[slab[j]]) /\ Precede(buf[j], wire'[slab[j]])
    <3>1. slab[j] \in Conns
      BY <2>1, SlabFacts DEF Types
    <3>2. QED
      BY <1>2, <1>13, <2>1, <3>1 DEF Ordered, BufOrdered
  <2>2. QED
    BY <1>1, <2>1 DEF BufOrdered
<1>18. ASSUME NEW d \in Nat, NEW m \in Nat, Fetched(d, m) PROVE Fetched(d, m)'
  <2>1. m <= sent'[d] /\ Below(m, wire'[d])
    <3>1. CASE d = c
      BY <1>3, <1>4, <1>7, <1>9, <1>11, <1>18, <3>1 DEF Fetched
    <3>2. CASE d # c
      <4>1. sent'[d] = sent[d] /\ wire'[d] = wire[d]
        BY <1>2, <1>8, <3>2
      <4>2. QED
        BY <1>18, <4>1 DEF Fetched
    <3>3. QED
      BY <3>1, <3>2
  <2>2. QED
    BY <1>1, <1>18, <2>1 DEF Fetched
<1>19. Conns \subseteq Nat
  BY DEF Numbered
<1>20. PastKept' /\ ShedStaysShed' /\ \A d, m \in Nat : Past(d, m) => Past(d, m)'
  BY <1>1, <1>18, <1>19, PastFetched
<1>21. QED
  BY <1>14, <1>15, <1>16, <1>17, <1>20 DEF Ordered, OrderStep

LEMMA OrderedAnnounce ==
  ASSUME Numbered, Types, Owned, Roll, Ordered, Announce
  PROVE  OrderStep
<1>1. UNCHANGED <<slab, buf, shed, wire, sent, cq, onRing, tails>> /\ Entries' = Entries
  BY DEF Announce, slabVars, clientVars, Entries
<1>2. CASE regs' = regs
  BY <1>1, <1>2, OrderedSame DEF OrderedVars
<1>3. CASE regs' = Append(regs, accepting) /\ accepting # 0
  <2>1. regs \in Seq(Conns) /\ accepting \in Conns
    BY <1>3 DEF Types, AcceptTypes
  <2>2. (\A k \in DOMAIN regs : regs[k] # accepting) /\ \A i \in Entries : slab[i] # accepting
    BY <1>3 DEF Roll, ReaderKnown, Known
  <2>3. /\ DOMAIN regs = 1..Len(regs) /\ Len(regs) \in Nat /\ DOMAIN regs' = 1..(Len(regs) + 1)
        /\ regs'[Len(regs) + 1] = accepting /\ \A k \in 1..Len(regs) : regs'[k] = regs[k]
    <3>1. regs \in Seq(Conns) /\ accepting \in Conns /\ regs' = Append(regs, accepting)
      BY <1>3, <2>1
    <3>2. QED
      BY ONLY <3>1, AppendEffect, SeqFacts
  <2>4. \A k \in DOMAIN regs' : (k \in DOMAIN regs /\ regs'[k] = regs[k]) \/ (k = Len(regs) + 1 /\ regs'[k] = accepting)
    BY <2>3
  <2>5. Placed'
    <3>1. \A k, l \in DOMAIN regs' : regs'[k] = regs'[l] => k = l
      BY <2>2, <2>4 DEF Ordered, Placed
    <3>2. \A k \in DOMAIN regs' : \A i \in Entries' : slab'[i] # regs'[k]
      BY <1>1, <2>2, <2>4 DEF Ordered, Placed
    <3>3. QED
      BY <1>1, <3>1, <3>2 DEF Ordered, Placed
  <2>6. WireOrdered' /\ CqOrdered' /\ BufOrdered'
    BY <1>1 DEF Ordered, WireOrdered, CqOrdered, BufOrdered
  <2>7. ASSUME NEW d \in Nat, NEW m \in Nat, Fetched(d, m) PROVE Fetched(d, m)'
    BY <1>1, <2>7 DEF Fetched
  <2>8. PastKept' /\ ShedStaysShed' /\ \A c, n \in Nat : Past(c, n) => Past(c, n)'
    BY <1>1, <2>7, PastFetched DEF Numbered
  <2>9. QED
    BY <2>5, <2>6, <2>8 DEF Ordered, OrderStep
<1>4. QED
  BY <1>2, <1>3, AnnounceEffect

LEMMA OrderedKernel ==
  ASSUME Numbered, Types, Owned, Ordered, Kernel
  PROVE  OrderStep
<1>1. UNCHANGED <<slab, buf, shed, regs, sent, onRing, tails>> /\ Entries' = Entries
  BY KernelEffect DEF Types, KernelRest, slabVars, acceptVars, Entries
<1>2. PICK op \in ops : \E n \in 0..Len(wire[op.conn]) : \E q \in Completion : Posts(op, n, q)
  BY KernelEffect DEF Types
<1>3. PICK n \in 0..Len(wire[op.conn]) : \E q \in Completion : Posts(op, n, q)
  BY <1>2
<1>4. PICK q \in Completion : Posts(op, n, q)
  BY <1>3
<1>5. PICK c : c = op.conn
  OBVIOUS
<1>6. PICK i : i = op.idx
  OBVIOUS
<1>7. PICK w : w = wire[c]
  OBVIOUS
<1>8. PICK t : t = SubSeq(w, n + 1, Len(w))
  OBVIOUS
<1>9. PICK p : p = SubSeq(w, 1, n)
  OBVIOUS
<1>10. /\ c \in Conns /\ w \in Seq(Request) /\ wire \in [Conns -> Seq(Request)] /\ n \in 0..Len(w)
       /\ i \in Entries /\ slab[i] = c
  BY <1>5, <1>6, <1>7 DEF Types, SlabTypes, ClientTypes, Receive, Owned, OpsOwned
<1>11. q.idx = i /\ q.frames = p /\ cq' = Append(cq, q) /\ wire' = [wire EXCEPT ![c] = t]
  BY <1>4, <1>5, <1>6, <1>7, <1>8, <1>9 DEF Posts
<1>12. wire'[c] = t /\ \A d : d # c => wire'[d] = wire[d]
  BY <1>10, <1>11
<1>13. /\ Ascending(w) => Ascending(p) /\ Ascending(t) /\ Precede(p, t)
       /\ \A m : Upto(w, m) => Upto(p, m) /\ Upto(t, m)
       /\ \A u : Precede(u, w) => Precede(u, p) /\ Precede(u, t)
       /\ \A m : Below(m, w) => Below(m, p) /\ Below(m, t)
  <2>1. w \in Seq(Request) /\ n \in 0..Len(w) /\ p = SubSeq(w, 1, n) /\ t = SubSeq(w, n + 1, Len(w))
    BY <1>8, <1>9, <1>10
  <2>2. OrderParts(w, p, t)
    BY ONLY <2>1, OrderCut
  <2>3. QED
    BY <2>2 DEF OrderParts
<1>14. Ascending(w) /\ Upto(w, sent[c]) /\ Precede(buf[i], w) /\ c # 0
  BY <1>7, <1>10 DEF Ordered, WireOrdered, BufOrdered, Numbered
<1>15. /\ Len(cq) \in Nat /\ DOMAIN cq = 1..Len(cq) /\ DOMAIN cq' = 1..(Len(cq) + 1) /\ cq'[Len(cq) + 1] = q
       /\ \A k \in 1..Len(cq) : cq'[k] = cq[k]
  <2>1. cq \in Seq(Completion) /\ cq' = Append(cq, q)
    BY <1>11 DEF Types, SlabTypes
  <2>2. QED
    BY <2>1, AppendEffect, SeqFacts
<1>16. \A k \in DOMAIN cq' : (k \in DOMAIN cq /\ cq'[k] = cq[k]) \/ (k = Len(cq) + 1 /\ cq'[k] = q)
  BY <1>15
<1>17. \A d : \A u : Precede(u, wire[d]) => Precede(u, wire'[d])
  BY <1>7, <1>12, <1>13
<1>18. Placed' /\ BufOrdered'
  BY <1>1, <1>17 DEF Ordered, Placed, BufOrdered
<1>19. WireOrdered'
  BY <1>1, <1>12, <1>13, <1>14 DEF Ordered, WireOrdered
<1>20. CqOrdered'
  <2>1. ASSUME NEW x, (\E k \in DOMAIN cq : x = cq[k]) \/ x = q
        PROVE  /\ Ascending(x.frames) /\ Upto(x.frames, sent'[slab'[x.idx]])
               /\ Precede(x.frames, wire'[slab'[x.idx]]) /\ Precede(buf'[x.idx], x.frames)
    <3>1. CASE x = q
      BY <1>1, <1>10, <1>11, <1>12, <1>13, <1>14, <3>1
    <3>2. CASE \E k \in DOMAIN cq : x = cq[k]
      BY <1>1, <1>17, <3>2 DEF Ordered, CqOrdered
    <3>3. QED
      BY <2>1, <3>1, <3>2
  <2>2. ASSUME NEW k \in DOMAIN cq', NEW l \in DOMAIN cq', k < l, cq'[k].idx = cq'[l].idx
        PROVE  Precede(cq'[k].frames, cq'[l].frames)
    <3>1. k \in DOMAIN cq /\ cq'[k] = cq[k]
      BY <1>15, <1>16, <2>2
    <3>2. CASE l \in DOMAIN cq /\ cq'[l] = cq[l]
      BY <2>2, <3>1, <3>2 DEF Ordered, CqOrdered
    <3>3. CASE cq'[l] = q
      <4>1. cq[k].idx = i
        BY <1>11, <2>2, <3>1, <3>3
      <4>2. Precede(cq[k].frames, w)
        BY <1>7, <1>10, <3>1, <4>1 DEF Ordered, CqOrdered
      <4>3. QED
        BY <1>11, <1>13, <3>1, <3>3, <4>2
    <3>4. QED
      BY <1>16, <2>2, <3>2, <3>3
  <2>3. ASSUME NEW k \in DOMAIN cq' PROVE (\E m \in DOMAIN cq : cq'[k] = cq[m]) \/ cq'[k] = q
    BY <1>16, <2>3
  <2>4. QED
    BY <2>1, <2>2, <2>3 DEF CqOrdered
<1>21. ASSUME NEW d \in Nat, NEW m \in Nat, Fetched(d, m) PROVE Fetched(d, m)'
  <2>1. m <= sent'[d] /\ Below(m, wire'[d]) /\ (d = c => Below(m, p))
    BY <1>1, <1>7, <1>12, <1>13, <1>21 DEF Fetched
  <2>2. ASSUME NEW k \in DOMAIN cq', slab'[cq'[k].idx] = d PROVE Below(m, cq'[k].frames)
    <3>1. CASE k \in DOMAIN cq /\ cq'[k] = cq[k]
      BY <1>1, <1>21, <2>2, <3>1 DEF Fetched
    <3>2. CASE cq'[k] = q
      BY <1>1, <1>10, <1>11, <2>1, <2>2, <3>2
    <3>3. QED
      BY <1>16, <2>2, <3>1, <3>2
  <2>3. QED
    BY <2>1, <2>2 DEF Fetched
<1>22. PastKept' /\ ShedStaysShed' /\ \A d, m \in Nat : Past(d, m) => Past(d, m)'
  BY <1>1, <1>21, PastFetched DEF Numbered
<1>23. QED
  BY <1>18, <1>19, <1>20, <1>22 DEF Ordered, OrderStep

LEMMA OrderedRegister ==
  ASSUME Numbered, Types, Owned, Owned', Ordered, Register
  PROVE  OrderStep
<1>1. UNCHANGED <<wire, sent, cq, onRing, tails>>
  BY DEF Register, clientVars
<1>2. SlabTypes /\ AcceptTypes /\ FreeVacant /\ CqOwned /\ Placed /\ WireOrdered /\ CqOrdered /\ BufOrdered /\ PastKept
  BY DEF Types, Owned, Ordered
<1>3. PICK c : c = Head(regs)
  OBVIOUS
<1>4. regs # <<>> /\ regs' = Tail(regs) /\ c \in Conns /\ c # 0 /\ c = regs[1]
  BY <1>2, <1>3, RegisterEffect, SeqFacts DEF Numbered, AcceptTypes
<1>5. PICK i \in Nat : Becomes(i, c, "Armed", <<>>, 0) /\ (i \notin Entries \/ slab[i] = 0)
  BY <1>2, <1>3, RegisterEffect
<1>6. /\ slab'[i] = c /\ buf'[i] = <<>> /\ shed'[i] = 0 /\ Entries' = Entries \cup {i}
      /\ \A j \in Entries : j # i => slab'[j] = slab[j] /\ buf'[j] = buf[j] /\ shed'[j] = shed[j]
  BY <1>5 DEF Becomes
<1>7. /\ DOMAIN regs = 1..Len(regs) /\ Len(regs) \in Nat /\ Len(regs) >= 1 /\ DOMAIN regs' = 1..Len(regs')
      /\ Len(regs') = Len(regs) - 1 /\ \A k \in 1..Len(regs') : regs'[k] = regs[k + 1]
  <2>1. regs \in Seq(Conns) /\ regs # <<>> /\ regs' = Tail(regs)
    BY <1>2, <1>4 DEF AcceptTypes
  <2>2. QED
    BY ONLY <2>1, TailEffect, SeqFacts
<1>8. \A k \in DOMAIN regs' : k \in Nat /\ k + 1 \in DOMAIN regs /\ regs'[k] = regs[k + 1] /\ k + 1 # 1
  BY <1>7
<1>9. 1 \in DOMAIN regs /\ (\A k, l \in DOMAIN regs' : k + 1 = l + 1 => k = l)
  BY <1>7
<1>10. Placed'
  <2>1. ASSUME NEW j \in Entries', NEW l \in Entries', slab'[j] = slab'[l], slab'[j] # 0 PROVE j = l
    BY <1>2, <1>4, <1>6, <1>9, <2>1 DEF Placed
  <2>2. \A k, l \in DOMAIN regs' : regs'[k] = regs'[l] => k = l
    BY <1>2, <1>8, <1>9 DEF Placed
  <2>3. ASSUME NEW k \in DOMAIN regs', NEW j \in Entries' PROVE slab'[j] # regs'[k]
    <3>1. CASE j = i
      BY <1>2, <1>4, <1>6, <1>8, <1>9, <2>3, <3>1 DEF Placed
    <3>2. CASE j # i
      BY <1>2, <1>6, <1>8, <2>3, <3>2 DEF Placed
    <3>3. QED
      BY <3>1, <3>2
  <2>4. QED
    BY <2>1, <2>2, <2>3 DEF Placed
<1>11. WireOrdered'
  BY <1>1, <1>2 DEF WireOrdered
<1>12. \A k \in DOMAIN cq : cq[k].idx \in Entries /\ cq[k].idx # i
  BY <1>2, <1>5 DEF CqOwned
<1>13. CqOrdered'
  BY <1>1, <1>2, <1>6, <1>12 DEF CqOrdered
<1>14. BufOrdered'
  <2>1. Ascending(<<>>) /\ (\A n : Upto(<<>>, n)) /\ \A u : Precede(<<>>, u)
    BY DEF Ascending, Upto, Precede
  <2>2. QED
    BY <1>1, <1>2, <1>6, <2>1 DEF BufOrdered
<1>15. ASSUME NEW d, NEW m, Fetched(d, m) PROVE Fetched(d, m)'
  BY <1>1, <1>6, <1>12, <1>15 DEF Fetched
<1>16. ASSUME NEW d, NEW m, Past(d, m) PROVE Past(d, m)'
  <2>1. Below(m, <<>>)
    BY DEF Below
  <2>2. \A j \in Entries' : slab'[j] = d => Below(m, buf'[j])
    BY <1>6, <1>16, <2>1 DEF Past
  <2>3. QED
    BY <1>15, <1>16, <2>2 DEF Past
<1>17. ASSUME NEW p \in tails' PROVE ShedPast(p[1], p[2])'
  <2>1. ShedPast(p[1], p[2])
    BY <1>1, <1>2, <1>17 DEF PastKept
  <2>2. \A j \in Entries' : slab'[j] = p[1] => \A k \in DOMAIN (buf'[j]) : k > shed'[j] => p[2] < buf'[j][k].id
    BY <1>6, <2>1 DEF ShedPast
  <2>3. QED
    BY <1>15, <2>1, <2>2 DEF ShedPast
<1>18. \A j \in Entries' : shed'[j] <= Len(buf'[j])
  BY <1>2, <1>6 DEF PastKept
<1>19. \A p \in onRing' : Past(p[1], p[2])'
  BY <1>1, <1>2, <1>16 DEF PastKept
<1>20. QED
  BY <1>1, <1>10, <1>11, <1>13, <1>14, <1>16, <1>17, <1>18, <1>19 DEF Ordered, PastKept, ShedStaysShed, OrderStep

LEMMA OrderedNext ==
  ASSUME Numbered, Types, Owned, Owned', Roll, Ordered, [PathNext]_pathVars
  PROVE  OrderStep
<1> SUFFICES OrderStep
  OBVIOUS
<1>1. (UNCHANGED <<clientVars, regs, slabVars, cq, tails, onRing>>) => OrderStep
  BY OrderedSame DEF OrderedVars, clientVars, slabVars
<1>2. ASSUME NEW c \in Conns, Accept(c) \/ Close(c) PROVE OrderStep
  BY <1>1, <1>2 DEF Accept, Close, acceptVars
<1>3. ASSUME NEW c \in Conns, NEW k \in Kinds, Send(c, k) PROVE OrderStep
  BY <1>3, OrderedSend
<1>4. CASE Announce
  BY <1>4, OrderedAnnounce
<1>5. CASE Kernel
  BY <1>5, OrderedKernel
<1>6. CASE Register
  BY <1>6, OrderedRegister
<1>7. CASE ProcessFrame
  BY <1>7, OrderedProcessFrame
<1>8. CASE EndCall
  BY <1>8, OrderedEndCall
<1>9. ASSUME NEW v, TakeCqe(v) PROVE OrderStep
  BY <1>9, OrderedTakeCqe
<1>10. ASSUME NEW i \in Entries, NEW v, Retry(i, v) PROVE OrderStep
  BY <1>1, <1>10 DEF Retry, acceptVars
<1>11. ASSUME NEW i \in Entries, TimeOut(i) PROVE OrderStep
  BY <1>11, OrderedTimeOut
<1>12. CASE MatchStep
  BY <1>1, <1>12 DEF MatchStep, acceptVars
<1>13. CASE Durable \/ UNCHANGED pathVars
  BY <1>1, <1>13, DurableEffect DEF PathVars
<1>14. StageUnchanged => OrderStep
  BY <1>1 DEF StageUnchanged, stageRest, acceptVars
<1>15. CASE Read \/ Snapshot \/ BeforeWait \/ WhileWaiting
  BY <1>14, <1>15, LookEffect
<1>16. CASE Drain
  BY <1>14, <1>16, DrainEffect
<1>17. CASE Idle \/ BeforeSlot \/ WaitRelease
  BY <1>14, <1>17, TurnEffect
<1>18. CASE SendSlot
  BY <1>14, <1>18, SendSlotEffect
<1>19. CASE Flush
  <2>1. UNCHANGED <<sent, wire, regs, slabVars, cq, tails, onRing>>
    BY <1>19 DEF Flush, acceptVars
  <2>2. QED
    BY <2>1, OrderedSame DEF OrderedVars, slabVars
<1>20. QED
  BY StepCases, <1>2, <1>3, <1>4, <1>5, <1>6, <1>7, <1>8, <1>9, <1>10, <1>11, <1>12, <1>13, <1>15,
     <1>16, <1>17, <1>18, <1>19, Zenon

Sorted == Types /\ Owned /\ Roll /\ Ordered

\* A request shed with its connection's buffer never reaches the ring, not even when
\* the shedding parks half-way and the ring has room again by the retry: a client's
\* requests stay in order from the socket through the completions and the parse
\* buffer, so the part of the buffer still to shed holds every request of a tail
\* that is not yet answered (process_client_frames, shed_remaining).
THEOREM ShedRequestsStayShed ==
  ASSUME Numbered
  PROVE  PathSpec => []ShedStaysShed
<1>1. PathInit => Sorted
  BY AccountedInit, OrderedInit DEF Accounted, Sorted
<1>2. Sorted /\ [PathNext]_pathVars => Sorted'
  BY AccountedNext, OrderedNext DEF Accounted, Sorted, OrderStep
<1>3. Sorted => ShedStaysShed
  BY DEF Sorted, Ordered
<1>4. QED
  BY <1>1, <1>2, <1>3, PTL DEF PathSpec

-----------------------------------------------------------------------------
(* The slots and replies under way *)

\* t is s, without its first d.
Shift(s, t, d) == \A k \in DOMAIN t : k \in Nat /\ k >= 1 /\ k + d \in DOMAIN s /\ t[k] = s[k + d]

LEMMA ShiftNone ==
  ASSUME NEW S, NEW s \in Seq(S)
  PROVE  Shift(s, s, 0)
<1>1. Len(s) \in Nat /\ DOMAIN s = 1..Len(s)
  BY SeqFacts
<1>2. \A k \in DOMAIN s : k \in Nat /\ k >= 1 /\ k + 0 = k
  BY <1>1
<1>3. QED
  BY <1>2 DEF Shift

LEMMA ShiftTail ==
  ASSUME NEW S, NEW s \in Seq(S), s # <<>>, NEW t, t = Tail(s)
  PROVE  Shift(s, t, 1)
<1>1. /\ Len(s) \in Nat /\ Len(s) >= 1 /\ DOMAIN s = 1..Len(s) /\ Len(t) = Len(s) - 1
      /\ DOMAIN t = 1..Len(t) /\ \A k \in 1..Len(t) : t[k] = s[k + 1]
  BY TailEffect, SeqFacts
<1>2. QED
  BY <1>1 DEF Shift

\* The first d of a concatenation's first part are dropped.
LEMMA ConcatDrop ==
  ASSUME NEW S, NEW a \in Seq(S), NEW b \in Seq(S), NEW s, s = a \o b, NEW d \in 0..Len(a),
         NEW c \in Seq(S), Len(c) = Len(a) - d, \A k \in 1..Len(c) : c[k] = a[d + k],
         NEW t, t = c \o b
  PROVE  Shift(s, t, d)
<1>1. /\ Len(a) \in Nat /\ Len(b) \in Nat /\ Len(c) \in Nat /\ d \in Nat
      /\ Len(s) = Len(a) + Len(b) /\ DOMAIN s = 1..Len(s) /\ DOMAIN t = 1..Len(t) /\ Len(t) = Len(c) + Len(b)
      /\ \A k \in 1..Len(a) : s[k] = a[k]
      /\ \A k \in 1..Len(b) : s[Len(a) + k] = b[k]
      /\ \A k \in 1..Len(c) : t[k] = c[k]
      /\ \A k \in 1..Len(b) : t[Len(c) + k] = b[k]
  <2>1. /\ Len(s) = Len(a) + Len(b) /\ DOMAIN s = 1..Len(s)
        /\ \A k \in 1..Len(a) : s[k] = a[k]
        /\ \A k \in 1..Len(b) : s[Len(a) + k] = b[k]
    BY ConcatEffect
  <2>2. /\ DOMAIN t = 1..Len(t) /\ Len(t) = Len(c) + Len(b)
        /\ \A k \in 1..Len(c) : t[k] = c[k]
        /\ \A k \in 1..Len(b) : t[Len(c) + k] = b[k]
    <3>1. c \in Seq(S) /\ b \in Seq(S) /\ t = c \o b
      OBVIOUS
    <3>2. QED
      BY ONLY <3>1, ConcatEffect
  <2>3. Len(a) \in Nat /\ Len(b) \in Nat /\ Len(c) \in Nat
    BY SeqFacts
  <2>4. d \in Nat
    BY <2>3
  <2>5. QED
    BY <2>1, <2>2, <2>3, <2>4, Zenon
<1>2. ASSUME NEW k \in DOMAIN t
      PROVE  k \in Nat /\ k >= 1 /\ k + d \in DOMAIN s /\ t[k] = s[k + d]
  <2>0. k \in 1..Len(c) \/ (k - Len(c) \in 1..Len(b) /\ Len(c) + (k - Len(c)) = k)
    <3>1. k \in 1..(Len(c) + Len(b)) /\ Len(c) \in Nat /\ Len(b) \in Nat
      BY <1>1, <1>2
    <3>2. QED
      BY ONLY <3>1
  <2>1. \/ k \in 1..Len(c) /\ t[k] = c[k]
        \/ k - Len(c) \in 1..Len(b) /\ t[k] = b[k - Len(c)]
    BY <1>1, <2>0
  <2>2. k \in Nat /\ k >= 1 /\ k + d \in DOMAIN s
    BY <1>1, <1>2
  <2>3. CASE k \in 1..Len(c) /\ t[k] = c[k]
    <3>1. d + k \in 1..Len(a) /\ d + k = k + d
      BY <1>1, <2>3
    <3>2. QED
      BY <1>1, <2>2, <2>3, <3>1
  <2>4. CASE k - Len(c) \in 1..Len(b) /\ t[k] = b[k - Len(c)]
    <3>1. Len(a) + (k - Len(c)) = k + d
      BY <1>1, <2>2
    <3>2. QED
      BY <1>1, <2>2, <2>4, <3>1
  <2>5. QED
    BY <2>1, <2>3, <2>4
<1>3. QED
  BY <1>2 DEF Shift

LEMMA QueuesTyped ==
  ASSUME Types
  PROVE  /\ Queue \in Seq(Ask) /\ Len(Queue) \in Nat /\ DOMAIN Queue = 1..Len(Queue)
         /\ Replies \in Seq(Reply) /\ Len(Replies) \in Nat /\ DOMAIN Replies = 1..Len(Replies)
         /\ \A k \in DOMAIN Queue : Queue[k].conn \in Conns /\ Queue[k].id \in Nat
         /\ \A k \in DOMAIN Replies : Replies[k].conn \in Conns /\ Replies[k].id \in Nat
         /\ \A k \in DOMAIN output : output[k].conn \in Conns /\ output[k].id \in Nat /\ output[k].last \in BOOLEAN
<1>1. Queue \in Seq(Ask)
  BY ConcatEffect DEF Types, QueueTypes, Queue
<1>2. Replies \in Seq(Reply)
  BY ConcatEffect DEF Types, QueueTypes, Replies
<1>3. /\ \A x \in Ask : x.conn \in Conns /\ x.id \in Nat
      /\ \A x \in Reply : x.conn \in Conns /\ x.id \in Nat
      /\ \A x \in Slot : x.conn \in Conns /\ x.id \in Nat /\ x.last \in BOOLEAN
  BY DEF Ask, Reply, Slot
<1>4. \A k \in DOMAIN Queue : Queue[k] \in Ask
  BY <1>1, SeqFacts
<1>5. \A k \in DOMAIN Replies : Replies[k] \in Reply
  BY <1>2, SeqFacts
<1>6. \A k \in DOMAIN output : output[k] \in Slot
  BY SeqFacts DEF Types, QueueTypes
<1>7. QED
  BY <1>1, <1>2, <1>3, <1>4, <1>5, <1>6, SeqFacts

\* Slots and replies that go leave the others as they are.
LEMMA SlotsGo ==
  ASSUME Types, Slots, OrderStep, Numbered, onRing' = onRing, NEW d \in Nat, NEW e \in Nat, NEW f \in Nat,
         Shift(Queue, Queue', d), Shift(Replies, Replies', e), Shift(output, output', f)
  PROVE  Once' /\ Alternate'
<1>0. Once /\ Alternate /\ Conns \subseteq Nat
  BY DEF Slots, Numbered
<1>1. /\ \A k \in DOMAIN Queue' : k \in Nat /\ k + d \in DOMAIN Queue /\ Queue'[k] = Queue[k + d]
      /\ \A k \in DOMAIN Replies' : k \in Nat /\ k + e \in DOMAIN Replies /\ Replies'[k] = Replies[k + e]
      /\ \A k \in DOMAIN output' : k \in Nat /\ k + f \in DOMAIN output /\ output'[k] = output[k + f]
  BY DEF Shift
<1>2. \A k, l \in Nat : (k + d = l + d => k = l) /\ (k + e = l + e => k = l) /\ (k < l => k + f < l + f)
                        /\ (k + 1) + f = (k + f) + 1
  OBVIOUS
<1>3. \A k \in DOMAIN Queue' : Pair(Queue'[k]) \in onRing'
  BY <1>0, <1>1 DEF Once
<1>4. \A k, l \in DOMAIN Queue' : Pair(Queue'[k]) = Pair(Queue'[l]) => k = l
  BY <1>0, <1>1, <1>2 DEF Once
<1>5. \A k \in DOMAIN output' : Pair(output'[k]) \in onRing'
  BY <1>0, <1>1 DEF Once
<1>6. \A k \in DOMAIN Replies' : Pair(Replies'[k]) \notin onRing'
  BY <1>0, <1>1 DEF Once
<1>6a. ASSUME NEW c \in Conns, NEW n \in Nat, NEW k \in DOMAIN Replies', Pair(Replies'[k]) = <<c, n>>
       PROVE  Past(c, n)'
  <2>1. k + e \in DOMAIN Replies /\ Pair(Replies[k + e]) = <<c, n>>
    BY <1>1, <1>6a
  <2>2. Past(c, n) /\ c \in Nat
    BY <1>0, <2>1 DEF Once
  <2>3. QED
    BY <2>2 DEF OrderStep
<1>7. \A k, l \in DOMAIN Replies' : Pair(Replies'[k]) = Pair(Replies'[l]) => k = l
  BY <1>0, <1>1, <1>2 DEF Once
<1>8. Once'
  BY <1>3, <1>4, <1>5, <1>6, <1>6a, <1>7 DEF Once
<1>9. ASSUME NEW k \in DOMAIN output', k + 1 \in DOMAIN output'
      PROVE  output'[k + 1].last = ~output'[k].last /\ (~output'[k].last => Pair(output'[k + 1]) = Pair(output'[k]))
  <2> DEFINE m == k + f
  <2>1. m \in DOMAIN output /\ m + 1 \in DOMAIN output /\ output'[k] = output[m] /\ output'[k + 1] = output[m + 1]
    <3>1. (k + 1) + f = m + 1
      BY <1>1, <1>2, <1>9
    <3>2. QED
      BY <1>1, <1>9, <3>1
  <2> HIDE DEF m
  <2>2. QED
    BY <1>0, <2>1 DEF Alternate
<1>10. ASSUME NEW k \in DOMAIN output', NEW l \in DOMAIN output', k < l, output'[k].last
       PROVE  Pair(output'[l]) # Pair(output'[k])
  BY <1>0, <1>1, <1>2, <1>10 DEF Alternate
<1>11. ASSUME NEW k \in DOMAIN output', output'[k].last, NEW l \in DOMAIN Queue'
       PROVE  Pair(Queue'[l]) # Pair(output'[k])
  BY <1>0, <1>1, <1>11 DEF Alternate
<1>12. Alternate'
  BY <1>9, <1>10, <1>11 DEF Alternate
<1>13. QED
  BY <1>8, <1>12

SlotVars == <<input, batch, early, staged, output, half, between, onRing>>

LEMMA SlotsSame ==
  ASSUME Types, Slots, OrderStep, Numbered, UNCHANGED SlotVars
  PROVE  Slots'
<1>1. UNCHANGED <<input, batch, early, staged, output, half, between, onRing>>
  BY DEF SlotVars
<1>2. Queue' = Queue /\ Replies' = Replies /\ output' = output
  BY <1>1 DEF Queue, Replies
<1>3. Shift(Queue, Queue', 0) /\ Shift(Replies, Replies', 0) /\ Shift(output, output', 0)
  BY <1>2, QueuesTyped, ShiftNone DEF Types, QueueTypes
<1>4. Once' /\ Alternate'
  BY <1>1, <1>3, SlotsGo
<1>5. Turns'
  BY <1>1 DEF Slots, Turns
<1>6. QED
  BY <1>4, <1>5 DEF Slots

LEMMA SlotsInit ==
  ASSUME PathInit
  PROVE  Slots
<1>1. input = <<>> /\ batch = <<>> /\ early = <<>> /\ staged = <<>> /\ output = <<>> /\ ~half /\ between
  BY DEF PathInit
<1>2. Queue = <<>> /\ Replies = <<>>
  BY <1>1 DEF Queue, Replies
<1>3. DOMAIN Queue = {} /\ DOMAIN Replies = {} /\ DOMAIN output = {}
  BY <1>1, <1>2
<1>4. QED
  BY <1>1, <1>3 DEF Slots, Once, Alternate, Turns

\* The call's batch and replies are handed over.
LEMMA EndCallQueues ==
  ASSUME Types, Owned, EndCall
  PROVE  /\ Queue' = Queue /\ Replies' = Replies
         /\ UNCHANGED <<half, output, onRing, between>>
         /\ input # <<>> => input' # <<>> /\ Head(input') = Head(input)
<1>1. /\ batch' = <<>> /\ staged' = <<>> /\ input' = input \o batch /\ early' = early \o staged
  BY EndCallEffect DEF Types, Owned
<1>2. input \in Seq(Ask) /\ batch \in Seq(Ask) /\ early \in Seq(Reply) /\ staged \in Seq(Reply)
  BY DEF Types, QueueTypes
<1>3. input' \in Seq(Ask) /\ early' \in Seq(Reply)
  BY <1>1, <1>2, ConcatProperties
<1>4. input' \o <<>> = input' /\ early' \o <<>> = early'
  BY <1>3, ConcatEmptySeq
<1>5. Queue' = Queue /\ Replies' = Replies
  BY <1>1, <1>4 DEF Queue, Replies
<1>6. UNCHANGED <<half, output, onRing, between>>
  BY DEF EndCall, stageVars
<1>7. ASSUME input # <<>> PROVE input' # <<>> /\ Head(input') = Head(input)
  <2> DEFINE t == input'
  <2>1. t = input \o batch /\ t \in Seq(Ask)
    BY <1>1, <1>3
  <2> HIDE DEF t
  <2>2. /\ Len(input) \in Nat /\ Len(input) >= 1 /\ Head(input) = input[1] /\ Len(batch) \in Nat
    BY <1>2, <1>7, SeqFacts
  <2>3. Len(t) = Len(input) + Len(batch) /\ \A k \in 1..Len(input) : t[k] = input[k]
    BY <1>2, <2>1, ConcatEffect
  <2>4. Len(t) >= 1 /\ t[1] = input[1]
    BY <2>2, <2>3
  <2>5. t # <<>> /\ Head(t) = t[1]
    <3>1. t # <<>>
      BY <2>4
    <3>2. QED
      BY <2>1, <3>1, SeqFacts
  <2>6. QED
    BY <2>2, <2>4, <2>5 DEF t
<1>8. QED
  BY <1>5, <1>6, <1>7

LEMMA SlotsEndCall ==
  ASSUME Types, Owned, Slots, OrderStep, Numbered, EndCall
  PROVE  Slots'
<1>1. /\ Queue' = Queue /\ Replies' = Replies /\ UNCHANGED <<half, output, onRing, between>>
      /\ input # <<>> => input' # <<>> /\ Head(input') = Head(input)
  BY EndCallQueues
<1>2. Shift(Queue, Queue', 0) /\ Shift(Replies, Replies', 0) /\ Shift(output, output', 0)
  BY <1>1, QueuesTyped, ShiftNone DEF Types, QueueTypes
<1>3. Once' /\ Alternate'
  BY <1>1, <1>2, SlotsGo
<1>4. Turns'
  BY <1>1 DEF Slots, Turns, Pair
<1>5. QED
  BY <1>3, <1>4 DEF Slots

\* The first of a snapshot go out of the early-reply queue.
LEMMA ReleaseQueues ==
  ASSUME Types, Release, UNCHANGED <<input, batch, staged>>
  PROVE  Queue' = Queue /\ Shift(Replies, Replies', snap)
<1>1. Queue' = Queue
  BY DEF Queue
<1>2. early' = SubSeq(early, snap + 1, Len(early))
  BY DEF Release
<1>3. early \in Seq(Reply) /\ staged \in Seq(Reply) /\ snap \in Nat /\ snap <= Len(early) /\ Len(early) \in Nat
  BY SeqFacts DEF Types, QueueTypes, StageTypes, Bounds
<1>4. snap \in 0..Len(early)
  BY <1>3
<1> DEFINE c == early'
           s == Replies
           t == Replies'
<1>5. c = SubSeq(early, snap + 1, Len(early)) /\ s = early \o staged /\ t = c \o staged
  BY <1>2 DEF Replies
<1> HIDE DEF c, s, t
<1>6. c \in Seq(Reply) /\ Len(c) = Len(early) - snap /\ \A k \in 1..Len(c) : c[k] = early[snap + k]
  BY <1>3, <1>4, <1>5, SuffixEffect
<1>7. Shift(s, t, snap)
  BY <1>3, <1>4, <1>5, <1>6, ConcatDrop
<1>8. QED
  BY <1>1, <1>7 DEF s, t

LEMMA SlotsTurn ==
  ASSUME Types, Slots, OrderStep, Numbered, Idle \/ BeforeSlot \/ WaitRelease
  PROVE  Slots'
<1>1. /\ UNCHANGED <<output, between>> /\ UNCHANGED <<input, batch, staged, half, onRing>>
      /\ Release \/ NoRelease
  BY TurnEffect DEF StageUnchanged, stageRest, callVars
<1>2. CASE Release
  <2>1. Queue' = Queue /\ Shift(Replies, Replies', snap) /\ snap \in Nat
    BY <1>1, <1>2, ReleaseQueues DEF Types, StageTypes
  <2>2. Shift(Queue, Queue', 0) /\ Shift(output, output', 0)
    BY <1>1, <2>1, QueuesTyped, ShiftNone DEF Types, QueueTypes
  <2>3. Once' /\ Alternate'
    BY <1>1, <2>1, <2>2, SlotsGo
  <2>4. Turns'
    BY <1>1 DEF Slots, Turns
  <2>5. QED
    BY <2>3, <2>4 DEF Slots
<1>3. CASE NoRelease
  <2>1. UNCHANGED SlotVars
    BY <1>1, <1>3 DEF SlotVars, NoRelease
  <2>2. QED
    BY <2>1, SlotsSame
<1>4. QED
  BY <1>1, <1>2, <1>3

LEMMA SlotsSendSlot ==
  ASSUME Types, Slots, OrderStep, Numbered, SendSlot
  PROVE  Slots'
<1>1. /\ output # <<>> /\ output' = Tail(output) /\ between' = output[1].last
      /\ UNCHANGED <<input, batch, early, staged, half, onRing>>
  BY SendSlotEffect DEF StageUnchanged, stageRest, callVars
<1>2. output \in Seq(Slot) /\ half \in BOOLEAN /\ \A k \in DOMAIN output : output[k].last \in BOOLEAN
  BY QueuesTyped DEF Types, QueueTypes
<1>3. Queue' = Queue /\ Replies' = Replies
  BY <1>1 DEF Queue, Replies
<1> DEFINE t == output'
<1>4. t = Tail(output)
  BY <1>1
<1> HIDE DEF t
<1>5. /\ Shift(output, t, 1) /\ Len(output) \in Nat /\ Len(output) >= 1 /\ Len(t) = Len(output) - 1
      /\ DOMAIN t = 1..Len(t) /\ DOMAIN output = 1..Len(output) /\ \A k \in 1..Len(t) : t[k] = output[k + 1]
      /\ (t # <<>> => Len(t) >= 1) /\ (t = <<>> => Len(t) = 0)
  BY <1>1, <1>2, <1>4, ShiftTail, TailEffect, SeqFacts
<1>6. Shift(Queue, Queue', 0) /\ Shift(Replies, Replies', 0)
  BY <1>3, QueuesTyped, ShiftNone
<1>7. Once' /\ Alternate'
  BY <1>1, <1>5, <1>6, SlotsGo DEF t
<1>8. Turns /\ Alternate
  BY DEF Slots
<1>9. CASE t = <<>>
  <2>1. Len(output) = 1 /\ between' = ~half
    BY <1>1, <1>2, <1>5, <1>8, <1>9 DEF Turns
  <2>2. QED
    BY <1>1, <1>7, <1>8, <1>9, <2>1 DEF Turns, Slots, t
<1>10. CASE t # <<>>
  <2>1. 1 \in DOMAIN output /\ 1 + 1 \in DOMAIN output /\ t[1] = output[1 + 1] /\ t[Len(t)] = output[Len(output)]
    BY <1>5, <1>10
  <2>2. t[1].last = ~output[1].last
    BY <1>8, <2>1 DEF Alternate
  <2>3. t[1].last = ~between'
    BY <1>1, <2>2
  <2>4. Turns'
    BY <1>1, <1>8, <1>10, <2>1, <2>3 DEF Turns, t
  <2>5. QED
    BY <1>7, <2>4 DEF Slots
<1>11. QED
  BY <1>9, <1>10

\* The matching stage takes a request off the input ring with its last slot.
LEMMA MatchQueues ==
  ASSUME Types, MatchStep
  PROVE  /\ 1 \in DOMAIN Queue /\ Queue[1] = input[1] /\ input # <<>> /\ Head(input) = input[1]
         /\ Replies' = Replies
         /\ IF half THEN Shift(Queue, Queue', 1) ELSE Queue' = Queue /\ input' = input
<1>1. /\ input # <<>> /\ input' = (IF half THEN Tail(input) ELSE input)
      /\ UNCHANGED <<batch, early, staged>>
  BY MatchEffect DEF MatchRest, callVars
<1>2. input \in Seq(Ask) /\ batch \in Seq(Ask)
  BY DEF Types, QueueTypes
<1>3. Len(input) \in Nat /\ Len(input) >= 1 /\ Len(batch) \in Nat /\ Head(input) = input[1]
  BY <1>1, <1>2, SeqFacts
<1> DEFINE s == Queue
<1>4. s = input \o batch
  BY DEF Queue
<1> HIDE DEF s
<1>5. Len(s) = Len(input) + Len(batch) /\ DOMAIN s = 1..Len(s) /\ \A k \in 1..Len(input) : s[k] = input[k]
  BY <1>2, <1>4, ConcatEffect
<1>6. 1 \in DOMAIN s /\ s[1] = input[1]
  BY <1>3, <1>5
<1>7. CASE half
  <2> DEFINE c == input'
             t == Queue'
  <2>1. c = Tail(input) /\ t = c \o batch
    BY <1>1, <1>7 DEF Queue
  <2> HIDE DEF c, t
  <2>2. /\ c \in Seq(Ask) /\ Len(c) = Len(input) - 1 /\ \A k \in 1..Len(c) : c[k] = input[k + 1]
    BY <1>1, <1>2, <2>1, TailEffect
  <2>3. \A k \in 1..Len(c) : c[k] = input[1 + k]
    <3>1. \A k \in 1..Len(c) : k + 1 = 1 + k
      BY <1>3, <2>2
    <3>2. QED
      BY <2>2, <3>1
  <2>4. 1 \in 0..Len(input)
    BY <1>3
  <2>5. Shift(s, t, 1)
    BY <1>2, <1>4, <2>1, <2>2, <2>3, <2>4, ConcatDrop
  <2>6. QED
    BY <1>1, <1>3, <1>6, <1>7, <2>5 DEF s, t, Replies
<1>8. CASE ~half
  BY <1>1, <1>3, <1>6, <1>8 DEF s, Queue, Replies
<1>9. QED
  BY <1>7, <1>8

LEMMA SlotsMatch ==
  ASSUME Types, Slots, OrderStep, Numbered, MatchStep
  PROVE  Slots'
<1>1. /\ UNCHANGED <<between, onRing>> /\ half' = ~half /\ half \in BOOLEAN /\ between \in BOOLEAN
      /\ output' = Append(output, [conn |-> input[1].conn, id |-> input[1].id, last |-> half])
      /\ [conn |-> input[1].conn, id |-> input[1].id, last |-> half] \in Slot
  BY MatchEffect DEF MatchRest, stageVars, Types, QueueTypes, StageTypes
<1>2. /\ 1 \in DOMAIN Queue /\ Queue[1] = input[1] /\ input # <<>> /\ Head(input) = input[1] /\ Replies' = Replies
      /\ IF half THEN Shift(Queue, Queue', 1) ELSE Queue' = Queue /\ input' = input
  BY MatchQueues
<1>3. PICK s \in Slot : s = [conn |-> input[1].conn, id |-> input[1].id, last |-> half]
  BY <1>1
<1>4. s.last = half /\ Pair(s) = Pair(Queue[1])
  BY <1>2, <1>3 DEF Pair
<1> DEFINE t == output'
           n == Len(output)
<1>5. t = Append(output, s) /\ output \in Seq(Slot) /\ s \in Slot
  BY <1>1, <1>3 DEF Types, QueueTypes
<1> HIDE DEF t
<1>6. /\ n \in Nat /\ DOMAIN output = 1..n /\ DOMAIN t = 1..(n + 1) /\ t[n + 1] = s /\ Len(t) = n + 1
      /\ \A k \in 1..n : t[k] = output[k]
  BY <1>5, AppendEffect, SeqFacts
<1>7. (output = <<>> <=> n = 0) /\ t # <<>>
  <2>1. output = <<>> <=> n = 0
    BY <1>5, SeqFacts
  <2>2. t \in Seq(Slot)
    BY <1>5, AppendEffect
  <2>3. QED
    BY <1>6, <2>1, <2>2, SeqFacts
<1> HIDE DEF n
<1>8. \A k \in DOMAIN t : (k \in DOMAIN output /\ t[k] = output[k]) \/ (k = n + 1 /\ t[k] = s)
  BY <1>6
<1>9. Once /\ Alternate /\ Turns
  BY DEF Slots
<1>10. \E d \in Nat : Shift(Queue, Queue', d) /\ (half => d = 1)
  <2>1. CASE half
    BY <1>2, <2>1
  <2>2. CASE ~half
    BY <1>2, <2>2, QueuesTyped, ShiftNone
  <2>3. QED
    BY <2>1, <2>2
<1>11. PICK d \in Nat : Shift(Queue, Queue', d) /\ (half => d = 1)
  BY <1>10
<1>12. \A k \in DOMAIN Queue' : k \in Nat /\ k + d \in DOMAIN Queue /\ Queue'[k] = Queue[k + d]
  BY <1>11 DEF Shift
<1>13. Shift(Replies, Replies', 0) /\ Shift(output, output, 0)
  BY <1>2, <1>5, QueuesTyped, ShiftNone
<1>14. Once'
  <2>1. \A k \in DOMAIN Queue' : Pair(Queue'[k]) \in onRing'
    BY <1>1, <1>9, <1>12 DEF Once
  <2>2. \A k, l \in Nat : k + d = l + d => k = l
    OBVIOUS
  <2>3. \A k, l \in DOMAIN Queue' : Pair(Queue'[k]) = Pair(Queue'[l]) => k = l
    BY <1>9, <1>12, <2>2 DEF Once
  <2>4. \A k \in DOMAIN t : Pair(t[k]) \in onRing'
    BY <1>1, <1>2, <1>4, <1>8, <1>9 DEF Once
  <2>5. \A k \in DOMAIN Replies' : Pair(Replies'[k]) \notin onRing'
    BY <1>1, <1>2, <1>9 DEF Once
  <2>6. ASSUME NEW c \in Conns, NEW m \in Nat, \E k \in DOMAIN Replies' : Pair(Replies'[k]) = <<c, m>>
        PROVE  Past(c, m)'
    <3>1. Past(c, m)
      BY <1>2, <1>9, <2>6 DEF Once
    <3>2. QED
      BY <3>1 DEF OrderStep, Numbered
  <2>7. \A k, l \in DOMAIN Replies' : Pair(Replies'[k]) = Pair(Replies'[l]) => k = l
    BY <1>2, <1>9 DEF Once
  <2>8. QED
    BY <2>1, <2>3, <2>4, <2>5, <2>6, <2>7 DEF Once, t
<1>15. Alternate'
  <2>1. ASSUME NEW k \in DOMAIN t, k + 1 \in DOMAIN t
        PROVE  t[k + 1].last = ~t[k].last /\ (~t[k].last => Pair(t[k + 1]) = Pair(t[k]))
    <3>1. k \in DOMAIN output /\ t[k] = output[k]
      BY <1>6, <1>8, <2>1
    <3>2. CASE k + 1 \in DOMAIN output /\ t[k + 1] = output[k + 1]
      BY <1>9, <3>1, <3>2 DEF Alternate
    <3>3. CASE k + 1 = n + 1 /\ t[k + 1] = s
      <4>1. k = n /\ output # <<>>
        BY <1>6, <1>7, <3>1, <3>3
      <4>2. output[n].last = ~half /\ (half => Pair(output[n]) = Pair(Head(input)))
        BY <1>9, <4>1 DEF Turns, n
      <4>3. output[n].last \in BOOLEAN
        BY <3>1, <4>1, QueuesTyped
      <4>4. QED
        BY <1>1, <1>2, <1>4, <3>1, <3>3, <4>1, <4>2, <4>3
    <3>4. QED
      BY <1>8, <2>1, <3>2, <3>3
  <2>2. ASSUME NEW k \in DOMAIN t, NEW l \in DOMAIN t, k < l, t[k].last PROVE Pair(t[l]) # Pair(t[k])
    <3>1. k \in DOMAIN output /\ t[k] = output[k]
      BY <1>6, <1>8, <2>2
    <3>2. QED
      BY <1>2, <1>4, <1>8, <1>9, <2>2, <3>1 DEF Alternate
  <2>3. ASSUME NEW k \in DOMAIN t, t[k].last, NEW l \in DOMAIN Queue' PROVE Pair(Queue'[l]) # Pair(t[k])
    <3>1. CASE k \in DOMAIN output /\ t[k] = output[k]
      BY <1>9, <1>12, <2>3, <3>1 DEF Alternate
    <3>2. CASE t[k] = s
      <4>1. l + d \in DOMAIN Queue /\ Queue'[l] = Queue[l + d] /\ l \in Nat /\ d = 1
        BY <1>4, <1>11, <1>12, <2>3, <3>2
      <4>2. l >= 1
        BY <1>11, <2>3 DEF Shift
      <4>3. l + d # 1
        BY <4>1, <4>2
      <4>4. QED
        BY <1>2, <1>4, <1>9, <3>2, <4>1, <4>3 DEF Once
    <3>3. QED
      BY <1>8, <2>3, <3>1, <3>2
  <2>4. QED
    BY <2>1, <2>2, <2>3 DEF Alternate, t
<1>16. Turns'
  <2>1. half' => input' # <<>>
    BY <1>1, <1>2
  <2>2. t[Len(t)].last = ~half'
    BY <1>1, <1>4, <1>6
  <2>3. t[1].last = ~between
    <3>1. CASE output = <<>>
      <4>1. n + 1 = 1 /\ between = ~half
        BY <1>7, <1>9, <3>1 DEF Turns
      <4>2. t[1].last = half
        BY <1>4, <1>6, <4>1
      <4>3. QED
        BY <1>1, <4>1, <4>2
    <3>2. CASE output # <<>>
      <4>1. 1 \in 1..n
        BY <1>6, <1>7, <3>2
      <4>2. QED
        BY <1>6, <1>9, <3>2, <4>1 DEF Turns
    <3>3. QED
      BY <3>1, <3>2
  <2>4. half' => Pair(t[Len(t)]) = Pair(Head(input'))
    BY <1>1, <1>2, <1>4, <1>6
  <2>5. QED
    BY <1>1, <1>7, <2>1, <2>2, <2>3, <2>4 DEF Turns, t
<1>17. QED
  BY <1>14, <1>15, <1>16 DEF Slots

LEMMA ConcatAppend ==
  ASSUME NEW S, NEW a \in Seq(S), NEW b \in Seq(S), NEW e \in S, NEW c, c = Append(b, e), NEW t, t = a \o c,
         NEW s, s = a \o b
  PROVE  t = Append(s, e)
<1>1. s \in Seq(S) /\ <<e>> \in Seq(S)
  BY ConcatProperties
<1>2. c = b \o <<e>> /\ Append(s, e) = s \o <<e>>
  BY <1>1, AppendIsConcat
<1>3. a \o (b \o <<e>>) = (a \o b) \o <<e>>
  BY <1>1, ConcatAssociative
<1>4. QED
  BY <1>2, <1>3

\* The frame at the head of the buffer, once it is gone.
LEMMA HeadPast ==
  ASSUME Types, Owned, Ordered, OrderStep, NEW i \in Entries, NEW c, c = slab[i], c # 0, NEW b, b = buf[i], b # <<>>,
         NEW s, NEW t, t = Tail(b), Becomes(i, c, recv[i], t, s), UNCHANGED <<wire, sent, cq>>,
         NEW n, n = b[1].id
  PROVE  /\ Past(c, n)' /\ <<c, n>> \notin onRing /\ n \in Nat
         /\ \A m : Past(c, m) => m # n
<1>1. /\ b \in Seq(Request)
      /\ \A m : Past(c, m) <=> Fetched(c, m) /\ Below(m, b)
      /\ \A k \in DOMAIN b : Fetched(c, b[k].id)
      /\ \A k \in DOMAIN b : <<c, b[k].id>> \notin onRing
  BY FrameFacts
<1>2. Ascending(b)
  BY DEF Ordered, BufOrdered
<1>3. 1 \in DOMAIN b /\ n \in Nat
  <2>1. Len(b) \in Nat /\ Len(b) >= 1 /\ DOMAIN b = 1..Len(b)
    BY <1>1, SeqFacts
  <2>2. 1 \in DOMAIN b
    BY <2>1
  <2>3. QED
    BY <1>1, <2>2, IdsTyped
<1>4. Below(n, t) /\ Fetched(c, n)
  BY <1>1, <1>2, <1>3, OrderTail
<1>5. Fetched(c, n)'
  BY <1>4, FetchedStays
<1>6. ASSUME NEW j \in Entries', slab'[j] = c PROVE Below(n, buf'[j])
  <2>1. slab'[i] = c /\ buf'[i] = t /\ i \in Entries'
    BY DEF Becomes
  <2>2. j = i
    BY <1>6, <2>1 DEF OrderStep, Ordered, Placed
  <2>3. QED
    BY <1>4, <2>1, <2>2
<1>7. Past(c, n)'
  BY <1>5, <1>6 DEF Past
<1>8. ASSUME NEW m, Past(c, m), m = n PROVE FALSE
  <2>1. n < b[1].id
    BY <1>1, <1>3, <1>8 DEF Below
  <2>2. QED
    BY <1>3, <2>1
<1>9. QED
  BY <1>1, <1>3, <1>7, <1>8

\* The frame's answer, or the request, goes to the end of its queue.
LEMMA FrameQueues ==
  ASSUME Types, Owned, ProcessFrame, NEW c, c = slab[busy], NEW n, n = buf[busy][1].id
  PROVE  /\ UNCHANGED <<input, output, half, between>> /\ UNCHANGED <<wire, sent, cq>>
         /\ busy \in Entries /\ c # 0 /\ buf[busy] # <<>>
         /\ \/ /\ FrameAnswered(busy) /\ Queue' = Queue /\ onRing' = onRing
               /\ \E r \in Reply : Replies' = Append(Replies, r) /\ Pair(r) = <<c, n>>
            \/ /\ FrameParks(busy) /\ Queue' = Queue /\ Replies' = Replies /\ onRing' = onRing
            \/ /\ FrameTaken(busy) /\ Replies' = Replies /\ onRing' = onRing \cup {<<c, n>>}
               /\ \E a \in Ask : Queue' = Append(Queue, a) /\ Pair(a) = <<c, n>>
<1>1. UNCHANGED <<input, early, output, half, between>> /\ UNCHANGED <<wire, sent, cq>>
  BY DEF ProcessFrame, stageVars, clientVars
<1>2. SlabTypes /\ BusyOwned /\ QueueTypes
  BY DEF Types, Owned
<1>3. /\ busy # 0 /\ buf[busy] # <<>>
      /\ FrameAnswered(busy) \/ FrameParks(busy) \/ FrameTaken(busy)
  BY <1>2, ProcessFrameEffect
<1>4. busy \in Entries /\ c # 0 /\ c \in Conns /\ buf[busy] \in Seq(Request)
  BY <1>2, <1>3, BusyFacts
<1>5. n \in Nat
  <2>1. buf[busy][1] \in Request
    BY <1>3, <1>4, SeqFacts
  <2>2. QED
    BY <2>1 DEF Request
<1>6. CASE FrameAnswered(busy)
  <2>1. PICK kind \in {"early", "rejected"} : staged' = Append(staged, [conn |-> c, id |-> n, kind |-> kind])
    BY <1>6 DEF FrameAnswered
  <2>2. PICK r : r = [conn |-> c, id |-> n, kind |-> kind]
    OBVIOUS
  <2>3. r \in Reply /\ Pair(r) = <<c, n>>
    BY <1>4, <1>5, <2>2 DEF Reply, Pair
  <2> DEFINE d == staged'
             t == Replies'
             s == Replies
  <2>4. d = Append(staged, r) /\ t = early \o d /\ s = early \o staged /\ early \in Seq(Reply) /\ staged \in Seq(Reply)
    BY <1>1, <1>2, <2>1, <2>2 DEF Replies, QueueTypes
  <2> HIDE DEF d, t, s
  <2>5. t = Append(s, r)
    BY <2>3, <2>4, ConcatAppend
  <2>6. Queue' = Queue /\ onRing' = onRing
    BY <1>1, <1>6 DEF Queue, FrameAnswered
  <2>7. QED
    BY <1>1, <1>3, <1>4, <1>6, <2>3, <2>5, <2>6 DEF t, s
<1>7. CASE FrameParks(busy)
  BY <1>1, <1>3, <1>4, <1>7 DEF FrameParks, Queue, Replies
<1>8. CASE FrameTaken(busy)
  <2>1. /\ batch' = Append(batch, [conn |-> c, id |-> n]) /\ onRing' = onRing \cup {<<c, n>>} /\ staged' = staged
    BY <1>8 DEF FrameTaken
  <2>2. PICK a : a = [conn |-> c, id |-> n]
    OBVIOUS
  <2>3. a \in Ask /\ Pair(a) = <<c, n>>
    BY <1>4, <1>5, <2>2 DEF Ask, Pair
  <2> DEFINE d == batch'
             t == Queue'
             s == Queue
  <2>4. d = Append(batch, a) /\ t = input \o d /\ s = input \o batch /\ input \in Seq(Ask) /\ batch \in Seq(Ask)
    BY <1>1, <1>2, <2>1, <2>2 DEF Queue, QueueTypes
  <2> HIDE DEF d, t, s
  <2>5. t = Append(s, a)
    BY <2>3, <2>4, ConcatAppend
  <2>6. Replies' = Replies
    BY <1>1, <2>1 DEF Replies
  <2>7. QED
    BY <1>1, <1>3, <1>4, <1>8, <2>1, <2>3, <2>5, <2>6 DEF t, s
<1>9. QED
  BY <1>3, <1>6, <1>7, <1>8

LEMMA SlotsAnswered ==
  ASSUME Numbered, Types, Ordered, OrderStep, Slots, NEW c \in Conns, NEW n \in Nat, NEW r \in Reply,
         Pair(r) = <<c, n>>, Replies' = Append(Replies, r), Queue' = Queue, onRing' = onRing,
         UNCHANGED <<input, output, half, between>>,
         Past(c, n)', <<c, n>> \notin onRing, \A m : Past(c, m) => m # n
  PROVE  Slots'
<1>1. Once /\ Alternate /\ Turns
  BY DEF Slots
<1> DEFINE t == Replies'
           s == Replies
<1>2. t = Append(s, r) /\ s \in Seq(Reply) /\ r \in Reply
  BY QueuesTyped
<1> HIDE DEF t, s
<1>3. /\ Len(s) \in Nat /\ DOMAIN s = 1..Len(s) /\ DOMAIN t = 1..(Len(s) + 1) /\ t[Len(s) + 1] = r
      /\ \A k \in 1..Len(s) : t[k] = s[k]
  BY <1>2, AppendEffect, SeqFacts
<1>4. \A k \in DOMAIN t : (k \in DOMAIN s /\ t[k] = s[k]) \/ (k = Len(s) + 1 /\ t[k] = r)
  BY <1>3
<1>5. \A k \in DOMAIN s : Pair(s[k]) # <<c, n>>
  BY <1>1 DEF Once, s
<1>6. \A k \in DOMAIN t : Pair(t[k]) \notin onRing
  BY <1>1, <1>4 DEF Once, s
<1>7. \A k, l \in DOMAIN t : Pair(t[k]) = Pair(t[l]) => k = l
  BY <1>1, <1>4, <1>5 DEF Once, s
<1>8. ASSUME NEW d \in Conns, NEW m \in Nat, NEW k \in DOMAIN t, Pair(t[k]) = <<d, m>> PROVE Past(d, m)'
  <2>1. CASE k \in DOMAIN s /\ t[k] = s[k]
    <3>1. Past(d, m)
      BY <1>1, <1>8, <2>1 DEF Once, s
    <3>2. QED
      BY <3>1 DEF OrderStep, Numbered
  <2>2. CASE t[k] = r
    <3>1. d = c /\ m = n
      BY <1>8, <2>2
    <3>2. QED
      BY <3>1
  <2>3. QED
    BY <1>4, <1>8, <2>1, <2>2
<1>9. Once'
  BY <1>1, <1>6, <1>7, <1>8 DEF Once, t
<1>10. Alternate' /\ Turns'
  BY <1>1 DEF Alternate, Turns
<1>11. QED
  BY <1>9, <1>10 DEF Slots

LEMMA SlotsTaken ==
  ASSUME Numbered, Types, Ordered, OrderStep, Slots, NEW c \in Conns, NEW n \in Nat, NEW a \in Ask,
         Pair(a) = <<c, n>>, Queue' = Append(Queue, a), Replies' = Replies, onRing' = onRing \cup {<<c, n>>},
         UNCHANGED <<input, output, half, between>>,
         <<c, n>> \notin onRing, \A m : Past(c, m) => m # n
  PROVE  Slots'
<1>1. Once /\ Alternate /\ Turns
  BY DEF Slots
<1> DEFINE t == Queue'
           s == Queue
<1>2. t = Append(s, a) /\ s \in Seq(Ask) /\ a \in Ask
  BY QueuesTyped
<1> HIDE DEF t, s
<1>3. /\ Len(s) \in Nat /\ DOMAIN s = 1..Len(s) /\ DOMAIN t = 1..(Len(s) + 1) /\ t[Len(s) + 1] = a
      /\ \A k \in 1..Len(s) : t[k] = s[k]
  BY <1>2, AppendEffect, SeqFacts
<1>4. \A k \in DOMAIN t : (k \in DOMAIN s /\ t[k] = s[k]) \/ (k = Len(s) + 1 /\ t[k] = a)
  BY <1>3
<1>5. \A k \in DOMAIN s : Pair(s[k]) # <<c, n>>
  BY <1>1 DEF Once, s
<1>6. (\A k \in DOMAIN t : Pair(t[k]) \in onRing') /\ \A k, l \in DOMAIN t : Pair(t[k]) = Pair(t[l]) => k = l
  BY <1>1, <1>4, <1>5 DEF Once, s
<1>7. \A k \in DOMAIN output : Pair(output[k]) \in onRing /\ Pair(output[k]) # <<c, n>>
  BY <1>1 DEF Once
<1>8. \A k \in DOMAIN Replies : Pair(Replies[k]) # <<c, n>>
  BY <1>1 DEF Once
<1>9. ASSUME NEW d \in Conns, NEW m \in Nat, \E k \in DOMAIN Replies' : Pair(Replies'[k]) = <<d, m>> PROVE Past(d, m)'
  <2>1. Past(d, m)
    BY <1>1, <1>9 DEF Once
  <2>2. QED
    BY <2>1 DEF OrderStep, Numbered
<1>10. Once'
  <2>1. \A k \in DOMAIN Replies' : Pair(Replies'[k]) \notin onRing'
    BY <1>1, <1>8 DEF Once
  <2>2. \A k \in DOMAIN output' : Pair(output'[k]) \in onRing'
    BY <1>7
  <2>3. \A k, l \in DOMAIN Replies' : Pair(Replies'[k]) = Pair(Replies'[l]) => k = l
    BY <1>1 DEF Once
  <2>4. QED
    BY <1>6, <1>9, <2>1, <2>2, <2>3 DEF Once, t
<1>11. Alternate'
  <2>1. \A k \in DOMAIN output : output[k].last => \A l \in DOMAIN t : Pair(t[l]) # Pair(output[k])
    BY <1>1, <1>4, <1>7 DEF Alternate, s
  <2>2. QED
    BY <1>1, <2>1 DEF Alternate, t
<1>12. Turns'
  BY <1>1 DEF Turns
<1>13. QED
  BY <1>10, <1>11, <1>12 DEF Slots

LEMMA SlotsProcessFrame ==
  ASSUME Numbered, Types, Owned, Ordered, OrderStep, Slots, ProcessFrame
  PROVE  Slots'
<1>1. PICK c : c = slab[busy]
  OBVIOUS
<1>2. PICK b : b = buf[busy]
  OBVIOUS
<1>3. PICK n : n = b[1].id
  OBVIOUS
<1>4. /\ UNCHANGED <<input, output, half, between>> /\ UNCHANGED <<wire, sent, cq>>
      /\ busy \in Entries /\ c # 0 /\ b # <<>>
      /\ \/ /\ FrameAnswered(busy) /\ Queue' = Queue /\ onRing' = onRing
            /\ \E r \in Reply : Replies' = Append(Replies, r) /\ Pair(r) = <<c, n>>
         \/ /\ FrameParks(busy) /\ Queue' = Queue /\ Replies' = Replies /\ onRing' = onRing
         \/ /\ FrameTaken(busy) /\ Replies' = Replies /\ onRing' = onRing \cup {<<c, n>>}
            /\ \E a \in Ask : Queue' = Append(Queue, a) /\ Pair(a) = <<c, n>>
  BY <1>1, <1>2, <1>3, FrameQueues
<1>5. PICK t : t = Tail(b)
  OBVIOUS
<1>6. PICK i : i = busy
  OBVIOUS
<1>7. ASSUME NEW s, Becomes(i, c, recv[i], t, s)
      PROVE  Past(c, n)' /\ <<c, n>> \notin onRing /\ n \in Nat /\ \A m : Past(c, m) => m # n
  BY <1>1, <1>2, <1>3, <1>4, <1>5, <1>6, <1>7, HeadPast
<1>8. c \in Conns
  BY <1>1, <1>4, SlabFacts DEF Types
<1>9. CASE FrameAnswered(i) /\ Queue' = Queue /\ onRing' = onRing
           /\ \E r \in Reply : Replies' = Append(Replies, r) /\ Pair(r) = <<c, n>>
  <2>1. PICK r \in Reply : Replies' = Append(Replies, r) /\ Pair(r) = <<c, n>>
    BY <1>9
  <2>2. \E s : Becomes(i, c, recv[i], t, s)
    BY <1>1, <1>2, <1>5, <1>6, <1>9 DEF FrameAnswered
  <2>3. Past(c, n)' /\ <<c, n>> \notin onRing /\ n \in Nat /\ \A m : Past(c, m) => m # n
    BY <1>7, <2>2
  <2>4. QED
    BY <1>4, <1>8, <1>9, <2>1, <2>3, SlotsAnswered
<1>10. CASE FrameTaken(i) /\ Replies' = Replies /\ onRing' = onRing \cup {<<c, n>>}
            /\ \E a \in Ask : Queue' = Append(Queue, a) /\ Pair(a) = <<c, n>>
  <2>1. PICK a \in Ask : Queue' = Append(Queue, a) /\ Pair(a) = <<c, n>>
    BY <1>10
  <2>2. \E s : Becomes(i, c, recv[i], t, s)
    BY <1>1, <1>2, <1>5, <1>6, <1>10 DEF FrameTaken
  <2>3. Past(c, n)' /\ <<c, n>> \notin onRing /\ n \in Nat /\ \A m : Past(c, m) => m # n
    BY <1>7, <2>2
  <2>4. QED
    BY <1>4, <1>8, <1>10, <2>1, <2>3, SlotsTaken
<1>11. CASE Queue' = Queue /\ Replies' = Replies /\ onRing' = onRing
  <2>1. Shift(Queue, Queue', 0) /\ Shift(Replies, Replies', 0) /\ Shift(output, output', 0)
    BY <1>4, <1>11, QueuesTyped, ShiftNone DEF Types, QueueTypes
  <2>2. Once' /\ Alternate'
    BY <1>11, <2>1, SlotsGo
  <2>3. Turns'
    BY <1>4 DEF Slots, Turns
  <2>4. QED
    BY <2>2, <2>3 DEF Slots
<1>12. QED
  BY <1>4, <1>6, <1>9, <1>10, <1>11

LEMMA SlotsNext ==
  ASSUME Numbered, Types, Owned, Ordered, OrderStep, Slots, [PathNext]_pathVars
  PROVE  Slots'
<1> SUFFICES Slots'
  OBVIOUS
<1>1. (UNCHANGED <<input, batch, early, staged, output, half, between, onRing>>) => Slots'
  BY SlotsSame DEF SlotVars
<1>2. ASSUME NEW c \in Conns, Accept(c) \/ Close(c) PROVE Slots'
  BY <1>1, <1>2 DEF Accept, Close, callVars, stageVars
<1>3. ASSUME NEW c \in Conns, NEW k \in Kinds, Send(c, k) PROVE Slots'
  BY <1>1, <1>3 DEF Send, callVars, stageVars
<1>4. CASE Announce
  BY <1>1, <1>4 DEF Announce, callVars, stageVars
<1>5. CASE Kernel
  <2>1. KernelRest
    BY <1>5, KernelEffect DEF Types
  <2>2. QED
    BY <1>1, <2>1 DEF KernelRest, callVars, stageVars
<1>6. CASE Register
  BY <1>1, <1>6 DEF Register, callVars, stageVars
<1>7. CASE ProcessFrame
  BY <1>7, SlotsProcessFrame
<1>8. CASE EndCall
  BY <1>8, SlotsEndCall
<1>9. ASSUME NEW v, TakeCqe(v) PROVE Slots'
  <2>1. UNCHANGED <<batch, staged>>
    <3>1. CqeKept(cq[1].idx, cq[1]) \/ CqeArms(cq[1].idx, cq[1]) \/ CqeVacates(cq[1].idx, cq[1])
      BY <1>9, TakeCqeEffect DEF Types, Owned
    <3>2. QED
      BY <3>1 DEF CqeKept, CqeArms, CqeVacates, CallBegins
  <2>2. QED
    BY <1>1, <1>9, <2>1 DEF TakeCqe, stageVars
<1>10. ASSUME NEW i \in Entries, NEW v, Retry(i, v) PROVE Slots'
  <2>1. UNCHANGED <<batch, staged, input, early, half, output, stageVars, onRing>>
    BY <1>10, RetryEffect DEF Types, Owned
  <2>2. QED
    BY <1>1, <2>1 DEF stageVars
<1>11. ASSUME NEW i \in Entries, TimeOut(i) PROVE Slots'
  BY <1>1, <1>11 DEF TimeOut, callVars, stageVars
<1>12. CASE MatchStep
  BY <1>12, SlotsMatch
<1>13. CASE Durable \/ UNCHANGED pathVars
  BY <1>1, <1>13, DurableEffect DEF PathVars, stageVars
<1>14. CASE Read \/ Snapshot \/ BeforeWait \/ WhileWaiting
  BY <1>1, <1>14, LookEffect DEF StageUnchanged, stageRest, callVars
<1>15. CASE Drain
  BY <1>1, <1>15, DrainEffect DEF StageUnchanged, stageRest, callVars
<1>16. CASE Idle \/ BeforeSlot \/ WaitRelease
  BY <1>16, SlotsTurn
<1>17. CASE SendSlot
  BY <1>17, SlotsSendSlot
<1>18. CASE Flush
  BY <1>1, <1>18 DEF Flush, callVars
<1>19. QED
  BY StepCases, <1>2, <1>3, <1>4, <1>5, <1>6, <1>7, <1>8, <1>9, <1>10, <1>11, <1>12, <1>13, <1>14, <1>15,
     <1>16, <1>17, <1>18, Zenon

-----------------------------------------------------------------------------
(* What a client will have seen *)

LEMMA SeenTyped ==
  ASSUME Types
  PROVE  \A c \in Conns : /\ client[c] \in Account /\ sendbuf[c] \in Seq(Bytes) /\ Seen(c) \in Account
                          /\ Seen(c) = Fold(client[c], sendbuf[c])
<1>1. \A c \in Conns : client[c] \in Account /\ sendbuf[c] \in Seq(Bytes)
  BY DEF Types, ClientTypes, StageTypes
<1>2. \A c \in Conns : Seen(c) = Fold(client[c], sendbuf[c])
  BY DEF Seen, Fold
<1>3. \A c \in Conns : Fold(client[c], sendbuf[c]) \in Account
  BY <1>1, FoldFacts
<1>4. QED
  BY <1>1, <1>2, <1>3

\* A connection let go of stays so.
LEMMA GoneStays ==
  ASSUME Onward, \A c \in Held' : c \in Held \/ c = accepting
  PROVE  \A c \in Conns : Gone(c) => Gone(c)'
BY DEF Onward, Gone, Known, Held

\* Nothing is sent, taken in or answered.
LEMMA SeenStays ==
  ASSUME SeenWhole, UNCHANGED <<client, sendbuf, between, sent>>,
         \A c \in Conns : Gone(c) => Gone(c)',
         ~between => Unfinished' = Unfinished,
         \A c \in Conns : \A n \in Nat : UnderWay(c, n)' => UnderWay(c, n),
         rpc' \in {"resnap", "redrain", "release"} => between
  PROVE  SeenWhole'
<1>1. ASSUME NEW c \in Conns PROVE Seen(c)' = Seen(c)
  BY DEF Seen
<1>2. ASSUME NEW c \in Conns PROVE ~Seen(c)'.bad
  BY <1>1, <1>2 DEF SeenWhole
<1>3. ASSUME NEW c \in Conns PROVE Midway(c)' = Midway(c)
  BY DEF Midway
<1>4. ASSUME NEW c \in Conns, ~Gone(c)'
      PROVE  Seen(c)'.mid = Midway(c)' /\ \A n \in Nat : UnderWay(c, n)' => n \in Seen(c)'.out
  <2>1. ~Gone(c)
    BY <1>4
  <2>2. QED
    BY <1>1, <1>3, <1>4, <2>1 DEF SeenWhole
<1>5. \A c \in Conns : Upto(sendbuf'[c], sent'[c])
  BY DEF SeenWhole
<1>6. QED
  BY <1>2, <1>4, <1>5 DEF SeenWhole

LEMMA SeenInit ==
  ASSUME Numbered, PathInit
  PROVE  SeenWhole
<1>1. /\ between /\ client = [c \in Conns |-> [out |-> {}, mid |-> 0, bad |-> FALSE]]
      /\ sendbuf = [c \in Conns |-> <<>>] /\ \A c \in Conns : wire[c] = <<>>
  BY DEF PathInit
<1>2. DOMAIN Queue = {} /\ DOMAIN Replies = {} /\ DOMAIN output = {}
  <2>1. Queue = <<>> /\ Replies = <<>> /\ output = <<>>
    BY DEF PathInit, Queue, Replies
  <2>2. QED
    BY <2>1
<1>3. Entries = {} /\ DOMAIN cq = {} /\ \A c \in Conns : DOMAIN wire[c] = {}
  BY <1>1 DEF PathInit, Entries
<1>4. \A c \in Conns : \A n \in Nat : ~UnderWay(c, n)
  BY <1>2, <1>3 DEF UnderWay, Coming, Going
<1>5. ASSUME NEW c \in Conns PROVE Seen(c) = [out |-> {}, mid |-> 0, bad |-> FALSE]
  <2>1. Seen(c) = Fold(client[c], <<>>)
    BY <1>1 DEF Seen, Fold
  <2>2. QED
    BY <1>1, <2>1, FoldEmpty
<1>6. \A c \in Conns : Midway(c) = 0
  BY <1>1 DEF Midway
<1>7. \A c \in Conns : Upto(sendbuf[c], sent[c])
  BY <1>1 DEF Upto
<1>8. QED
  BY <1>1, <1>4, <1>5, <1>6, <1>7 DEF SeenWhole

\* A request past the reader is on its way to it no more.
LEMMA PastNotComing ==
  ASSUME NEW c, NEW n \in Nat, Past(c, n)
  PROVE  ~Coming(c, n)
<1>1. ~(n < n)
  OBVIOUS
<1>2. QED
  BY <1>1 DEF Past, Fetched, Below, Coming

\* A step of the reader on one entry: what it leaves in the buffer was there, or in the
\* completion it took.
LEMMA ComingMoved ==
  ASSUME Types, Owned, Owned', NEW i \in Entries, NEW c, NEW r, NEW b, NEW s, Becomes(i, c, r, b, s),
         c \in {slab[i], 0}, Entries' = Entries, wire' = wire, cq' = cq \/ (cq # <<>> /\ cq' = Tail(cq)),
         \A k \in DOMAIN b : \/ \E l \in DOMAIN buf[i] : b[k] = buf[i][l]
                             \/ \E m \in DOMAIN cq : cq[m].idx = i /\ \E l \in DOMAIN cq[m].frames : b[k] = cq[m].frames[l],
         NEW d, d # 0, NEW n, Coming(d, n)'
  PROVE  Coming(d, n)
<1>1. CASE \E k \in DOMAIN (wire'[d]) : wire'[d][k].id = n
  BY <1>1 DEF Coming
<1>2. ASSUME NEW k \in DOMAIN cq', slab'[cq'[k].idx] = d, NEW l \in DOMAIN cq'[k].frames, cq'[k].frames[l].id = n
      PROVE  Coming(d, n)
  <2>1. PICK m \in DOMAIN cq : cq'[k] = cq[m]
    BY <1>2, CqShift DEF Types
  <2>2. cq[m].idx \in Entries
    BY <2>1 DEF Owned, CqOwned
  <2>3. slab[cq[m].idx] = d
    BY <1>2, <2>1, <2>2 DEF Becomes
  <2>4. QED
    BY <1>2, <2>1, <2>3 DEF Coming
<1>3. ASSUME NEW j \in Entries', slab'[j] = d, NEW k \in DOMAIN (buf'[j]), buf'[j][k].id = n
      PROVE  Coming(d, n)
  <2>1. CASE j # i
    BY <1>3, <2>1 DEF Becomes, Coming
  <2>2. CASE j = i
    <3>1. buf'[i] = b /\ slab'[i] = c /\ c = slab[i] /\ slab[i] = d
      BY <1>3, <2>2 DEF Becomes
    <3>2. k \in DOMAIN b /\ b[k].id = n
      BY <1>3, <2>2, <3>1
    <3>3. QED
      BY <3>1, <3>2 DEF Coming
  <2>3. QED
    BY <2>1, <2>2
<1>4. QED
  BY <1>1, <1>2, <1>3 DEF Coming

\* Nothing moves between the sockets and the egress.
LEMMA UnderWaySame ==
  ASSUME UNCHANGED <<wire, cq, slab, buf, input, batch, early, staged, output>>
  PROVE  Unfinished' = Unfinished /\ \A c \in Conns : \A n \in Nat : UnderWay(c, n)' => UnderWay(c, n)
<1>1. Queue' = Queue /\ Replies' = Replies /\ Entries' = Entries
  BY DEF Queue, Replies, Entries
<1>2. \A c \in Conns : \A n \in Nat : Coming(c, n)' => Coming(c, n)
  BY <1>1 DEF Coming
<1>3. \A c \in Conns : \A n \in Nat : Going(c, n)' => Going(c, n)
  BY <1>1 DEF Going
<1>4. Unfinished' = Unfinished
  BY DEF Unfinished
<1>5. QED
  BY <1>2, <1>3, <1>4 DEF UnderWay

LEMMA SeenClients ==
  ASSUME Types, Roll, SeenWhole, NEW c \in Conns, Accept(c) \/ Close(c)
  PROVE  SeenWhole'
<1>1. /\ UNCHANGED <<client, sendbuf, between, sent, rpc, control, table>>
      /\ UNCHANGED <<wire, cq, slab, buf, input, batch, early, staged, output>>
  BY DEF Accept, Close, clientVars, stageVars, slabVars, callVars
<1>2. Onward
  <2>1. CASE Accept(c)
    <3>1. sock[c] = "none" /\ accepting' = c /\ sock' = [sock EXCEPT ![c] = "open"]
      BY <2>1 DEF Accept
    <3>2. QED
      BY <3>1 DEF Onward, Types, ClientTypes
  <2>2. CASE Close(c)
    BY <2>2, OnwardShut DEF Close, acceptVars
  <2>3. QED
    BY <2>1, <2>2
<1>3. Held' = Held
  BY <1>1, NamedSame DEF Held
<1>4. \A d \in Conns : Gone(d) => Gone(d)'
  BY <1>2, <1>3, GoneStays
<1>5. rpc' \in {"resnap", "redrain", "release"} => between
  BY <1>1 DEF SeenWhole
<1>6. QED
  BY <1>1, <1>4, <1>5, UnderWaySame, SeenStays

LEMMA SeenAnnounce ==
  ASSUME Numbered, Types, Roll, SeenWhole, Announce
  PROVE  SeenWhole'
<1>1. /\ UNCHANGED <<client, sendbuf, between, sent, rpc, table, sock>>
      /\ UNCHANGED <<wire, cq, slab, buf, input, batch, early, staged, output>>
  BY DEF Announce, clientVars, stageVars, slabVars, callVars
<1>2. accepting \in Conns /\ accepting # 0 /\ 0 \notin Conns /\ accepting' \in {accepting, 0} /\ AcceptTypes
  BY AnnounceEffect DEF Types, AcceptTypes, Numbered
<1>3. Onward
  BY <1>1, <1>2 DEF Onward
<1>4. \A d \in Held' : d \in Held \/ d = accepting
  <2>1. CASE control' = control
    BY <1>1, <2>1, NamedSame DEF Held
  <2>2. CASE control' = Append(control, <<"Connected", accepting>>)
    <3>1. Named("Connected")' = Named("Connected") \cup {accepting}
      BY <1>2, <2>2, NamedAppended
    <3>2. QED
      BY <1>1, <3>1 DEF Held
  <2>3. QED
    BY <2>1, <2>2, AnnounceEffect
<1>5. \A d \in Conns : Gone(d) => Gone(d)'
  BY <1>3, <1>4, GoneStays
<1>6. rpc' \in {"resnap", "redrain", "release"} => between
  BY <1>1 DEF SeenWhole
<1>7. QED
  BY <1>1, <1>5, <1>6, UnderWaySame, SeenStays

\* Steps of the stage that only look, and the gate's.
LEMMA SeenLook ==
  ASSUME Numbered, Types, Roll, SeenWhole,
         Read \/ Snapshot \/ BeforeWait \/ WhileWaiting \/ Durable \/ UNCHANGED pathVars
  PROVE  SeenWhole'
<1>1. /\ UNCHANGED <<client, sendbuf, between, sent, table, sock, accepting, control>>
      /\ UNCHANGED <<wire, cq, slab, buf, input, batch, early, staged, output>>
      /\ rpc' \in {"resnap", "redrain", "release"} => between
  <2>1. CASE Durable \/ UNCHANGED pathVars
    <3>1. UNCHANGED PathVars
      BY <2>1, DurableEffect
    <3>2. rpc' = rpc
      BY <3>1 DEF PathVars, stageVars
    <3>3. QED
      BY <3>1, <3>2 DEF PathVars, clientVars, slabVars, stageVars, SeenWhole
  <2>2. CASE Read \/ Snapshot \/ BeforeWait \/ WhileWaiting
    <3>1. /\ StageUnchanged /\ UNCHANGED <<sock, active, control, early, output, between, table, sendbuf, missed>>
          /\ \/ rpc' \in {"snap", "drain", "waitFlush"}
             \/ rpc = "resnap"
             \/ between
      BY <2>2, LookEffect
    <3>2. rpc' \in {"resnap", "redrain", "release"} => between
      BY <3>1 DEF SeenWhole
    <3>3. QED
      BY <3>1, <3>2 DEF StageUnchanged, stageRest, clientVars, acceptVars, slabVars, callVars
  <2>3. QED
    BY <2>1, <2>2
<1>2. Onward /\ Held' = Held
  BY <1>1, NamedSame, OnwardSame DEF Held
<1>3. \A d \in Conns : Gone(d) => Gone(d)'
  BY <1>2, GoneStays
<1>4. QED
  BY <1>1, <1>3, UnderWaySame, SeenStays

\* What is in p is in w.
Within(p, w) == \A k \in DOMAIN p : \E l \in DOMAIN w : p[k] = w[l]

\* The parts of a sequence cut in two are of it.
LEMMA CutWithin ==
  ASSUME NEW S, NEW w \in Seq(S), NEW n \in 0..Len(w), NEW p, p = SubSeq(w, 1, n),
         NEW t, t = SubSeq(w, n + 1, Len(w))
  PROVE  Within(p, w) /\ Within(t, w)
<1>1. Len(w) \in Nat /\ DOMAIN w = 1..Len(w)
  BY SeqFacts
<1>2. DOMAIN p = 1..n /\ \A k \in 1..n : p[k] = w[k]
  BY PrefixEffect
<1>3. t \in Seq(S) /\ \A k \in 1..Len(t) : n + k \in 1..Len(w) /\ t[k] = w[n + k]
  BY SuffixEffect
<1>4. DOMAIN t = 1..Len(t)
  BY <1>3, SeqFacts
<1>5. \A k \in 1..n : k \in DOMAIN w
  BY <1>1
<1>6. QED
  BY <1>1, <1>2, <1>3, <1>4, <1>5 DEF Within

LEMMA SeenKernel ==
  ASSUME Numbered, Types, Owned, Roll, SeenWhole, Kernel
  PROVE  SeenWhole'
<1>1. /\ UNCHANGED <<client, sendbuf, between, sent, rpc, table, sock, accepting, control>>
      /\ UNCHANGED <<slab, buf, input, batch, early, staged, output>>
  BY KernelEffect DEF Types, KernelRest, stageVars, slabVars, callVars, acceptVars
<1>2. PICK op \in ops : \E n \in 0..Len(wire[op.conn]) : \E q \in Completion : Posts(op, n, q)
  BY KernelEffect DEF Types
<1>3. PICK n \in 0..Len(wire[op.conn]) : \E q \in Completion : Posts(op, n, q)
  BY <1>2
<1>4. PICK q \in Completion : Posts(op, n, q)
  BY <1>3
<1>5. PICK c : c = op.conn
  OBVIOUS
<1>6. PICK w : w = wire[c]
  OBVIOUS
<1>7. PICK t : t = SubSeq(w, n + 1, Len(w))
  OBVIOUS
<1>8. PICK p : p = SubSeq(w, 1, n)
  OBVIOUS
<1>9. /\ c \in Conns /\ w \in Seq(Request) /\ wire \in [Conns -> Seq(Request)] /\ n \in 0..Len(w)
      /\ slab[op.idx] = c
  BY <1>5, <1>6 DEF Types, SlabTypes, ClientTypes, Receive, Owned, OpsOwned
<1>10. q.idx = op.idx /\ q.frames = p /\ cq' = Append(cq, q) /\ wire' = [wire EXCEPT ![c] = t]
  BY <1>4, <1>5, <1>6, <1>7, <1>8 DEF Posts
<1>11. wire'[c] = t /\ \A d \in Conns : d # c => wire'[d] = wire[d]
  BY <1>9, <1>10
<1>12. /\ \A k \in DOMAIN p : \E l \in DOMAIN w : p[k] = w[l]
       /\ \A k \in DOMAIN t : \E l \in DOMAIN w : t[k] = w[l]
  <2>1. w \in Seq(Request) /\ n \in 0..Len(w) /\ p = SubSeq(w, 1, n) /\ t = SubSeq(w, n + 1, Len(w))
    BY <1>7, <1>8, <1>9
  <2>2. Within(p, w) /\ Within(t, w)
    BY ONLY <2>1, CutWithin
  <2>3. QED
    BY <2>2 DEF Within
<1>13. \A k \in DOMAIN cq' : (k \in DOMAIN cq /\ cq'[k] = cq[k]) \/ cq'[k] = q
  <2> DEFINE x == cq'
  <2>1. cq \in Seq(Completion) /\ x = Append(cq, q)
    BY <1>10 DEF Types, SlabTypes
  <2> HIDE DEF x
  <2>2. /\ Len(cq) \in Nat /\ DOMAIN cq = 1..Len(cq) /\ DOMAIN x = 1..(Len(cq) + 1) /\ x[Len(cq) + 1] = q
        /\ \A k \in 1..Len(cq) : x[k] = cq[k]
    BY <2>1, AppendEffect, SeqFacts
  <2>3. \A k \in DOMAIN x : (k \in DOMAIN cq /\ x[k] = cq[k]) \/ x[k] = q
    BY <2>2
  <2>4. QED
    BY <2>3 DEF x
<1>14. ASSUME NEW d \in Conns, NEW m \in Nat, Coming(d, m)' PROVE Coming(d, m)
  <2>1. ASSUME NEW k \in DOMAIN (wire'[d]), wire'[d][k].id = m PROVE Coming(d, m)
    <3>1. CASE d = c
      BY <1>6, <1>11, <1>12, <2>1, <3>1 DEF Coming
    <3>2. CASE d # c
      BY <1>11, <2>1, <3>2 DEF Coming
    <3>3. QED
      BY <3>1, <3>2
  <2>2. ASSUME NEW k \in DOMAIN cq', slab'[cq'[k].idx] = d, NEW l \in DOMAIN cq'[k].frames, cq'[k].frames[l].id = m
        PROVE  Coming(d, m)
    <3>1. CASE k \in DOMAIN cq /\ cq'[k] = cq[k]
      BY <1>1, <2>2, <3>1 DEF Coming
    <3>2. CASE cq'[k] = q
      <4>1. d = c /\ l \in DOMAIN p /\ p[l].id = m
        BY <1>1, <1>9, <1>10, <2>2, <3>2
      <4>2. QED
        BY <1>6, <1>12, <4>1 DEF Coming
    <3>3. QED
      BY <1>13, <3>1, <3>2
  <2>3. ASSUME NEW j \in Entries', slab'[j] = d, NEW k \in DOMAIN (buf'[j]), buf'[j][k].id = m PROVE Coming(d, m)
    BY <1>1, <2>3 DEF Coming, Entries
  <2>4. QED
    BY <1>14, <2>1, <2>2, <2>3 DEF Coming
<1>15. Unfinished' = Unfinished /\ \A d \in Conns : \A m \in Nat : Going(d, m)' => Going(d, m)
  BY <1>1 DEF Unfinished, Going, Queue, Replies
<1>16. \A d \in Conns : \A m \in Nat : UnderWay(d, m)' => UnderWay(d, m)
  BY <1>14, <1>15 DEF UnderWay
<1>17. Onward /\ Held' = Held
  BY <1>1, NamedSame, OnwardSame DEF Held
<1>18. \A d \in Conns : Gone(d) => Gone(d)'
  BY <1>17, GoneStays
<1>19. rpc' \in {"resnap", "redrain", "release"} => between
  BY <1>1 DEF SeenWhole
<1>20. QED
  BY <1>1, <1>15, <1>16, <1>18, <1>19, SeenStays

LEMMA SeenRegister ==
  ASSUME Numbered, Types, Owned, Roll, SeenWhole, Register
  PROVE  SeenWhole'
<1>1. /\ UNCHANGED <<client, sendbuf, between, sent, rpc, table, sock, accepting, control>>
      /\ UNCHANGED <<wire, cq, input, batch, early, staged, output>>
  BY DEF Register, clientVars, stageVars, callVars
<1>2. SlabTypes /\ AcceptTypes /\ FreeVacant /\ CqOwned
  BY DEF Types, Owned
<1>3. PICK c : c = Head(regs)
  OBVIOUS
<1>4. PICK i \in Nat : Becomes(i, c, "Armed", <<>>, 0) /\ (i \notin Entries \/ slab[i] = 0)
  BY <1>2, <1>3, RegisterEffect
<1>5. /\ buf'[i] = <<>> /\ Entries' = Entries \cup {i}
      /\ \A j \in Entries : j # i => slab'[j] = slab[j] /\ buf'[j] = buf[j]
  BY <1>4 DEF Becomes
<1>6. \A k \in DOMAIN cq : cq[k].idx \in Entries /\ cq[k].idx # i
  BY <1>2, <1>4 DEF CqOwned
<1>7. ASSUME NEW d \in Conns, NEW m \in Nat, Coming(d, m)' PROVE Coming(d, m)
  <2>1. ASSUME NEW k \in DOMAIN (wire'[d]), wire'[d][k].id = m PROVE Coming(d, m)
    BY <1>1, <2>1 DEF Coming
  <2>2. ASSUME NEW k \in DOMAIN cq', slab'[cq'[k].idx] = d, NEW l \in DOMAIN cq'[k].frames, cq'[k].frames[l].id = m
        PROVE  Coming(d, m)
    BY <1>1, <1>5, <1>6, <2>2 DEF Coming
  <2>3. ASSUME NEW j \in Entries', slab'[j] = d, NEW k \in DOMAIN (buf'[j]), buf'[j][k].id = m PROVE Coming(d, m)
    <3>1. j # i
      BY <1>5, <2>3
    <3>2. QED
      BY <1>5, <2>3, <3>1 DEF Coming
  <2>4. QED
    BY <1>7, <2>1, <2>2, <2>3 DEF Coming
<1>8. Unfinished' = Unfinished /\ \A d \in Conns : \A m \in Nat : Going(d, m)' => Going(d, m)
  BY <1>1 DEF Unfinished, Going, Queue, Replies
<1>9. \A d \in Conns : \A m \in Nat : UnderWay(d, m)' => UnderWay(d, m)
  BY <1>7, <1>8 DEF UnderWay
<1>10. Onward /\ Held' = Held
  BY <1>1, NamedSame, OnwardSame DEF Held
<1>11. \A d \in Conns : Gone(d) => Gone(d)'
  BY <1>10, GoneStays
<1>12. rpc' \in {"resnap", "redrain", "release"} => between
  BY <1>1 DEF SeenWhole
<1>13. QED
  BY <1>1, <1>8, <1>9, <1>11, <1>12, SeenStays

\* The reader ends a connection: the response stage has still to let go of it.
LEMMA EndsHeld ==
  ASSUME Types, NEW c \in Conns, control' = Append(control, <<"Disconnected", c>>), table' = table
  PROVE  Held' = Held
<1>1. Named("Connected")' = Named("Connected")
  BY NamedAppended DEF Types
<1>2. QED
  BY <1>1 DEF Held

LEMMA TeardownGone ==
  ASSUME Numbered, Types, Owned, Owned', NEW i \in Entries, slab[i] # 0, recv[i] # "Dying", BeginTeardown(i),
         UNCHANGED <<wire, cq, table, accepting>>
  PROVE  /\ \A d \in Conns : Gone(d) => Gone(d)'
         /\ \A d \in Conns : \A m \in Nat : Coming(d, m)' => Coming(d, m)
<1>1. SlabTypes /\ 0 \notin Conns
  BY DEF Types, Numbered
<1>2. PICK c : c = slab[i]
  OBVIOUS
<1>3. c \in Conns
  BY <1>1, <1>2, SlabFacts
<1>4. /\ sock' = [sock EXCEPT ![c] = "shut"] /\ control' = Append(control, <<"Disconnected", c>>)
      /\ Entries' = Entries
      /\ Becomes(i, 0, "Idle", <<>>, 0) \/ Becomes(i, slab[i], "Dying", buf[i], shed[i])
  BY <1>1, <1>2, TeardownEffect
<1>5. Onward /\ Held' = Held
  BY <1>3, <1>4, OnwardShut, EndsHeld
<1>6. \A d \in Conns : Gone(d) => Gone(d)'
  BY <1>5, GoneStays
<1>7. ASSUME NEW d \in Conns, NEW m \in Nat, Coming(d, m)' PROVE Coming(d, m)
  <2>1. d # 0
    BY <1>1
  <2>2. CASE Becomes(i, 0, "Idle", <<>>, 0)
    <3>1. \A k \in DOMAIN <<>> : \/ \E l \in DOMAIN buf[i] : <<>>[k] = buf[i][l]
                                 \/ \E x \in DOMAIN cq : cq[x].idx = i /\ \E l \in DOMAIN cq[x].frames : <<>>[k] = cq[x].frames[l]
      OBVIOUS
    <3>2. QED
      BY <1>4, <1>7, <2>1, <2>2, <3>1, ComingMoved
  <2>3. CASE Becomes(i, slab[i], "Dying", buf[i], shed[i])
    BY <1>4, <1>7, <2>1, <2>3, ComingMoved
  <2>4. QED
    BY <1>4, <2>2, <2>3
<1>8. QED
  BY <1>6, <1>7

LEMMA SeenTimeOut ==
  ASSUME Numbered, Types, Owned, Owned', Roll, SeenWhole, NEW i \in Entries, TimeOut(i)
  PROVE  SeenWhole'
<1>1. TimeOutRest /\ slab[i] # 0 /\ recv[i] # "Dying" /\ BeginTeardown(i)
  BY DEF TimeOut, TimeOutRest
<1>2. /\ UNCHANGED <<client, sendbuf, between, sent, rpc, table, accepting>>
      /\ UNCHANGED <<wire, cq, input, batch, early, staged, output>>
  BY <1>1 DEF TimeOutRest, clientVars, acceptVars, callVars, stageVars
<1>3. /\ \A d \in Conns : Gone(d) => Gone(d)'
      /\ \A d \in Conns : \A m \in Nat : Coming(d, m)' => Coming(d, m)
  BY <1>1, <1>2, TeardownGone
<1>4. Unfinished' = Unfinished /\ \A d \in Conns : \A m \in Nat : Going(d, m)' => Going(d, m)
  BY <1>2 DEF Unfinished, Going, Queue, Replies
<1>5. \A d \in Conns : \A m \in Nat : UnderWay(d, m)' => UnderWay(d, m)
  BY <1>3, <1>4 DEF UnderWay
<1>6. rpc' \in {"resnap", "redrain", "release"} => between
  BY <1>2 DEF SeenWhole
<1>7. QED
  BY <1>2, <1>3, <1>4, <1>5, <1>6, SeenStays

LEMMA SeenEndCall ==
  ASSUME Numbered, Types, Owned, Owned', Roll, Slots, SeenWhole, EndCall
  PROVE  SeenWhole'
<1>1. /\ UNCHANGED <<client, sendbuf, between, sent, rpc, table, accepting>> /\ UNCHANGED <<wire, cq, output>>
  BY DEF EndCall, clientVars, acceptVars, stageVars
<1>2. SlabTypes /\ BusyOwned /\ 0 \notin Conns
  BY DEF Types, Owned, Numbered
<1>3. busy # 0 /\ (BeginTeardown(busy) \/ (CallLeaves(busy) /\ Entries' = Entries))
  BY <1>2, EndCallEffect
<1>4. busy \in Entries /\ slab[busy] # 0 /\ recv[busy] # "Dying"
  BY <1>2, <1>3, BusyFacts
<1>5. /\ \A d \in Conns : Gone(d) => Gone(d)'
      /\ \A d \in Conns : \A m \in Nat : Coming(d, m)' => Coming(d, m)
  <2>1. CASE BeginTeardown(busy)
    BY <1>1, <1>4, <2>1, TeardownGone
  <2>2. CASE CallLeaves(busy) /\ Entries' = Entries
    <3>1. sock' = sock /\ control' = control
      BY <2>2 DEF CallLeaves
    <3>2. PICK r : Becomes(busy, slab[busy], r, buf[busy], shed[busy])
      BY <2>2 DEF CallLeaves
    <3>3. Onward /\ Held' = Held
      BY <1>1, <3>1, NamedSame, OnwardSame DEF Held
    <3>4. \A d \in Conns : Gone(d) => Gone(d)'
      BY <3>3, GoneStays
    <3>5. \A d \in Conns : d # 0
      BY <1>2
    <3>6. ASSUME NEW d \in Conns, NEW m \in Nat, Coming(d, m)' PROVE Coming(d, m)
      BY <1>1, <1>4, <2>2, <3>2, <3>5, <3>6, ComingMoved
    <3>7. QED
      BY <3>4, <3>6
  <2>3. QED
    BY <1>3, <2>1, <2>2
<1>6. /\ Queue' = Queue /\ Replies' = Replies
      /\ input # <<>> => Head(input') = Head(input)
  BY EndCallQueues
<1>7. ~between => Unfinished' = Unfinished
  <2>1. between \in BOOLEAN /\ half \in BOOLEAN /\ Turns
    BY DEF Types, StageTypes, QueueTypes, Slots
  <2>2. ~between /\ output = <<>> => input # <<>>
    BY <2>1 DEF Turns
  <2>3. QED
    BY <1>1, <1>6, <2>2 DEF Unfinished
<1>8. \A d \in Conns : \A m \in Nat : Going(d, m)' => Going(d, m)
  BY <1>1, <1>6 DEF Going
<1>9. \A d \in Conns : \A m \in Nat : UnderWay(d, m)' => UnderWay(d, m)
  BY <1>5, <1>8 DEF UnderWay
<1>10. rpc' \in {"resnap", "redrain", "release"} => between
  BY <1>1 DEF SeenWhole
<1>11. QED
  BY <1>1, <1>5, <1>7, <1>9, <1>10, SeenStays

LEMMA SeenTakeCqe ==
  ASSUME Numbered, Types, Owned, Owned', Roll, SeenWhole, NEW v, TakeCqe(v)
  PROVE  SeenWhole'
<1>1. /\ UNCHANGED <<client, sendbuf, between, sent, rpc, table, sock, accepting>>
      /\ UNCHANGED <<wire, input, early, output>>
  BY DEF TakeCqe, clientVars, acceptVars, stageVars
<1>2. SlabTypes /\ CqOwned /\ BusyOwned /\ 0 \notin Conns
  BY DEF Types, Owned, Numbered
<1>3. /\ cq # <<>> /\ cq' = Tail(cq) /\ Entries' = Entries
      /\ CqeKept(cq[1].idx, cq[1]) \/ CqeArms(cq[1].idx, cq[1]) \/ CqeVacates(cq[1].idx, cq[1])
  BY <1>2, TakeCqeEffect
<1>4. PICK q : q = cq[1]
  OBVIOUS
<1>5. PICK i : i = q.idx
  OBVIOUS
<1>6. 1 \in DOMAIN cq /\ i \in Entries /\ slab[i] # 0 /\ slab[i] \in Conns /\ q.frames \in Seq(Request)
  BY <1>2, <1>3, <1>4, <1>5, HeadCqe, SlabFacts
<1>7. CqeKept(i, q) \/ CqeArms(i, q) \/ CqeVacates(i, q)
  BY <1>3, <1>4, <1>5
<1>8. /\ batch' = batch /\ staged' = staged
      /\ control' = control \/ control' = Append(control, <<"Disconnected", slab[i]>>)
  BY <1>7 DEF CqeKept, CqeArms, CqeVacates, CallBegins
<1>9. ASSUME NEW d \in Conns, NEW m \in Nat, Coming(d, m)' PROVE Coming(d, m)
  <2>0. d # 0 /\ buf[i] \in Seq(Request)
    BY <1>2, <1>6, SlabFacts
  <2>1. ASSUME NEW c \in {slab[i], 0}, NEW r, NEW s, NEW b, Becomes(i, c, r, b, s),
               \A k \in DOMAIN b : \/ \E l \in DOMAIN buf[i] : b[k] = buf[i][l]
                                   \/ \E l \in DOMAIN q.frames : b[k] = q.frames[l]
        PROVE  Coming(d, m)
    <3>1. \A k \in DOMAIN b : \/ \E l \in DOMAIN buf[i] : b[k] = buf[i][l]
                              \/ \E x \in DOMAIN cq : cq[x].idx = i /\ \E l \in DOMAIN cq[x].frames : b[k] = cq[x].frames[l]
      BY <1>4, <1>5, <1>6, <2>1
    <3>2. QED
      BY <1>1, <1>3, <1>6, <1>9, <2>0, <2>1, <3>1, ComingMoved
  <2>2. \A k \in DOMAIN buf[i] : \E l \in DOMAIN buf[i] : buf[i][k] = buf[i][l]
    OBVIOUS
  <2>3. ASSUME NEW b, b = buf[i] \o q.frames, NEW k \in DOMAIN b
        PROVE  \/ \E l \in DOMAIN buf[i] : b[k] = buf[i][l]
               \/ \E l \in DOMAIN q.frames : b[k] = q.frames[l]
    <3> DEFINE x == buf[i]
               y == q.frames
    <3>1. x \in Seq(Request) /\ y \in Seq(Request) /\ b = x \o y /\ DOMAIN x = 1..Len(x) /\ DOMAIN y = 1..Len(y)
      BY <1>6, <2>0, <2>3, SeqFacts
    <3> HIDE DEF x, y
    <3>2. \/ k \in 1..Len(x) /\ b[k] = x[k]
          \/ k - Len(x) \in 1..Len(y) /\ b[k] = y[k - Len(x)] /\ k > Len(x)
      BY <2>3, <3>1, ConcatSplit, Zenon
    <3>3. (\E l \in DOMAIN x : b[k] = x[l]) \/ (\E l \in DOMAIN y : b[k] = y[l])
      BY <3>1, <3>2
    <3>4. QED
      BY <3>3 DEF x, y
  <2>4. CASE CqeKept(i, q)
    <3>1. PICK b \in {buf[i], buf[i] \o q.frames} :
                 Becomes(i, slab[i], Afterwards(recv[i], q.terminal), b, shed[i])
      BY <2>4 DEF CqeKept
    <3>2. CASE b = buf[i]
      BY <2>1, <2>2, <3>1, <3>2
    <3>3. CASE b = buf[i] \o q.frames
      <4>1. \A k \in DOMAIN b : \/ \E l \in DOMAIN buf[i] : b[k] = buf[i][l]
                                \/ \E l \in DOMAIN q.frames : b[k] = q.frames[l]
        BY <2>3, <3>3
      <4>2. QED
        BY <2>1, <3>1, <4>1
    <3>4. QED
      BY <3>1, <3>2, <3>3
  <2>5. CASE CqeArms(i, q)
    BY <2>1, <2>2, <2>5 DEF CqeArms
  <2>6. CASE CqeVacates(i, q)
    <3>1. Becomes(i, 0, "Idle", <<>>, 0) /\ DOMAIN <<>> = {}
      BY <2>6 DEF CqeVacates
    <3>2. QED
      BY <2>1, <3>1
  <2>7. QED
    BY <1>7, <2>4, <2>5, <2>6
<1>10. Unfinished' = Unfinished /\ \A d \in Conns : \A m \in Nat : Going(d, m)' => Going(d, m)
  BY <1>1, <1>8 DEF Unfinished, Going, Queue, Replies
<1>11. \A d \in Conns : \A m \in Nat : UnderWay(d, m)' => UnderWay(d, m)
  BY <1>9, <1>10 DEF UnderWay
<1>12. Held' = Held
  <2>1. CASE control' = control
    BY <1>1, <2>1, NamedSame DEF Held
  <2>2. CASE control' = Append(control, <<"Disconnected", slab[i]>>)
    BY <1>1, <1>6, <2>2, EndsHeld
  <2>3. QED
    BY <1>8, <2>1, <2>2
<1>13. \A d \in Conns : Gone(d) => Gone(d)'
  BY <1>1, <1>12, OnwardSame, GoneStays
<1>14. rpc' \in {"resnap", "redrain", "release"} => between
  BY <1>1 DEF SeenWhole
<1>15. QED
  BY <1>1, <1>10, <1>11, <1>13, <1>14, SeenStays

\* An element of a sequence grown by one.
LEMMA AppendSplit ==
  ASSUME NEW S, NEW s \in Seq(S), NEW e \in S, NEW t, t = Append(s, e), NEW k \in DOMAIN t
  PROVE  (k \in DOMAIN s /\ t[k] = s[k]) \/ t[k] = e
<1>1. /\ Len(s) \in Nat /\ DOMAIN s = 1..Len(s) /\ DOMAIN t = 1..Len(t) /\ Len(t) = Len(s) + 1
      /\ t[Len(s) + 1] = e /\ \A j \in 1..Len(s) : t[j] = s[j]
  BY AppendEffect, SeqFacts
<1>2. QED
  BY <1>1

\* The frame at the head of the buffer moves on.
LEMMA SeenProcessFrame ==
  ASSUME Numbered, Types, Owned, Owned', Roll, SeenWhole, ProcessFrame
  PROVE  SeenWhole'
<1>1. UNCHANGED <<client, sendbuf, between, sent, rpc, table, sock, accepting, control>>
  BY DEF ProcessFrame, clientVars, acceptVars, stageVars
<1>2. SlabTypes /\ BusyOwned /\ 0 \notin Conns
  BY DEF Types, Owned, Numbered
<1>3. PICK i : i = busy
  OBVIOUS
<1>4. PICK c : c = slab[i]
  OBVIOUS
<1>5. PICK n : n = buf[i][1].id
  OBVIOUS
<1>6. /\ UNCHANGED <<input, output, half, between>> /\ UNCHANGED <<wire, sent, cq>>
      /\ i \in Entries /\ c # 0 /\ buf[i] # <<>>
      /\ \/ /\ FrameAnswered(i) /\ Queue' = Queue
            /\ \E r \in Reply : Replies' = Append(Replies, r) /\ Pair(r) = <<c, n>>
         \/ FrameParks(i) /\ Queue' = Queue /\ Replies' = Replies
         \/ /\ FrameTaken(i) /\ Replies' = Replies
            /\ \E a \in Ask : Queue' = Append(Queue, a) /\ Pair(a) = <<c, n>>
  BY <1>3, <1>4, <1>5, FrameQueues
<1>7. Entries' = Entries
  BY <1>2, ProcessFrameEffect
<1>8. buf[i] \in Seq(Request)
  BY <1>2, <1>6, SlabFacts
<1>9. 1 \in DOMAIN buf[i] /\ \A k \in DOMAIN (Tail(buf[i])) : \E l \in DOMAIN buf[i] : Tail(buf[i])[k] = buf[i][l]
  <2> DEFINE s == buf[i]
             t == Tail(s)
  <2>1. s \in Seq(Request) /\ s # <<>> /\ t = Tail(s)
    BY <1>6, <1>8
  <2> HIDE DEF s, t
  <2>2. Shift(s, t, 1)
    BY <2>1, ShiftTail
  <2>3. 1 \in DOMAIN s
    BY <2>1, SeqFacts
  <2>4. \A k \in DOMAIN t : \E l \in DOMAIN s : t[k] = s[l]
    BY <2>2 DEF Shift
  <2>5. QED
    BY <2>3, <2>4 DEF s, t
<1>10. PICK b \in {buf[i], Tail(buf[i])} : \E s : Becomes(i, slab[i], recv[i], b, s)
  BY <1>6 DEF FrameAnswered, FrameParks, FrameTaken
<1>11. PICK s : Becomes(i, slab[i], recv[i], b, s)
  BY <1>10
<1>12. \A k \in DOMAIN b : \E l \in DOMAIN buf[i] : b[k] = buf[i][l]
  BY <1>9, <1>10
<1>13. ASSUME NEW d \in Conns, NEW m \in Nat, Coming(d, m)' PROVE Coming(d, m)
  <2>1. d # 0
    BY <1>2
  <2>2. QED
    BY <1>6, <1>7, <1>11, <1>12, <1>13, <2>1, ComingMoved
<1>14. Coming(c, n)
  BY <1>4, <1>5, <1>6, <1>9 DEF Coming
<1>15. ASSUME NEW d, NEW m, Going(d, m)' PROVE Going(d, m) \/ Coming(d, m)
  <2>1. \A k \in DOMAIN Queue' : (k \in DOMAIN Queue /\ Queue'[k] = Queue[k]) \/ Pair(Queue'[k]) = <<c, n>>
    <3>1. CASE Queue' = Queue
      BY <3>1
    <3>2. ASSUME NEW a \in Ask, Queue' = Append(Queue, a), Pair(a) = <<c, n>>, NEW k \in DOMAIN Queue'
          PROVE  (k \in DOMAIN Queue /\ Queue'[k] = Queue[k]) \/ Pair(Queue'[k]) = <<c, n>>
      <4> DEFINE x == Queue'
      <4>1. Queue \in Seq(Ask) /\ x = Append(Queue, a) /\ k \in DOMAIN x
        BY <3>2, QueuesTyped
      <4> HIDE DEF x
      <4>2. (k \in DOMAIN Queue /\ x[k] = Queue[k]) \/ x[k] = a
        BY <4>1, AppendSplit
      <4>3. QED
        BY <3>2, <4>2 DEF x
    <3>3. QED
      BY <1>6, <3>1, <3>2
  <2>2. \A k \in DOMAIN Replies' : (k \in DOMAIN Replies /\ Replies'[k] = Replies[k]) \/ Pair(Replies'[k]) = <<c, n>>
    <3>1. CASE Replies' = Replies
      BY <3>1
    <3>2. ASSUME NEW r \in Reply, Replies' = Append(Replies, r), Pair(r) = <<c, n>>, NEW k \in DOMAIN Replies'
          PROVE  (k \in DOMAIN Replies /\ Replies'[k] = Replies[k]) \/ Pair(Replies'[k]) = <<c, n>>
      <4> DEFINE x == Replies'
      <4>1. Replies \in Seq(Reply) /\ x = Append(Replies, r) /\ k \in DOMAIN x
        BY <3>2, QueuesTyped
      <4> HIDE DEF x
      <4>2. (k \in DOMAIN Replies /\ x[k] = Replies[k]) \/ x[k] = r
        BY <4>1, AppendSplit
      <4>3. QED
        BY <3>2, <4>2 DEF x
    <3>3. QED
      BY <1>6, <3>1, <3>2
  <2>3. \A k \in DOMAIN output' : k \in DOMAIN output /\ output'[k] = output[k]
    BY <1>6
  <2>4. <<d, m>> = <<c, n>> => Coming(d, m)
    BY <1>14
  <2>5. QED
    BY <1>15, <2>1, <2>2, <2>3, <2>4 DEF Going
<1>16. \A d \in Conns : \A m \in Nat : UnderWay(d, m)' => UnderWay(d, m)
  BY <1>13, <1>15 DEF UnderWay
<1>17. Unfinished' = Unfinished
  BY <1>6 DEF Unfinished
<1>18. Held' = Held
  BY <1>1, NamedSame DEF Held
<1>19. \A d \in Conns : Gone(d) => Gone(d)'
  BY <1>1, <1>18, OnwardSame, GoneStays
<1>20. rpc' \in {"resnap", "redrain", "release"} => between
  BY <1>1 DEF SeenWhole
<1>21. QED
  BY <1>1, <1>16, <1>17, <1>19, <1>20, SeenStays

LEMMA SeenMatch ==
  ASSUME Types, Roll, Slots, SeenWhole, MatchStep
  PROVE  SeenWhole'
<1>1. /\ UNCHANGED <<client, sendbuf, between, sent, rpc, table, sock, accepting, control>>
      /\ UNCHANGED <<wire, cq, slab, buf>>
  BY MatchEffect DEF MatchRest, clientVars, acceptVars, stageVars, slabVars
<1>2. /\ 1 \in DOMAIN Queue /\ Queue[1] = input[1] /\ input # <<>> /\ Head(input) = input[1] /\ Replies' = Replies
      /\ IF half THEN Shift(Queue, Queue', 1) ELSE Queue' = Queue /\ input' = input
  BY MatchQueues
<1>3. PICK s \in Slot : s = [conn |-> input[1].conn, id |-> input[1].id, last |-> half]
  BY MatchEffect
<1>4. Pair(s) = Pair(Queue[1])
  BY <1>2, <1>3 DEF Pair
<1> DEFINE t == output'
<1>5. t = Append(output, s) /\ output \in Seq(Slot)
  BY <1>3, MatchEffect DEF Types, QueueTypes
<1> HIDE DEF t
<1>6. /\ Len(output) \in Nat /\ DOMAIN output = 1..Len(output) /\ t \in Seq(Slot) /\ Len(t) = Len(output) + 1
      /\ t[Len(output) + 1] = s /\ \A k \in 1..Len(output) : t[k] = output[k]
      /\ (output = <<>> <=> Len(output) = 0)
  BY <1>5, AppendEffect, SeqFacts
<1>7. \A k \in DOMAIN t : (k \in DOMAIN output /\ t[k] = output[k]) \/ t[k] = s
  BY <1>5, AppendSplit
<1>8. t # <<>>
  BY <1>6, SeqFacts
<1>9. Unfinished' = Unfinished
  <2>1. CASE output = <<>>
    <3>1. t[1] = s
      BY <1>6, <2>1
    <3>2. Pair(s) = Pair(Head(input))
      BY <1>2, <1>4
    <3>3. QED
      BY <1>8, <2>1, <3>1, <3>2 DEF Unfinished, t
  <2>2. CASE output # <<>>
    <3>1. 1 \in 1..Len(output)
      BY <1>6, <2>2
    <3>2. t[1] = output[1]
      BY <1>6, <3>1
    <3>3. QED
      BY <1>8, <2>2, <3>2 DEF Unfinished, t
  <2>3. QED
    BY <2>1, <2>2
<1>10. \A k \in DOMAIN Queue' : \E l \in DOMAIN Queue : Queue'[k] = Queue[l]
  BY <1>2 DEF Shift
<1>11. \A d \in Conns : \A m \in Nat : Going(d, m)' => Going(d, m)
  BY <1>2, <1>4, <1>7, <1>10 DEF Going, t
<1>12. \A d \in Conns : \A m \in Nat : Coming(d, m)' => Coming(d, m)
  BY <1>1 DEF Coming, Entries
<1>13. \A d \in Conns : \A m \in Nat : UnderWay(d, m)' => UnderWay(d, m)
  BY <1>11, <1>12 DEF UnderWay
<1>14. Held' = Held
  BY <1>1, NamedSame DEF Held
<1>15. \A d \in Conns : Gone(d) => Gone(d)'
  BY <1>1, <1>14, OnwardSame, GoneStays
<1>16. rpc' \in {"resnap", "redrain", "release"} => between
  BY <1>1 DEF SeenWhole
<1>17. QED
  BY <1>1, <1>9, <1>13, <1>15, <1>16, SeenStays

\* A request goes out: it is outstanding, and on its way.
LEMMA SeenSend ==
  ASSUME Numbered, Types, Roll, SeenWhole, NEW c \in Conns, NEW kind \in Kinds, Send(c, kind)
  PROVE  SeenWhole'
<1>1. /\ UNCHANGED <<sendbuf, between, rpc, table, sock, accepting, control>>
      /\ UNCHANGED <<cq, slab, buf, input, batch, early, staged, output>>
  BY DEF Send, acceptVars, stageVars, slabVars, callVars
<1>2. PICK x : x = sent[c] + 1
  OBVIOUS
<1>3. PICK f : f = [from |-> c, id |-> x, kind |-> kind]
  OBVIOUS
<1>4. /\ sent' = [sent EXCEPT ![c] = x] /\ wire' = [wire EXCEPT ![c] = Append(wire[c], f)]
      /\ client' = [client EXCEPT ![c] = [client[c] EXCEPT !.out = @ \cup {x}]]
  BY <1>2, <1>3 DEF Send
<1>5. /\ sent \in [Conns -> Nat] /\ wire \in [Conns -> Seq(Request)] /\ client \in [Conns -> Account]
  BY DEF Types, ClientTypes
<1>6. sent[c] \in Nat /\ x \in Nat /\ f \in Request /\ f.id = x
  <2>1. sent[c] \in Nat
    BY <1>5
  <2>2. x \in Nat
    BY <1>2, <2>1
  <2>3. QED
    BY <1>3, <2>1, <2>2 DEF Request
<1>7. /\ sent'[c] = x /\ \A d \in Conns : d # c => sent'[d] = sent[d] /\ wire'[d] = wire[d] /\ client'[d] = client[d]
      /\ wire'[c] = Append(wire[c], f)
  BY <1>4, <1>5
<1>8. PICK b : b = client[c]
  OBVIOUS
<1>9. PICK a : a = [b EXCEPT !.out = @ \cup {x}]
  OBVIOUS
<1>10. client'[c] = a /\ b \in Account
  BY <1>4, <1>5, <1>8, <1>9
<1>11. a \in Account /\ Besides(a, b, x)
  <2>1. b.out \subseteq Nat /\ b.mid \in Nat /\ b.bad \in BOOLEAN
    BY <1>10 DEF Account
  <2>2. a = [out |-> b.out \cup {x}, mid |-> b.mid, bad |-> b.bad]
    BY <1>9, <1>10 DEF Account
  <2>3. QED
    BY <1>6, <2>1, <2>2 DEF Account, Besides
<1>12. PICK s : s = sendbuf[c]
  OBVIOUS
<1>13. s \in Seq(Bytes) /\ Upto(s, sent[c])
  BY <1>12 DEF Types, StageTypes, SeenWhole
<1>14. \A k \in 1..Len(s) : s[k].id # x /\ s[k].id <= x
  <2>1. ASSUME NEW k \in 1..Len(s) PROVE s[k].id # x /\ s[k].id <= x
    <3>1. s[k] \in Bytes /\ k \in DOMAIN s
      BY <1>13, SeqFacts
    <3>2. s[k].id \in Nat /\ s[k].id <= sent[c]
      BY <1>13, <3>1 DEF Bytes, Upto
    <3>3. QED
      BY <1>2, <1>6, <3>2
  <2>2. QED
    BY <2>1
<1>15. Besides(Fold(a, s), Fold(b, s), x)
  BY <1>6, <1>10, <1>11, <1>13, <1>14, FoldBesides
<1>16. Seen(c) = Fold(b, s) /\ Seen(c)' = Fold(a, s)
  <2>1. sendbuf'[c] = s
    BY <1>1, <1>12
  <2>2. QED
    BY <1>8, <1>10, <1>12, <2>1 DEF Seen, Fold
<1>17. Seen(c)'.mid = Seen(c).mid /\ Seen(c)'.out = Seen(c).out \cup {x} /\ (Seen(c)'.bad => Seen(c).bad)
  BY <1>15, <1>16 DEF Besides
<1>18. \A d \in Conns : d # c => Seen(d)' = Seen(d)
  BY <1>1, <1>7 DEF Seen
<1>19. \A d \in Conns : Gone(d) <=> Gone(d)'
  BY <1>1, NamedSame DEF Gone, Known
<1>20. Queue' = Queue /\ Replies' = Replies /\ Unfinished' = Unfinished /\ Entries' = Entries
  BY <1>1 DEF Queue, Replies, Unfinished, Entries
<1>21. \A d \in Conns : Midway(d)' = Midway(d)
  BY <1>1, <1>20 DEF Midway
<1>22. ASSUME NEW d \in Conns, NEW m \in Nat, UnderWay(d, m)' PROVE UnderWay(d, m) \/ (d = c /\ m = x)
  <2>1. ASSUME NEW k \in DOMAIN (wire'[d]), wire'[d][k].id = m PROVE Coming(d, m) \/ (d = c /\ m = x)
    <3>1. CASE d # c
      BY <1>7, <2>1, <3>1 DEF Coming
    <3>2. CASE d = c
      <4> DEFINE u == wire[c]
                 t == wire'[c]
      <4>1. u \in Seq(Request) /\ t = Append(u, f) /\ k \in DOMAIN t
        BY <1>5, <1>7, <2>1, <3>2
      <4> HIDE DEF u, t
      <4>2. (k \in DOMAIN u /\ t[k] = u[k]) \/ t[k] = f
        BY <1>6, <4>1, AppendSplit
      <4>3. QED
        BY <1>6, <2>1, <3>2, <4>2 DEF Coming, u, t
    <3>3. QED
      BY <3>1, <3>2
  <2>2. Coming(d, m)' => Coming(d, m) \/ (d = c /\ m = x)
    BY <1>1, <1>20, <2>1 DEF Coming
  <2>3. Going(d, m)' => Going(d, m)
    BY <1>1, <1>20 DEF Going
  <2>4. QED
    BY <1>22, <2>2, <2>3 DEF UnderWay
<1>23. \A d \in Conns : ~Seen(d)'.bad
  BY <1>17, <1>18 DEF SeenWhole
<1>24. ASSUME NEW d \in Conns, ~Gone(d)'
       PROVE  Seen(d)'.mid = Midway(d)' /\ \A n \in Nat : UnderWay(d, n)' => n \in Seen(d)'.out
  <2>1. ~Gone(d)
    BY <1>19, <1>24
  <2>2. Seen(d).mid = Midway(d) /\ \A n \in Nat : UnderWay(d, n) => n \in Seen(d).out
    BY <2>1 DEF SeenWhole
  <2>3. QED
    BY <1>17, <1>18, <1>21, <1>22, <2>2
<1>25. \A d \in Conns : Upto(sendbuf'[d], sent'[d])
  <2>1. Upto(s, x)
    <3>1. DOMAIN s = 1..Len(s)
      BY <1>13, SeqFacts
    <3>2. QED
      BY <1>14, <3>1 DEF Upto
  <2>2. QED
    BY <1>1, <1>7, <1>12, <2>1 DEF SeenWhole
<1>26. QED
  BY <1>1, <1>23, <1>24, <1>25 DEF SeenWhole

\* Bytes reach the clients, or go with the connection.
LEMMA SeenLeft ==
  ASSUME SeenWhole, UNCHANGED <<between, sent>>, Unfinished' = Unfinished,
         \A c \in Conns : Gone(c) => Gone(c)',
         \A c \in Conns : \A n \in Nat : UnderWay(c, n)' => UnderWay(c, n),
         \A c \in Conns : Seen(c)' = Seen(c) \/ (Gone(c)' /\ ~Seen(c)'.bad),
         \A c \in Conns : Upto(sendbuf'[c], sent[c]),
         rpc' \in {"resnap", "redrain", "release"} => between
  PROVE  SeenWhole'
<1>1. \A c \in Conns : ~Seen(c)'.bad
  BY DEF SeenWhole
<1>2. \A c \in Conns : Midway(c)' = Midway(c)
  BY DEF Midway
<1>3. ASSUME NEW c \in Conns, ~Gone(c)'
      PROVE  Seen(c)'.mid = Midway(c)' /\ \A n \in Nat : UnderWay(c, n)' => n \in Seen(c)'.out
  <2>1. ~Gone(c) /\ Seen(c)' = Seen(c)
    BY <1>3
  <2>2. QED
    BY <1>2, <1>3, <2>1 DEF SeenWhole
<1>4. QED
  BY <1>1, <1>3 DEF SeenWhole

LEMMA SeenDrain ==
  ASSUME Numbered, Types, Roll, SeenWhole, Drain
  PROVE  SeenWhole'
<1>1. /\ UNCHANGED <<client, between, sent, sock, accepting>>
      /\ UNCHANGED <<wire, cq, slab, buf, input, batch, early, staged, output>>
  BY DrainEffect DEF StageUnchanged, stageRest, clientVars, acceptVars, slabVars, callVars
<1>2. /\ table' = (table \cup Named("Connected")) \ Named("Disconnected")
      /\ sendbuf' = [c \in Conns |-> IF c \in Named("Disconnected") THEN <<>> ELSE sendbuf[c]]
      /\ control' = <<>>
      /\ rpc' = "turn" \/ (rpc = "redrain" /\ rpc' = "release")
  BY DrainEffect
<1>3. Named("Connected")' = {}
  BY <1>2, NamedNone
<1>4. Onward /\ \A c \in Held' : c \in Held
  BY <1>1, <1>2, <1>3, OnwardSame DEF Held
<1>5. \A c \in Conns : Gone(c) => Gone(c)'
  BY <1>4, GoneStays
<1>6. ASSUME NEW c \in Conns PROVE Seen(c)' = Seen(c) \/ (Gone(c)' /\ ~Seen(c)'.bad)
  <2>1. CASE c \in Named("Disconnected")
    <3>1. Known(c)
      BY <2>1 DEF Roll, EndsShut
    <3>2. Gone(c)'
      BY <1>1, <1>2, <1>3, <2>1, <3>1 DEF Gone, Known
    <3>3. Seen(c)' = Fold(client[c], <<>>)
      BY <1>1, <1>2, <2>1 DEF Seen, Fold
    <3>4. Seen(c)' = client[c]
      BY <3>3, FoldEmpty
    <3>5. /\ client[c] \in Account /\ sendbuf[c] \in Seq(Bytes) /\ Seen(c) = Fold(client[c], sendbuf[c])
          /\ ~Seen(c).bad
      BY SeenTyped DEF SeenWhole
    <3>6. ~client[c].bad
      BY <3>5, FoldFacts
    <3>7. QED
      BY <3>2, <3>4, <3>6
  <2>2. CASE c \notin Named("Disconnected")
    <3>1. sendbuf'[c] = sendbuf[c]
      BY <1>2, <2>2
    <3>2. QED
      BY <1>1, <3>1 DEF Seen
  <2>3. QED
    BY <2>1, <2>2
<1>7. \A c \in Conns : Upto(sendbuf'[c], sent[c])
  <2>1. \A n : Upto(<<>>, n)
    BY DEF Upto
  <2>2. QED
    BY <1>2, <2>1 DEF SeenWhole
<1>8. rpc' \in {"resnap", "redrain", "release"} => between
  BY <1>2 DEF SeenWhole
<1>9. QED
  BY <1>1, <1>5, <1>6, <1>7, <1>8, UnderWaySame, SeenLeft

\* A buffer cut in two.
Cuts(w, n, p, t) == p = SubSeq(w, 1, n) /\ t = SubSeq(w, n + 1, Len(w))

LEMMA FoldCut ==
  ASSUME NEW st \in Account, NEW w \in Seq(Bytes), NEW n \in 0..Len(w), NEW p, NEW t, Cuts(w, n, p, t)
  PROVE  /\ p \in Seq(Bytes) /\ t \in Seq(Bytes)
         /\ Fold(st, w) = Fold(Fold(st, p), t)
         /\ ~Fold(st, w).bad => ~Fold(st, p).bad
<1>0. p = SubSeq(w, 1, n) /\ t = SubSeq(w, n + 1, Len(w))
  BY DEF Cuts
<1>1. Len(w) \in Nat /\ p \in Seq(Bytes) /\ t \in Seq(Bytes)
  BY <1>0, PrefixEffect, SuffixEffect, SeqFacts
<1>2. 1 \in 1..(Len(w) + 1) /\ n \in (1 - 1)..Len(w) /\ Len(w) \in n..Len(w)
  BY <1>1
<1>3. p \o t = SubSeq(w, 1, Len(w))
  BY <1>0, <1>2, ConcatAdjacentSubSeq
<1>4. Cat(p, t, w)
  BY <1>3, SubSeqFull DEF Cat
<1>5. Fold(st, w) = Fold(Fold(st, p), t)
  BY <1>1, <1>4, FoldConcat
<1>6. Fold(st, p) \in Account
  BY <1>1, FoldFacts
<1>7. QED
  BY <1>1, <1>5, <1>6, FoldFacts

LEMMA SeenFlush ==
  ASSUME Numbered, Types, Roll, SeenWhole, Flush
  PROVE  SeenWhole'
<1>1. /\ UNCHANGED <<between, sent, accepting, control>>
      /\ UNCHANGED <<wire, cq, slab, buf, input, batch, early, staged, output>>
      /\ rpc' \in {"read", "waiting", "turn"}
  BY FlushEffect DEF FlushRest, acceptVars, slabVars, callVars
<1>2. Named("Connected")' = Named("Connected")
  BY <1>1, NamedSame
<1>3. \A c \in Conns : /\ client[c] \in Account /\ sendbuf[c] \in Seq(Bytes) /\ Seen(c) \in Account
                       /\ Seen(c) = Fold(client[c], sendbuf[c]) /\ ~Seen(c).bad /\ Upto(sendbuf[c], sent[c])
  BY SeenTyped DEF SeenWhole
<1>4. \A n : Upto(<<>>, n)
  BY DEF Upto
<1>5. ASSUME NEW c \in Conns, client'[c] = Seen(c), sendbuf'[c] = <<>>
      PROVE  Seen(c)' = Seen(c) /\ Upto(sendbuf'[c], sent[c])
  <2>1. Seen(c)' = Fold(client'[c], <<>>)
    BY <1>5 DEF Seen, Fold
  <2>2. QED
    BY <1>4, <1>5, <2>1, FoldEmpty
<1>6. CASE FlushAll
  <2>1. \A c \in Conns : Seen(c)' = Seen(c) /\ Upto(sendbuf'[c], sent[c])
    BY <1>5, <1>6 DEF FlushAll
  <2>2. Onward /\ Held' = Held
    BY <1>1, <1>2, <1>6, OnwardSame DEF FlushAll, Held
  <2>3. \A c \in Conns : Gone(c) => Gone(c)'
    BY <2>2, GoneStays
  <2>4. QED
    BY <1>1, <2>1, <2>3, UnderWaySame, SeenLeft
<1>7. ASSUME NEW c \in table, NEW n \in 0..(Len(sendbuf[c]) - 1), FlushSome(c, n) PROVE SeenWhole'
  <2>1. c \in Conns
    BY HeldTyped
  <2>2. PICK w : w = sendbuf[c]
    OBVIOUS
  <2>3. PICK p : p = SubSeq(w, 1, n)
    OBVIOUS
  <2>4. PICK t : t = SubSeq(w, n + 1, Len(w))
    OBVIOUS
  <2>5. w \in Seq(Bytes) /\ n \in 0..Len(w) /\ w # <<>> /\ client[c] \in Account
    <3>1. w \in Seq(Bytes) /\ client[c] \in Account
      BY <1>3, <2>1, <2>2
    <3>2. Len(w) \in Nat /\ (w = <<>> => Len(w) = 0)
      BY <3>1, SeqFacts
    <3>3. n \in 0..Len(w) /\ Len(w) # 0
      BY <1>7, <2>2, <3>2
    <3>4. QED
      BY <3>1, <3>2, <3>3
  <2>6. /\ Fold(client[c], w) = Fold(Fold(client[c], p), t)
        /\ ~Fold(client[c], w).bad => ~Fold(client[c], p).bad
    <3>1. Cuts(w, n, p, t)
      BY <2>3, <2>4 DEF Cuts
    <3>2. QED
      BY <2>5, <3>1, FoldCut
  <2>7. Upto(t, sent[c])
    <3>1. w \in Seq(Bytes) /\ n \in 0..Len(w) /\ p = SubSeq(w, 1, n) /\ t = SubSeq(w, n + 1, Len(w))
      BY <2>3, <2>4, <2>5
    <3>2. Within(t, w)
      BY ONLY <3>1, CutWithin
    <3>3. Upto(w, sent[c])
      BY <1>3, <2>1, <2>2
    <3>4. QED
      BY <3>2, <3>3 DEF Within, Upto
  <2>8. client'[c] = Fold(client[c], p) /\ ~Fold(client[c], p).bad
    BY <1>3, <1>7, <2>1, <2>2, <2>3, <2>6 DEF FlushSome
  <2>9. \A b \in Conns : b # c => Seen(b)' = Seen(b) /\ Upto(sendbuf'[b], sent[b])
    BY <1>5, <1>7 DEF FlushSome
  <2>10. CASE sendbuf'[c] = t /\ sock' = sock /\ table' = table
    <3>1. Seen(c)' = Fold(client'[c], t)
      BY <2>10 DEF Seen, Fold
    <3>2. Seen(c)' = Seen(c)
      BY <1>3, <2>1, <2>2, <2>6, <2>8, <3>1
    <3>3. \A b \in Conns : Seen(b)' = Seen(b)
      BY <2>9, <3>2
    <3>4. \A b \in Conns : Upto(sendbuf'[b], sent[b])
      BY <2>7, <2>9, <2>10
    <3>5. Onward /\ Held' = Held
      BY <1>1, <1>2, <2>10, OnwardSame DEF Held
    <3>6. \A b \in Conns : Gone(b) => Gone(b)'
      BY <3>5, GoneStays
    <3>7. QED
      BY <1>1, <3>3, <3>4, <3>6, UnderWaySame, SeenLeft
  <2>11. CASE sendbuf'[c] = <<>> /\ table' = table \ {c} /\ sock' = [sock EXCEPT ![c] = "shut"]
    <3>1. Seen(c)' = Fold(client'[c], <<>>)
      BY <2>11 DEF Seen, Fold
    <3>2. ~Seen(c)'.bad
      BY <2>8, <3>1, FoldEmpty
    <3>3. Onward /\ Held' \subseteq Held
      BY <1>1, <1>2, <2>1, <2>11, OnwardShut DEF Held
    <3>4. \A b \in Conns : Gone(b) => Gone(b)'
      BY <3>3, GoneStays
    <3>5. Known(c) /\ c \notin Named("Connected")
      BY <2>1, <2>2, <2>5 DEF Roll, RollKept
    <3>6. Gone(c)'
      BY <1>2, <2>1, <2>11, <3>3, <3>5 DEF Gone, Known, Onward
    <3>7. \A b \in Conns : Seen(b)' = Seen(b) \/ (Gone(b)' /\ ~Seen(b)'.bad)
      BY <2>9, <3>2, <3>6
    <3>8. \A b \in Conns : Upto(sendbuf'[b], sent[b])
      BY <1>4, <2>9, <2>11
    <3>9. QED
      BY <1>1, <3>4, <3>7, <3>8, UnderWaySame, SeenLeft
  <2>12. QED
    BY <1>7, <2>2, <2>4, <2>10, <2>11 DEF FlushSome
<1>8. QED
  BY <1>6, <1>7, FlushEffect

-----------------------------------------------------------------------------
(* What the replies do to an account *)

LEMMA FoldTwo ==
  ASSUME NEW st, NEW x, NEW y
  PROVE  Fold(st, <<x, y>>) = observe(observe(st, x), y)
<1>1. PICK S : x \in S /\ y \in S
  <2>1. x \in {x, y} /\ y \in {x, y}
    OBVIOUS
  <2>2. QED
    BY <2>1
<1>2. PICK a : a = <<x>>
  OBVIOUS
<1>3. PICK b : b = <<y>>
  OBVIOUS
<1>4. PICK t : t = <<x, y>>
  OBVIOUS
<1>5. a \in Seq(S) /\ b \in Seq(S) /\ t = a \o b
  <2>1. <<x>> \in Seq(S) /\ <<y>> \in Seq(S)
    BY <1>1
  <2>2. Append(<<x>>, y) = <<x>> \o <<y>>
    BY <1>1, <2>1, AppendIsConcat
  <2>3. Append(<<x>>, y) = <<x, y>>
    <3> DEFINE u == Append(a, y)
    <3>1. a \in Seq(S) /\ u = Append(a, y) /\ Len(a) = 1 /\ a[1] = x /\ t \in Seq(S) /\ Len(t) = 2 /\ t[1] = x /\ t[2] = y
      BY <1>1, <1>2, <1>4
    <3> HIDE DEF u
    <3>2. u \in Seq(S) /\ Len(u) = Len(a) + 1 /\ u[Len(a) + 1] = y /\ \A k \in 1..Len(a) : u[k] = a[k]
      BY <1>1, <3>1, AppendEffect
    <3>3. Len(u) = 2 /\ u[1] = x /\ u[2] = y
      BY <3>1, <3>2
    <3>4. \A k \in 1..2 : k = 1 \/ k = 2
      OBVIOUS
    <3>5. \A k \in 1..Len(u) : u[k] = t[k]
      BY <3>1, <3>3, <3>4
    <3>6. u = t
      BY <3>1, <3>2, <3>3, <3>5, SeqEqual
    <3>7. QED
      BY <1>2, <1>4, <3>6 DEF u
  <2>4. QED
    BY <1>2, <1>3, <1>4, <2>1, <2>2, <2>3
<1>6. Cat(a, b, t)
  BY <1>5 DEF Cat
<1>7. Fold(st, t) = Fold(Fold(st, a), b)
  BY ONLY <1>5, <1>6, FoldConcat
<1>8. Fold(st, a) = observe(st, x)
  BY <1>2, FoldOne
<1>9. Fold(observe(st, x), b) = observe(observe(st, x), y)
  BY <1>3, FoldOne
<1>10. QED
  BY <1>4, <1>7, <1>8, <1>9

\* a is an account without fault, of what b owes, with mid half out.
Follows(a, b, mid) == ~a.bad /\ a.mid = mid /\ a.out = b

LEMMA FirstSlot ==
  ASSUME NEW st \in Account, NEW n \in Nat, ~st.bad, st.mid = 0, n \in st.out
  PROVE  Follows(Fold(st, <<Frame("response", n)>>), st.out, n)
<1>1. Frame("response", n).k = "response" /\ Frame("response", n).id = n
  BY DEF Frame
<1>2. PICK f : f = Frame("response", n)
  OBVIOUS
<1>3. observe(st, f) = [st EXCEPT !.bad = @ \/ st.out = {} \/ st.mid \notin {0, f.id}, !.mid = f.id]
  BY <1>1, <1>2 DEF observe
<1>4. st.bad \in BOOLEAN /\ st = [out |-> st.out, mid |-> st.mid, bad |-> st.bad]
  BY DEF Account
<1>5. observe(st, f) = [out |-> st.out, mid |-> n, bad |-> st.bad \/ st.out = {} \/ st.mid \notin {0, n}]
  BY <1>1, <1>2, <1>3, <1>4
<1>6. Fold(st, <<f>>) = observe(st, f)
  BY FoldOne
<1>7. QED
  BY <1>2, <1>4, <1>5, <1>6 DEF Follows

LEMMA LastSlot ==
  ASSUME NEW st \in Account, NEW n \in Nat, ~st.bad, st.mid \in {0, n}, n \in st.out
  PROVE  Follows(Fold(st, <<Frame("response", n), Frame("end", n)>>), st.out \ {n}, 0)
<1>1. PICK f : f = Frame("response", n)
  OBVIOUS
<1>2. PICK g : g = Frame("end", n)
  OBVIOUS
<1>3. f.k = "response" /\ f.id = n /\ g.k = "end" /\ g.id = n
  BY <1>1, <1>2 DEF Frame
<1>4. st.bad \in BOOLEAN /\ st = [out |-> st.out, mid |-> st.mid, bad |-> st.bad]
  BY DEF Account
<1>5. observe(st, f) = [st EXCEPT !.bad = @ \/ st.out = {} \/ st.mid \notin {0, f.id}, !.mid = f.id]
  BY <1>3 DEF observe
<1>6. PICK r : r = observe(st, f)
  OBVIOUS
<1>7. r = [out |-> st.out, mid |-> n, bad |-> st.bad \/ st.out = {} \/ st.mid \notin {0, n}]
  BY <1>3, <1>4, <1>5, <1>6
<1>8. r.out = st.out /\ r.mid = n /\ ~r.bad
  BY <1>7
<1>9. observe(r, g) = [out |-> r.out \ {g.id}, mid |-> 0, bad |-> r.bad \/ g.id \notin r.out \/ r.mid \notin {0, g.id}]
  BY <1>3 DEF observe
<1>10. Follows(observe(r, g), st.out \ {n}, 0)
  <2>1. (r.bad \/ g.id \notin r.out \/ r.mid \notin {0, g.id}) = FALSE
    BY <1>3, <1>8
  <2>2. observe(r, g) = [out |-> st.out \ {n}, mid |-> 0, bad |-> FALSE]
    BY <1>3, <1>8, <1>9, <2>1
  <2>3. QED
    BY <2>2 DEF Follows
<1>11. Fold(st, <<f, g>>) = observe(r, g)
  BY <1>6, FoldTwo
<1>12. QED
  BY <1>1, <1>2, <1>10, <1>11

LEMMA EarlyAlone ==
  ASSUME NEW st \in Account, NEW n \in Nat, ~st.bad, st.mid = 0, n \in st.out
  PROVE  Follows(Fold(st, <<Frame("early", n)>>), st.out \ {n}, 0)
<1>1. PICK f : f = Frame("early", n)
  OBVIOUS
<1>2. f.k = "early" /\ f.id = n
  BY <1>1 DEF Frame
<1>3. observe(st, f) = [out |-> st.out \ {f.id}, mid |-> 0, bad |-> st.bad \/ f.id \notin st.out \/ st.mid # 0]
  BY <1>2 DEF observe
<1>4. Follows(observe(st, f), st.out \ {n}, 0)
  <2>1. (st.bad \/ f.id \notin st.out \/ st.mid # 0) = FALSE
    BY <1>2
  <2>2. observe(st, f) = [out |-> st.out \ {n}, mid |-> 0, bad |-> FALSE]
    BY <1>2, <1>3, <2>1
  <2>3. QED
    BY <2>2 DEF Follows
<1>5. Fold(st, <<f>>) = observe(st, f)
  BY FoldOne
<1>6. QED
  BY <1>1, <1>4, <1>5

\* An early reply outside of any other takes its request off the account.
LEMMA EarlySeen ==
  ASSUME NEW st \in Account, NEW r \in Reply, ~st.bad, st.mid = 0, r.id \in st.out
  PROVE  Follows(Fold(st, EarlyFrames(r)), st.out \ {r.id}, 0)
<1>1. PICK n : n = r.id
  OBVIOUS
<1>2. n \in Nat /\ n \in st.out
  BY <1>1 DEF Reply
<1>3. CASE r.kind = "early"
  <2>1. EarlyFrames(r) = <<Frame("early", n)>>
    BY <1>1, <1>3 DEF EarlyFrames
  <2>2. QED
    BY <1>1, <1>2, <2>1, EarlyAlone
<1>4. CASE r.kind # "early"
  <2>1. EarlyFrames(r) = <<Frame("response", n), Frame("end", n)>>
    BY <1>1, <1>4 DEF EarlyFrames
  <2>2. QED
    BY <1>1, <1>2, <2>1, LastSlot
<1>5. QED
  BY <1>3, <1>4

LEMMA UptoJoined ==
  ASSUME NEW a \in Seq(Bytes), NEW b \in Seq(Bytes), NEW t, Cat(a, b, t), NEW x, Upto(a, x), Upto(b, x)
  PROVE  Upto(t, x)
<1>0. t = a \o b
  BY DEF Cat
<1>1. DOMAIN a = 1..Len(a) /\ DOMAIN b = 1..Len(b)
  BY SeqFacts
<1>2. ASSUME NEW k \in DOMAIN t PROVE t[k].id <= x
  <2>1. \/ k \in 1..Len(a) /\ t[k] = a[k]
        \/ k - Len(a) \in 1..Len(b) /\ t[k] = b[k - Len(a)] /\ k > Len(a)
    BY <1>0, <1>2, ConcatSplit, Zenon
  <2>2. QED
    BY <1>1, <2>1 DEF Upto
<1>3. QED
  BY <1>2 DEF Upto

\* The frames of a slot and of an early reply carry its request's id.
LEMMA FramesUpto ==
  ASSUME NEW n \in Nat, NEW x \in Nat, n <= x
  PROVE  /\ Upto(<<Frame("early", n)>>, x) /\ Upto(<<Frame("response", n)>>, x)
         /\ Upto(<<Frame("response", n), Frame("end", n)>>, x)
<1>1. Frame("early", n).id = n /\ Frame("response", n).id = n /\ Frame("end", n).id = n
  BY DEF Frame
<1>2. PICK e : e = Frame("early", n)
  OBVIOUS
<1>3. PICK f : f = Frame("response", n)
  OBVIOUS
<1>4. PICK g : g = Frame("end", n)
  OBVIOUS
<1>5. DOMAIN <<e>> = 1..1 /\ <<e>>[1] = e /\ DOMAIN <<f>> = 1..1 /\ <<f>>[1] = f
      /\ DOMAIN <<f, g>> = 1..2 /\ <<f, g>>[1] = f /\ <<f, g>>[2] = g
  OBVIOUS
<1>6. \A k \in 1..1 : k = 1
  OBVIOUS
<1>7. \A k \in 1..2 : k = 1 \/ k = 2
  OBVIOUS
<1>8. Upto(<<e>>, x) /\ Upto(<<f>>, x) /\ Upto(<<f, g>>, x)
  <2>1. e.id <= x /\ f.id <= x /\ g.id <= x
    BY <1>1, <1>2, <1>3, <1>4
  <2>2. QED
    BY <1>5, <1>6, <1>7, <2>1 DEF Upto
<1>9. QED
  BY <1>2, <1>3, <1>4, <1>8

\* Where the slot that is sent leaves the event it belongs to.
LEMMA SlotMidway ==
  ASSUME Types, Slots, SendSlot, NEW c, NEW n, Pair(output[1]) = <<c, n>>
  PROVE  IF output[1].last THEN ~between /\ between' /\ Unfinished = <<c, n>>
         ELSE between /\ ~between' /\ Unfinished' = <<c, n>>
<1>1. /\ output # <<>> /\ output' = Tail(output) /\ between' = output[1].last /\ input' = input
  BY SendSlotEffect DEF StageUnchanged, stageRest
<1>2. output \in Seq(Slot) /\ half \in BOOLEAN /\ between \in BOOLEAN /\ Turns /\ Alternate
  BY DEF Types, QueueTypes, StageTypes, Slots
<1>3. output[1].last = ~between
  BY <1>1, <1>2 DEF Turns
<1>4. CASE output[1].last
  BY <1>1, <1>2, <1>3, <1>4 DEF Unfinished
<1>5. CASE ~output[1].last
  <2> DEFINE t == output'
  <2>1. t = Tail(output)
    BY <1>1
  <2> HIDE DEF t
  <2>2. /\ t \in Seq(Slot) /\ Len(output) \in Nat /\ Len(output) >= 1 /\ Len(t) = Len(output) - 1
        /\ DOMAIN output = 1..Len(output) /\ \A k \in 1..Len(t) : t[k] = output[k + 1]
        /\ (t = <<>> <=> Len(t) = 0)
    <3>1. /\ t \in Seq(Slot) /\ Len(output) \in Nat /\ Len(output) >= 1 /\ Len(t) = Len(output) - 1
          /\ \A k \in 1..Len(t) : t[k] = output[k + 1]
      BY <1>1, <1>2, <2>1, TailEffect
    <3>2. DOMAIN output = 1..Len(output)
      BY <1>2, SeqFacts
    <3>3. t = <<>> <=> Len(t) = 0
      BY <3>1, SeqFacts
    <3>4. QED
      BY <3>1, <3>2, <3>3
  <2>3. CASE t = <<>>
    <3>1. Len(output) = 1
      BY <2>2, <2>3
    <3>2. output[1].last = ~half
      BY <1>1, <1>2, <3>1 DEF Turns
    <3>3. Pair(output[1]) = Pair(Head(input))
      BY <1>1, <1>2, <1>5, <3>1, <3>2 DEF Turns
    <3>4. Unfinished' = Pair(Head(input))
      BY <1>1, <2>3 DEF Unfinished, t, Pair
    <3>5. QED
      BY <1>1, <1>2, <1>3, <1>5, <3>3, <3>4
  <2>4. CASE t # <<>>
    <3>1. 1 \in DOMAIN output /\ 1 + 1 \in DOMAIN output /\ t[1] = output[1 + 1]
      BY <2>2, <2>4
    <3>2. Pair(output[1 + 1]) = Pair(output[1])
      BY <1>2, <1>5, <3>1 DEF Alternate
    <3>3. Unfinished' = Pair(t[1])
      BY <2>4 DEF Unfinished, t, Pair
    <3>4. QED
      BY <1>1, <1>2, <1>3, <1>5, <3>1, <3>2, <3>3
  <2>5. QED
    BY <2>3, <2>4
<1>6. QED
  BY <1>4, <1>5

\* A request's last slot is the last that is under way of it.
LEMMA LastAnswers ==
  ASSUME Types, Ordered, Slots, SendSlot, NEW c, NEW n, Pair(output[1]) = <<c, n>>, output[1].last
  PROVE  ~UnderWay(c, n)'
<1>1. /\ output # <<>> /\ output' = Tail(output) /\ UNCHANGED <<input, batch, early, staged, wire, cq, slab, buf>>
  BY SendSlotEffect DEF StageUnchanged, stageRest, clientVars, slabVars, callVars
<1>2. output \in Seq(Slot) /\ 1 \in DOMAIN output /\ <<c, n>> \in onRing
  <2>1. output \in Seq(Slot)
    BY DEF Types, QueueTypes
  <2>2. 1 \in DOMAIN output
    BY <1>1, <2>1, SeqFacts
  <2>3. QED
    BY <2>1, <2>2 DEF Slots, Once
<1>3. Past(c, n) /\ n \in Nat
  <2>1. Past(<<c, n>>[1], <<c, n>>[2])
    BY <1>2 DEF Ordered, PastKept
  <2>2. n = output[1].id
    BY DEF Pair
  <2>3. QED
    BY <1>2, <2>1, <2>2, QueuesTyped
<1>4. ~Coming(c, n)
  BY <1>3, PastNotComing
<1>5. Coming(c, n)' => Coming(c, n)
  BY <1>1 DEF Coming, Entries
<1>6. Queue' = Queue /\ Replies' = Replies
  BY <1>1 DEF Queue, Replies
<1>7. \A k \in DOMAIN Queue : Pair(Queue[k]) # <<c, n>>
  BY <1>2 DEF Slots, Alternate
<1>8. \A k \in DOMAIN Replies : Pair(Replies[k]) # <<c, n>>
  BY <1>2 DEF Slots, Once
<1>9. \A k \in DOMAIN output' : Pair(output'[k]) # <<c, n>>
  <2> DEFINE t == output'
  <2>1. t = Tail(output)
    BY <1>1
  <2> HIDE DEF t
  <2>2. Shift(output, t, 1)
    BY <1>1, <1>2, <2>1, ShiftTail
  <2>3. ASSUME NEW k \in DOMAIN t PROVE Pair(t[k]) # <<c, n>>
    <3> DEFINE m == k + 1
    <3>1. m \in DOMAIN output /\ t[k] = output[m] /\ 1 < m
      BY <2>2, <2>3 DEF Shift
    <3> HIDE DEF m
    <3>2. QED
      BY <1>2, <3>1 DEF Slots, Alternate
  <2>4. QED
    BY <2>3 DEF t
<1>10. QED
  BY <1>4, <1>5, <1>6, <1>7, <1>8, <1>9 DEF UnderWay, Going

LEMMA SeenSendSlot ==
  ASSUME Numbered, Types, Roll, Ordered, Heard, Slots, SeenWhole, SendSlot
  PROVE  SeenWhole'
<1>1. /\ UNCHANGED <<client, sent, table, sock, accepting, control>>
      /\ UNCHANGED <<wire, cq, slab, buf, input, batch, early, staged>>
      /\ rpc \in {"gate", "waiting"} /\ rpc' \in {"slotFlush", "read", "turn"} /\ take > 0
      /\ output # <<>> /\ output[1] \in Slot /\ output' = Tail(output)
  BY SendSlotEffect DEF StageUnchanged, stageRest, clientVars, acceptVars, slabVars, callVars
<1>2. PICK s : s = output[1]
  OBVIOUS
<1>3. PICK c : c = s.conn
  OBVIOUS
<1>4. PICK n : n = s.id
  OBVIOUS
<1>5. c \in Conns /\ n \in Nat /\ s.last \in BOOLEAN /\ Pair(output[1]) = <<c, n>> /\ s \in Slot
  BY <1>1, <1>2, <1>3, <1>4 DEF Slot, Pair
<1>6. sendbuf' = IF c \in table THEN [sendbuf EXCEPT ![c] = @ \o SlotFrames(s)] ELSE sendbuf
  BY <1>2, <1>3, SendSlotEffect
<1>7. Known(c) /\ c \notin Named("Connected") /\ 1 \in DOMAIN output
  <2>1. 1 \in 1..take /\ 1 \in DOMAIN output
    BY <1>1, StageFacts
  <2>2. QED
    BY <1>1, <1>2, <1>3, <2>1 DEF Roll, QueuesKnown, Heard
<1>8. IF s.last THEN ~between /\ between' /\ Unfinished = <<c, n>>
      ELSE between /\ ~between' /\ Unfinished' = <<c, n>>
  BY <1>2, <1>5, SlotMidway
<1>9. /\ \A d : Midway(d) = IF d = c /\ s.last THEN n ELSE 0
      /\ \A d : Midway(d)' = IF d = c /\ ~s.last THEN n ELSE 0
  BY <1>5, <1>8 DEF Midway
<1>10. \A d \in Conns : Gone(d)' <=> Gone(d)
  BY <1>1, NamedSame DEF Gone, Known
<1>11. c \notin table => Gone(c)
  BY <1>7 DEF Gone
<1>12. ASSUME NEW d \in Conns, NEW m \in Nat, UnderWay(d, m)' PROVE UnderWay(d, m)
  <2>1. \A k \in DOMAIN output' : \E l \in DOMAIN output : output'[k] = output[l]
    <3> DEFINE t == output'
    <3>1. t = Tail(output) /\ output \in Seq(Slot)
      BY <1>1 DEF Types, QueueTypes
    <3> HIDE DEF t
    <3>2. Shift(output, t, 1)
      BY <1>1, <3>1, ShiftTail
    <3>3. QED
      BY <3>2 DEF Shift, t
  <2>2. Coming(d, m)' => Coming(d, m)
    BY <1>1 DEF Coming, Entries
  <2>3. Going(d, m)' => Going(d, m)
    BY <1>1, <2>1 DEF Going, Queue, Replies
  <2>4. QED
    BY <1>12, <2>2, <2>3 DEF UnderWay
<1>13. \A d \in Conns : sendbuf'[d] # sendbuf[d] => d = c /\ c \in table
  BY <1>5, <1>6 DEF Types, StageTypes
<1>14. \A d \in Conns : d # c \/ c \notin table => Seen(d)' = Seen(d)
  BY <1>1, <1>13 DEF Seen
<1>15. ASSUME c \in table
       PROVE  /\ ~Gone(c) /\ Upto(sendbuf'[c], sent[c])
              /\ Follows(Seen(c)', IF s.last THEN Seen(c).out \ {n} ELSE Seen(c).out, IF s.last THEN 0 ELSE n)
  <2>1. ~Gone(c)
    BY <1>15 DEF Gone
  <2>2. PICK st : st = Seen(c)
    OBVIOUS
  <2>3. PICK b : b = sendbuf[c]
    OBVIOUS
  <2>4. /\ client[c] \in Account /\ b \in Seq(Bytes) /\ st \in Account /\ st = Fold(client[c], b)
        /\ ~st.bad /\ Upto(b, sent[c]) /\ sent[c] \in Nat
    BY <1>5, <2>2, <2>3, SeenTyped DEF SeenWhole, Types, ClientTypes
  <2>5. PICK f : f = SlotFrames(s)
    OBVIOUS
  <2>6. PICK t : t = b \o f
    OBVIOUS
  <2>7. f \in Seq(Bytes) /\ Cat(b, f, t)
    BY <1>5, <2>5, <2>6, FramesTyped DEF Cat
  <2>8. sendbuf'[c] = t
    BY <1>5, <1>6, <1>15, <2>3, <2>5, <2>6 DEF Types, StageTypes
  <2>9. Fold(client[c], t) = Fold(st, f)
    <3>1. Fold(client[c], t) = Fold(Fold(client[c], b), f)
      BY <2>4, <2>7, FoldConcat
    <3>2. QED
      BY <2>4, <3>1
  <2>10. Seen(c)' = Fold(st, f)
    BY <1>1, <2>8, <2>9 DEF Seen, Fold
  <2>11. UnderWay(c, n)
    BY <1>5, <1>7 DEF UnderWay, Going
  <2>12. st.mid = Midway(c) /\ n \in st.out
    BY <1>5, <2>1, <2>2, <2>11 DEF SeenWhole
  <2>13. n <= sent[c]
    <3>1. <<c, n>> \in onRing
      BY <1>5, <1>7 DEF Slots, Once
    <3>2. Past(<<c, n>>[1], <<c, n>>[2])
      BY <3>1 DEF Ordered, PastKept
    <3>3. QED
      BY <3>2 DEF Past, Fetched
  <2>14. CASE s.last
    <3>1. f = <<Frame("response", n), Frame("end", n)>> /\ st.mid = n
      BY <1>4, <1>9, <2>5, <2>12, <2>14 DEF SlotFrames
    <3>2. Follows(Fold(st, f), st.out \ {n}, 0)
      BY <1>5, <2>4, <2>12, <3>1, LastSlot
    <3>3. Upto(f, sent[c])
      BY <1>5, <2>4, <2>13, <3>1, FramesUpto
    <3>4. Upto(t, sent[c])
      BY <2>4, <2>7, <3>3, UptoJoined
    <3>5. QED
      BY <2>1, <2>2, <2>8, <2>10, <2>14, <3>2, <3>4
  <2>15. CASE ~s.last
    <3>1. f = <<Frame("response", n)>> /\ st.mid = 0
      BY <1>4, <1>9, <2>5, <2>12, <2>15 DEF SlotFrames
    <3>2. Follows(Fold(st, f), st.out, n)
      BY <1>5, <2>4, <2>12, <3>1, FirstSlot
    <3>3. Upto(f, sent[c])
      BY <1>5, <2>4, <2>13, <3>1, FramesUpto
    <3>4. Upto(t, sent[c])
      BY <2>4, <2>7, <3>3, UptoJoined
    <3>5. QED
      BY <2>1, <2>2, <2>8, <2>10, <2>15, <3>2, <3>4
  <2>16. QED
    BY <2>14, <2>15
<1>16. \A d \in Conns : ~Seen(d)'.bad
  BY <1>14, <1>15 DEF SeenWhole, Follows
<1>17. ASSUME NEW d \in Conns, ~Gone(d)'
       PROVE  Seen(d)'.mid = Midway(d)' /\ \A m \in Nat : UnderWay(d, m)' => m \in Seen(d)'.out
  <2>1. ~Gone(d)
    BY <1>10, <1>17
  <2>2. Seen(d).mid = Midway(d) /\ \A m \in Nat : UnderWay(d, m) => m \in Seen(d).out
    BY <2>1 DEF SeenWhole
  <2>3. CASE d # c
    BY <1>9, <1>12, <1>14, <2>2, <2>3
  <2>4. CASE d = c
    <3>1. c \in table
      BY <1>11, <2>1, <2>4
    <3>2. Follows(Seen(c)', IF s.last THEN Seen(c).out \ {n} ELSE Seen(c).out, IF s.last THEN 0 ELSE n)
      BY <1>15, <3>1
    <3>3. Seen(c)'.mid = Midway(c)'
      BY <1>9, <3>2 DEF Follows
    <3>4. ASSUME NEW m \in Nat, UnderWay(c, m)' PROVE m \in Seen(c)'.out
      <4>1. m \in Seen(c).out
        BY <1>5, <1>12, <2>2, <2>4, <3>4
      <4>2. CASE s.last
        <5>1. ~UnderWay(c, n)'
          BY <1>2, <1>5, <4>2, LastAnswers
        <5>2. m # n
          BY <3>4, <5>1
        <5>3. QED
          BY <3>2, <4>1, <4>2, <5>2 DEF Follows
      <4>3. CASE ~s.last
        BY <3>2, <4>1, <4>3 DEF Follows
      <4>4. QED
        BY <4>2, <4>3
    <3>5. QED
      BY <2>4, <3>3, <3>4
  <2>5. QED
    BY <2>3, <2>4
<1>18. \A d \in Conns : Upto(sendbuf'[d], sent'[d])
  BY <1>1, <1>13, <1>15 DEF SeenWhole
<1>19. QED
  BY <1>1, <1>16, <1>17, <1>18 DEF SeenWhole

\* The requests of c that the first k of s answer.
Answers(c, s, k) == {s[j].id : j \in {i \in 1..k : s[i].conn = c}}

LEMMA AnswersGrow ==
  ASSUME NEW c, NEW s, NEW k \in Nat, k >= 1
  PROVE  /\ s[k].conn = c => Answers(c, s, k) = Answers(c, s, k - 1) \cup {s[k].id}
         /\ s[k].conn # c => Answers(c, s, k) = Answers(c, s, k - 1)
<1>1. \A j : j \in 1..k <=> j \in 1..(k - 1) \/ j = k
  OBVIOUS
<1>2. QED
  BY <1>1 DEF Answers

\* The early replies of a snapshot join a buffer at a boundary: each is taken for what
\* it is, and its request is off the account.
LEMMA JoinSeen ==
  ASSUME NEW c, NEW st \in Account, NEW b \in Seq(Bytes), NEW x \in Nat, Upto(b, x), NEW s \in Seq(Reply),
         NEW o, Follows(Fold(st, b), o, 0),
         \A k \in 1..Len(s) : s[k].conn = c => s[k].id \in o /\ s[k].id <= x,
         \A j, k \in 1..Len(s) : s[j].conn = c /\ s[k].conn = c /\ s[j].id = s[k].id => j = k,
         NEW t, t = Joined(c, b, s)
  PROVE  Upto(t, x) /\ Follows(Fold(st, t), o \ Answers(c, s, Len(s)), 0)
<1>1. PICK h : IsJoin(h, c, b, s) /\ Joined(c, b, s) = h[Len(s)]
  BY JoinedRuns
<1>2. Len(s) \in Nat /\ \A k \in 1..Len(s) : s[k] \in Reply
  BY SeqFacts
<1>3. h[0] = b /\ \A k \in 1..Len(s) : h[k] = added(c, h[k - 1], s[k])
  BY <1>1 DEF IsJoin
<1> DEFINE A == {k \in 0..Len(s) : /\ h[k] \in Seq(Bytes) /\ Upto(h[k], x)
                                   /\ Follows(Fold(st, h[k]), o \ Answers(c, s, k), 0)}
<1>4. 0 \in A
  <2>1. Answers(c, s, 0) = {}
    BY DEF Answers
  <2>2. o \ {} = o
    OBVIOUS
  <2>3. 0 \in 0..Len(s)
    BY <1>2
  <2>4. o \ Answers(c, s, 0) = o
    BY <2>1, <2>2
  <2>5. QED
    BY <1>3, <2>3, <2>4
<1>5. ASSUME NEW k \in 1..Len(s), k - 1 \in A PROVE k \in A
  <2>1. PICK g : g = h[k - 1]
    OBVIOUS
  <2>2. PICK a : a = Fold(st, g)
    OBVIOUS
  <2>3. PICK u : u = h[k]
    OBVIOUS
  <2>4. /\ g \in Seq(Bytes) /\ Upto(g, x) /\ Follows(a, o \ Answers(c, s, k - 1), 0) /\ a \in Account
        /\ s[k] \in Reply /\ k \in 0..Len(s) /\ k \in Nat /\ k >= 1 /\ u = added(c, g, s[k])
    BY <1>2, <1>3, <1>5, <2>1, <2>2, <2>3, FoldFacts
  <2>5. CASE s[k].conn # c
    <3>1. u = g /\ Answers(c, s, k) = Answers(c, s, k - 1)
      BY <2>4, <2>5, AnswersGrow DEF added
    <3>2. QED
      BY <2>2, <2>3, <2>4, <3>1
  <2>6. CASE s[k].conn = c
    <3>1. PICK n : n = s[k].id
      OBVIOUS
    <3>2. n \in Nat /\ n \in o /\ n <= x
      BY <2>4, <2>6, <3>1 DEF Reply
    <3>3. n \notin Answers(c, s, k - 1)
      <4>1. ASSUME NEW j \in 1..(k - 1), s[j].conn = c, s[j].id = n PROVE FALSE
        <5>1. j \in 1..Len(s) /\ j # k
          BY <1>2, <4>1
        <5>2. QED
          BY <2>6, <3>1, <4>1, <5>1
      <4>2. QED
        BY <4>1 DEF Answers
    <3>4. ~a.bad /\ a.mid = 0 /\ a.out = o \ Answers(c, s, k - 1)
      BY <2>4 DEF Follows
    <3>5. PICK r : r = s[k]
      OBVIOUS
    <3>6. r.id = n /\ r \in Reply /\ n \in a.out
      BY <2>4, <3>1, <3>2, <3>3, <3>4, <3>5
    <3>7. PICK f : f = EarlyFrames(r)
      OBVIOUS
    <3>8. f \in Seq(Bytes) /\ u = g \o f
      BY <2>4, <2>6, <3>5, <3>6, <3>7, FramesTyped DEF added
    <3>9. Cat(g, f, u)
      BY <3>8 DEF Cat
    <3>10. Fold(st, u) = Fold(a, f)
      <4>1. Fold(st, u) = Fold(Fold(st, g), f)
        BY <2>4, <3>8, <3>9, FoldConcat
      <4>2. QED
        BY <2>2, <4>1
    <3>11. Follows(Fold(a, f), a.out \ {n}, 0)
      BY <2>4, <3>4, <3>6, <3>7, EarlySeen
    <3>12. a.out \ {n} = o \ Answers(c, s, k)
      <4>1. Answers(c, s, k) = Answers(c, s, k - 1) \cup {n}
        BY <2>4, <2>6, <3>1, AnswersGrow
      <4>2. QED
        BY <3>4, <4>1
    <3>13. Upto(f, x)
      <4>1. f = <<Frame("early", n)>> \/ f = <<Frame("response", n), Frame("end", n)>>
        BY <3>6, <3>7 DEF EarlyFrames
      <4>2. QED
        BY <3>2, <4>1, FramesUpto
    <3>14. Upto(u, x)
      BY <2>4, <3>8, <3>9, <3>13, UptoJoined
    <3>15. u \in Seq(Bytes)
      BY <2>4, <3>8, ConcatEffect
    <3>16. QED
      BY <2>3, <2>4, <3>10, <3>11, <3>12, <3>14, <3>15
  <2>7. QED
    BY <2>5, <2>6
<1>6. Len(s) \in A
  <2> HIDE DEF A
  <2>1. \A k \in 0..Len(s) : k \in A
    BY <1>2, <1>4, <1>5, Climb
  <2>2. Len(s) \in 0..Len(s)
    BY <1>2
  <2>3. QED
    BY <2>1, <2>2
<1>7. t = h[Len(s)]
  BY <1>1
<1>8. QED
  BY <1>6, <1>7

LEMMA SeenTurn ==
  ASSUME Numbered, Types, Roll, Ordered, Heard, Slots, SeenWhole, Idle \/ BeforeSlot \/ WaitRelease
  PROVE  SeenWhole'
<1>1. /\ UNCHANGED <<client, sent, between, table, sock, accepting, control>>
      /\ UNCHANGED <<wire, cq, slab, buf, input, batch, staged, output>>
      /\ rpc \in {"turn", "release"} /\ rpc' \in {"idleFlush", "gate", "waitFlush", "waiting"}
  BY TurnEffect DEF StageUnchanged, stageRest, clientVars, acceptVars, slabVars, callVars
<1>2. (between /\ Release) \/ NoRelease
  BY TurnEffect DEF SeenWhole
<1>3. \A d \in Conns : Gone(d)' <=> Gone(d)
  BY <1>1, NamedSame DEF Gone, Known
<1>4. CASE NoRelease
  <2>1. UNCHANGED <<sendbuf, early>>
    BY <1>4 DEF NoRelease
  <2>2. QED
    BY <1>1, <1>3, <2>1, UnderWaySame, SeenStays
<1>5. CASE between /\ Release
  <2>1. /\ \A c \in Conns : sendbuf'[c] = IF c \in table THEN Joined(c, sendbuf[c], Snapped) ELSE sendbuf[c]
    BY <1>5, ReleaseEffect
  <2>2. /\ Snapped \in Seq(Reply) /\ Len(Snapped) = snap /\ snap \in Nat
        /\ \A k \in 1..snap : Snapped[k] = early[k] /\ k \in DOMAIN early
    BY SnapFacts
  <2>3. \A k \in 1..snap : k \in DOMAIN Replies /\ Replies[k] = early[k]
    <3> DEFINE s == Replies
    <3>1. s = early \o staged /\ early \in Seq(Reply) /\ staged \in Seq(Reply)
      BY DEF Replies, Types, QueueTypes
    <3> HIDE DEF s
    <3>2. /\ Len(s) = Len(early) + Len(staged) /\ DOMAIN s = 1..Len(s) /\ Len(early) \in Nat /\ Len(staged) \in Nat
          /\ DOMAIN early = 1..Len(early) /\ \A k \in 1..Len(early) : s[k] = early[k]
      BY <3>1, ConcatEffect, SeqFacts
    <3>3. \A k \in 1..snap : k \in DOMAIN s /\ s[k] = early[k]
      BY <2>2, <3>2
    <3>4. QED
      BY <3>3 DEF s
  <2>4. Queue' = Queue /\ Shift(Replies, Replies', snap)
    BY <1>1, <1>5, ReleaseQueues
  <2>5. \A d : Midway(d) = 0 /\ Midway(d)' = 0
    BY <1>1, <1>5 DEF Midway
  <2>6. ASSUME NEW d \in Conns, NEW m \in Nat, UnderWay(d, m)'
        PROVE  UnderWay(d, m) /\ m \notin Answers(d, Snapped, snap)
    <3>1. Coming(d, m)' => Coming(d, m)
      BY <1>1 DEF Coming, Entries
    <3>2. Going(d, m)' => Going(d, m)
      BY <1>1, <2>4 DEF Going, Shift
    <3>3. ASSUME NEW j \in 1..snap, Snapped[j].conn = d, Snapped[j].id = m PROVE FALSE
      <4>1. j \in DOMAIN Replies /\ Pair(Replies[j]) = <<d, m>>
        BY <2>2, <2>3, <3>3 DEF Pair
      <4>2. Past(d, m) /\ <<d, m>> \notin onRing
        BY <4>1 DEF Slots, Once
      <4>3. ~Coming(d, m)
        BY <4>2, PastNotComing
      <4>4. /\ \A k \in DOMAIN Queue : Pair(Queue[k]) # <<d, m>>
            /\ \A k \in DOMAIN output : Pair(output[k]) # <<d, m>>
        BY <4>2 DEF Slots, Once
      <4>5. ASSUME NEW k \in DOMAIN Replies', Pair(Replies'[k]) = <<d, m>> PROVE FALSE
        <5> DEFINE i == k + snap
        <5>1. i \in DOMAIN Replies /\ Replies'[k] = Replies[i] /\ i # j
          BY <2>2, <2>4, <3>3, <4>5 DEF Shift
        <5> HIDE DEF i
        <5>2. QED
          BY <4>1, <4>5, <5>1 DEF Slots, Once
      <4>6. QED
        BY <1>1, <2>4, <2>6, <3>1, <4>3, <4>4, <4>5 DEF UnderWay, Going
    <3>4. QED
      BY <2>6, <3>1, <3>2, <3>3 DEF UnderWay, Answers
  <2>7. ASSUME NEW c \in Conns, c \in table
        PROVE  Upto(sendbuf'[c], sent[c]) /\ Follows(Seen(c)', Seen(c).out \ Answers(c, Snapped, snap), 0)
    <3>1. ~Gone(c)
      BY <2>7 DEF Gone
    <3>2. PICK b : b = sendbuf[c]
      OBVIOUS
    <3>3. PICK o : o = Seen(c).out
      OBVIOUS
    <3>4. PICK s : s = Snapped
      OBVIOUS
    <3>5. PICK x : x = sent[c]
      OBVIOUS
    <3>6. PICK t : t = Joined(c, b, s)
      OBVIOUS
    <3>7. PICK st : st = client[c]
      OBVIOUS
    <3>8. /\ st \in Account /\ b \in Seq(Bytes) /\ Seen(c) = Fold(st, b) /\ x \in Nat /\ Upto(b, x)
          /\ s \in Seq(Reply) /\ Len(s) = snap
      BY <2>2, <3>2, <3>4, <3>5, <3>7, SeenTyped DEF SeenWhole, Types, ClientTypes
    <3>9. Follows(Fold(st, b), o, 0)
      BY <2>5, <3>1, <3>3, <3>8 DEF SeenWhole, Follows
    <3>10. ASSUME NEW k \in 1..Len(s), s[k].conn = c PROVE s[k].id \in o /\ s[k].id <= x
      <4>1. PICK n : n = s[k].id
        OBVIOUS
      <4>2. k \in DOMAIN Replies /\ Pair(Replies[k]) = <<c, n>> /\ n \in Nat
        <5>1. k \in DOMAIN Replies /\ Replies[k] = s[k]
          BY <2>2, <2>3, <3>4, <3>8
        <5>2. QED
          BY <3>10, <4>1, <5>1, QueuesTyped DEF Pair
      <4>3. UnderWay(c, n)
        BY <4>2 DEF UnderWay, Going
      <4>4. Past(c, n)
        BY <4>2 DEF Slots, Once
      <4>5. QED
        BY <3>1, <3>3, <3>5, <4>1, <4>2, <4>3, <4>4 DEF SeenWhole, Past, Fetched
    <3>11. ASSUME NEW j \in 1..Len(s), NEW k \in 1..Len(s), s[j].conn = c, s[k].conn = c, s[j].id = s[k].id
           PROVE  j = k
      <4>1. /\ j \in DOMAIN Replies /\ Replies[j] = s[j]
            /\ k \in DOMAIN Replies /\ Replies[k] = s[k]
        BY <2>2, <2>3, <3>4, <3>8
      <4>2. Pair(Replies[j]) = Pair(Replies[k])
        BY <3>11, <4>1 DEF Pair
      <4>3. QED
        BY <4>1, <4>2 DEF Slots, Once
    <3>12. Upto(t, x) /\ Follows(Fold(st, t), o \ Answers(c, s, Len(s)), 0)
      BY <3>6, <3>8, <3>9, <3>10, <3>11, JoinSeen
    <3>13. sendbuf'[c] = t
      BY <2>1, <2>7, <3>2, <3>4, <3>6
    <3>14. Seen(c)' = Fold(st, t)
      BY <1>1, <3>7, <3>13 DEF Seen, Fold
    <3>15. QED
      BY <3>3, <3>4, <3>5, <3>8, <3>12, <3>13, <3>14
  <2>8. \A c \in Conns : c \notin table => Seen(c)' = Seen(c) /\ sendbuf'[c] = sendbuf[c]
    BY <1>1, <2>1 DEF Seen
  <2>9. \A c \in Conns : ~Seen(c)'.bad
    BY <2>7, <2>8 DEF SeenWhole, Follows
  <2>10. ASSUME NEW c \in Conns, ~Gone(c)'
         PROVE  Seen(c)'.mid = Midway(c)' /\ \A m \in Nat : UnderWay(c, m)' => m \in Seen(c)'.out
    <3>1. ~Gone(c)
      BY <1>3, <2>10
    <3>2. Seen(c).mid = Midway(c) /\ \A m \in Nat : UnderWay(c, m) => m \in Seen(c).out
      BY <3>1 DEF SeenWhole
    <3>3. CASE c \in table
      BY <2>5, <2>6, <2>7, <3>2, <3>3 DEF Follows
    <3>4. CASE c \notin table
      BY <2>5, <2>6, <2>8, <3>2, <3>4
    <3>5. QED
      BY <3>3, <3>4
  <2>11. \A c \in Conns : Upto(sendbuf'[c], sent'[c])
    BY <1>1, <2>7, <2>8 DEF SeenWhole
  <2>12. QED
    BY <1>1, <2>9, <2>10, <2>11 DEF SeenWhole
<1>6. QED
  BY <1>2, <1>4, <1>5

LEMMA SeenRetry ==
  ASSUME Types, Owned, SeenWhole, NEW i \in Entries, NEW v, Retry(i, v)
  PROVE  SeenWhole'
<1>1. /\ batch' = batch /\ staged' = staged
      /\ UNCHANGED <<sock, clientVars, acceptVars, control, slabVars, cq, input, early, output, stageVars>>
  BY RetryEffect DEF Types, Owned
<1>2. /\ UNCHANGED <<client, sendbuf, between, sent, rpc, table, sock, accepting, control>>
      /\ UNCHANGED <<wire, cq, slab, buf, input, batch, early, staged, output>>
  BY <1>1 DEF clientVars, acceptVars, slabVars, stageVars
<1>3. Onward /\ Held' = Held
  BY <1>2, NamedSame, OnwardSame DEF Held
<1>4. \A d \in Conns : Gone(d) => Gone(d)'
  BY <1>3, GoneStays
<1>5. rpc' \in {"resnap", "redrain", "release"} => between
  BY <1>2 DEF SeenWhole
<1>6. QED
  BY <1>2, <1>4, <1>5, UnderWaySame, SeenStays

LEMMA SeenNext ==
  ASSUME Numbered, Types, Owned, Owned', Roll, Ordered, Heard, Slots, SeenWhole, [PathNext]_pathVars
  PROVE  SeenWhole'
<1> SUFFICES SeenWhole'
  OBVIOUS
<1>1. ASSUME NEW c \in Conns, Accept(c) \/ Close(c) PROVE SeenWhole'
  BY <1>1, SeenClients
<1>2. ASSUME NEW c \in Conns, NEW k \in Kinds, Send(c, k) PROVE SeenWhole'
  BY <1>2, SeenSend
<1>3. CASE Announce
  BY <1>3, SeenAnnounce
<1>4. CASE Kernel
  BY <1>4, SeenKernel
<1>5. CASE Register
  BY <1>5, SeenRegister
<1>6. CASE ProcessFrame
  BY <1>6, SeenProcessFrame
<1>7. CASE EndCall
  BY <1>7, SeenEndCall
<1>8. ASSUME NEW v, TakeCqe(v) PROVE SeenWhole'
  BY <1>8, SeenTakeCqe
<1>9. ASSUME NEW i \in Entries, NEW v, Retry(i, v) PROVE SeenWhole'
  BY <1>9, SeenRetry
<1>10. ASSUME NEW i \in Entries, TimeOut(i) PROVE SeenWhole'
  BY <1>10, SeenTimeOut
<1>11. CASE MatchStep
  BY <1>11, SeenMatch
<1>12. CASE Read \/ Snapshot \/ BeforeWait \/ WhileWaiting \/ Durable \/ UNCHANGED pathVars
  BY <1>12, SeenLook
<1>13. CASE Drain
  BY <1>13, SeenDrain
<1>14. CASE Idle \/ BeforeSlot \/ WaitRelease
  BY <1>14, SeenTurn
<1>15. CASE SendSlot
  BY <1>15, SeenSendSlot
<1>16. CASE Flush
  BY <1>16, SeenFlush
<1>17. QED
  BY StepCases, <1>1, <1>2, <1>3, <1>4, <1>5, <1>6, <1>7, <1>8, <1>9, <1>10, <1>11, <1>12, <1>13, <1>14, <1>15,
     <1>16, Zenon

LEMMA InvNext ==
  ASSUME Numbered, Inv, [PathNext]_pathVars
  PROVE  Inv'
<1>1. Types /\ Owned /\ Roll /\ Ordered /\ Heard /\ Slots /\ SeenWhole
  BY DEF Inv
<1>2. Types' /\ Owned' /\ Roll'
  BY <1>1, AccountedNext DEF Accounted
<1>3. OrderStep
  BY <1>1, <1>2, OrderedNext
<1>4. Ordered'
  BY <1>3 DEF OrderStep
<1>5. Heard'
  BY <1>1, HeardNext
<1>6. Slots'
  BY <1>1, <1>3, SlotsNext
<1>7. SeenWhole'
  BY <1>1, <1>2, SeenNext
<1>8. QED
  BY <1>2, <1>4, <1>5, <1>6, <1>7 DEF Inv

\* What a client receives is its own requests' replies, each whole and once: no reply
\* names a request that is not outstanding, and none falls between the first and the
\* last slot of another (Outstanding::observe).  The early replies go out only where
\* the ring is between two requests (BatchBoundary, release_early_replies), and the
\* ring and the early queue are read before the control channel, so the response
\* stage knows every open connection it is to answer (response_loop::run).
THEOREM RepliesAlwaysReachClients ==
  ASSUME Numbered
  PROVE  PathSpec => []RepliesReachClients
<1>1. PathInit => Inv
  BY AccountedInit, OrderedInit, HeardInit, SlotsInit, SeenInit DEF Accounted, Inv
<1>2. Inv /\ [PathNext]_pathVars => Inv'
  BY InvNext
<1>3. Inv => RepliesReachClients
  <2> SUFFICES ASSUME Inv PROVE RepliesReachClients
    OBVIOUS
  <2>1. Types /\ Heard /\ SeenWhole
    BY DEF Inv
  <2>2. ASSUME NEW c \in Conns PROVE ~client[c].bad
    <3>1. client[c] \in Account /\ sendbuf[c] \in Seq(Bytes) /\ Seen(c) = Fold(client[c], sendbuf[c])
      BY <2>1, SeenTyped
    <3>2. ~Fold(client[c], sendbuf[c]).bad
      BY <2>1, <3>1 DEF SeenWhole
    <3>3. QED
      BY <3>1, <3>2, FoldFacts
  <2>3. QED
    BY <2>1, <2>2 DEF Heard, RepliesReachClients, RepliesWhole
<1>4. QED
  BY <1>1, <1>2, <1>3, PTL DEF PathSpec
=============================================================================
