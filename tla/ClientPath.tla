----------------------------- MODULE ClientPath -----------------------------
(***************************************************************************)
(* A client request from the socket to its reply: the accept loop          *)
(* (server.rs), the io_uring reader and its frame processing (reader.rs,   *)
(* client_frames.rs), the response stage's loop over its io_uring egress   *)
(* (response_loop.rs, early_reply.rs, batch_boundary.rs, response.rs) and  *)
(* the client library's account of what it is owed (outstanding.rs).       *)
(*                                                                         *)
(* Frames are whole: a partial frame waits in the parse buffer as if it    *)
(* had not arrived.  The input ring is the client's share of it; every     *)
(* applied request yields two output slots, published one by one.  The     *)
(* durability gate is open or not for the slot at hand (DurabilityGate     *)
(* has its own module).  A multishot receive and its completions are the   *)
(* kernel's, as io_uring documents them.                                   *)
(***************************************************************************)
EXTENDS Integers, Sequences, FiniteSets, SequencesExt

CONSTANTS
  Conns,      \* connection ids 1..n, in the order they are accepted
  Cap,        \* max_connections
  RingRoom,   \* slots of the input ring
  EarlyRoom,  \* capacity of the early-reply queue
  MaxBatch,   \* MAX_BATCH of the response stage
  Kinds,      \* what a request may be: "write", or "refused" by the decoder
  Loads       \* bounds to choose from: [reqs, faults], the requests of each
              \* client and the closes, timeouts, failed sends, ended receives

VARIABLES
  load,       \* the bounds chosen
  sock,       \* per connection: "none", "open" or "shut"
  sent,       \* Outstanding.next, less one
  wire,       \* frames in the socket's receive buffer
  client,     \* the client's Outstanding
  active,     \* active_connections
  accepting,  \* the connection the accept loop has admitted, 0: none
  announced,  \* its Connected is queued
  control,    \* the response stage's control channel
  regs,       \* the reader's command channel
  slab, free, \* ConnectionSlab: entries (0: vacant) and the free list
  recv,       \* RecvState of each entry
  buf, shed,  \* ClientIngress: parse_buf and shed_remaining
  ops,        \* the armed multishot receives
  cq,         \* completions posted, oldest first
  busy,       \* the entry whose frames are being processed, 0: none
  verdict,    \* the halt verdict sampled by the call
  stuck,      \* the call met a full early-reply queue
  batch,      \* requests pushed and not yet committed
  staged,     \* early replies queued and not yet flushed
  input,      \* the input ring
  early,      \* the early-reply queue, as far as it is flushed
  half,       \* the request at the input ring's head has its first slot out
  output,     \* the output ring
  rpc,        \* the response stage: where it is
  take,       \* slots left of the batch it read
  snap,       \* replies in its snapshot of the early-reply queue
  between,    \* BatchBoundary.between_events
  durable,    \* the gate is open for the slot at hand
  table,      \* the egress's connections
  sendbuf,    \* what it holds for each
  faults,     \* faults so far
  tails, onRing, missed  \* history: shed tails, requests on the ring, lost replies

\* Connections are numbered from one, 0 stands for none, and the response stage
\* takes at least one slot at a time.
Numbered ==
  /\ IsFiniteSet(Conns) /\ Conns \subseteq Nat \ {0}
  /\ MaxBatch \in Nat \ {0}

clientVars == <<sent, wire, client>>
acceptVars == <<load, accepting, announced, regs>>
slabVars == <<slab, free, recv, buf, shed>>
callVars == <<busy, verdict, stuck, batch, staged>>
stageVars == <<rpc, take, snap, between, table, sendbuf>>
pathVars == <<sock, clientVars, active, acceptVars, control, slabVars, ops, cq, callVars,
              input, early, half, output, stageVars, durable, faults, tails, onRing, missed>>

-----------------------------------------------------------------------------
(* The client: Outstanding *)

Frame(k, id) == [k |-> k, id |-> id]

\* Outstanding::observe, with what the reply's own frames know of their
\* request: a response belongs to the request whose end follows it.
observe(st, f) ==
  CASE f.k = "response" ->
         [st EXCEPT !.bad = @ \/ st.out = {} \/ st.mid \notin {0, f.id}, !.mid = f.id]
    [] f.k = "end" ->
         [out |-> st.out \ {f.id}, mid |-> 0,
          bad |-> st.bad \/ f.id \notin st.out \/ st.mid \notin {0, f.id}]
    [] f.k = "early" ->
         [out |-> st.out \ {f.id}, mid |-> 0,
          bad |-> st.bad \/ f.id \notin st.out \/ st.mid # 0]

\* Outstanding::sent.
Send(c, kind) ==
  /\ sock[c] = "open" /\ sent[c] < load.reqs[c]
  /\ sent' = [sent EXCEPT ![c] = @ + 1]
  /\ wire' = [wire EXCEPT ![c] = Append(@, [from |-> c, id |-> sent[c] + 1, kind |-> kind])]
  /\ client' = [client EXCEPT ![c].out = @ \cup {sent[c] + 1}]
  /\ UNCHANGED <<sock, active, acceptVars, control, slabVars, ops, cq, callVars, input, early,
                 half, output, stageVars, durable, faults, tails, onRing, missed>>

Fault == faults < load.faults /\ faults' = faults + 1

Close(c) ==
  /\ sock[c] = "open" /\ Fault
  /\ sock' = [sock EXCEPT ![c] = "shut"]
  /\ UNCHANGED <<clientVars, active, acceptVars, control, slabVars, ops, cq, callVars, input,
                 early, half, output, stageVars, durable, tails, onRing, missed>>

-----------------------------------------------------------------------------
(* The accept loop *)

\* The cap is checked, the client authenticated and counted.
Accept(c) ==
  /\ accepting = 0 /\ active < Cap
  /\ sock[c] = "none" /\ \A b \in Conns : b < c => sock[b] # "none"
  /\ sock' = [sock EXCEPT ![c] = "open"]
  /\ active' = active + 1
  /\ accepting' = c /\ announced' = FALSE
  /\ UNCHANGED <<load, clientVars, regs, control, slabVars, ops, cq, callVars, input, early, half,
                 output, stageVars, durable, faults, tails, onRing, missed>>

\* The writer is registered with the response stage before the reader.
Registrations == <<"announce", "register">>

Announce ==
  /\ accepting # 0
  /\ LET what == Registrations[IF announced THEN 2 ELSE 1] IN
       /\ control' = IF what = "announce" THEN Append(control, <<"Connected", accepting>>)
                     ELSE control
       /\ regs' = IF what = "register" THEN Append(regs, accepting) ELSE regs
  /\ announced' = ~announced
  /\ accepting' = IF announced THEN 0 ELSE accepting
  /\ UNCHANGED <<load, sock, clientVars, active, slabVars, ops, cq, callVars, input, early,
                 half, output, stageVars, durable, faults, tails, onRing, missed>>

-----------------------------------------------------------------------------
(* The kernel: multishot receives *)

Op(i, c) == [idx |-> i, conn |-> c, cancel |-> FALSE]
Cqe(i, res, frames, terminal) ==
  [idx |-> i, res |-> res, frames |-> frames, terminal |-> terminal]

Post(cqe) ==
  /\ cq' = Append(cq, cqe)
  /\ UNCHANGED <<sock, sent, client, active, acceptVars, control, slabVars, callVars, input,
                 early, half, output, stageVars, durable, tails, onRing, missed>>

\* Bytes of the socket, in one or more frames; the kernel may end the
\* multishot with them.
PostData(op, n, terminal) ==
  /\ n \in 1..Len(wire[op.conn])
  /\ Post(Cqe(op.idx, "Data", SubSeq(wire[op.conn], 1, n), terminal))
  /\ wire' = [wire EXCEPT ![op.conn] = SubSeq(@, n + 1, Len(@))]
  /\ IF terminal THEN Fault /\ ops' = ops \ {op} ELSE UNCHANGED <<ops, faults>>

\* ENOBUFS.
PostEmpty(op) ==
  /\ Fault
  /\ Post(Cqe(op.idx, "Empty", <<>>, TRUE))
  /\ ops' = ops \ {op}
  /\ UNCHANGED wire

\* ECANCELED.
PostCancelled(op) ==
  /\ op.cancel
  /\ Post(Cqe(op.idx, "Empty", <<>>, TRUE))
  /\ ops' = ops \ {op}
  /\ UNCHANGED <<wire, faults>>

\* End of file, or a receive error, on a socket either side shut down.
PostClosed(op) ==
  /\ sock[op.conn] = "shut"
  /\ Post(Cqe(op.idx, "Closed", <<>>, TRUE))
  /\ ops' = ops \ {op}
  /\ UNCHANGED <<wire, faults>>

\* AsyncCancel by user_data.
Cancelled(i) == {[op EXCEPT !.cancel = @ \/ op.idx = i] : op \in ops}

-----------------------------------------------------------------------------
(* The reader: RecvState *)

after_terminal(r) ==
  CASE r \in {"Armed", "Resuming"} -> "Idle"
    [] r = "ParkedCancelling" -> "Parked"
    [] OTHER -> r

\* RecvState::on_cqe: the state after, and the step.
on_cqe(r, res, terminal) ==
  LET after == IF terminal THEN after_terminal(r) ELSE r IN
  CASE r = "Dying" -> <<r, IF terminal THEN "Free" ELSE "Discard">>
    [] r # "Dying" /\ res = "Closed" -> <<after, "Remove">>
    [] r # "Dying" /\ res = "Empty" ->
         IF after = "Idle" THEN <<"Armed", "Arm">> ELSE <<after, "Nothing">>
    [] r # "Dying" /\ res = "Data" ->
         <<after, IF after \in {"Parked", "ParkedCancelling"} THEN "Keep" ELSE "Process">>

\* RecvState::after_frames, for Continue and Park.
after_frames(r, action) ==
  CASE action = "Continue" /\ r = "ParkedCancelling" -> <<"Resuming", "Nothing">>
    [] action = "Continue" /\ r \in {"Idle", "Parked"} -> <<"Armed", "Arm">>
    [] action = "Park" /\ r = "Armed" -> <<"ParkedCancelling", "Cancel">>
    [] action = "Park" /\ r = "Resuming" -> <<"ParkedCancelling", "Nothing">>
    [] action = "Park" /\ r = "Idle" -> <<"Parked", "Nothing">>
    [] OTHER -> <<r, "Nothing">>

\* Faulty variant: the entry is freed at once.
on_teardown_free(r) == <<r, "FreeNow">>

\* RecvState::on_teardown, of an entry that is not dying already.
on_teardown(r) ==
  CASE r \in {"Idle", "Parked"} -> <<r, "FreeNow">>
    [] r = "Armed" -> <<"Dying", "Cancel">>
    [] r \in {"Resuming", "ParkedCancelling"} -> <<"Dying", "AwaitCancel">>

\* ConnectionSlab::remove: the entry of i is vacant.
Vacate(i) ==
  /\ slab' = [slab EXCEPT ![i] = 0]
  /\ free' = Append(free, i)
  /\ recv' = [recv EXCEPT ![i] = "Idle"]
  /\ buf' = [buf EXCEPT ![i] = <<>>]
  /\ shed' = [shed EXCEPT ![i] = 0]

\* begin_teardown: the peer is severed and the response stage told; the entry
\* goes only when no completion can name it any more.
BeginTeardown(i) ==
  LET step == on_teardown(recv[i]) IN
  /\ sock' = [sock EXCEPT ![slab[i]] = "shut"]
  /\ control' = Append(control, <<"Disconnected", slab[i]>>)
  /\ ops' = IF step[2] = "Cancel" THEN Cancelled(i) ELSE ops
  /\ IF step[2] = "FreeNow" THEN Vacate(i)
     ELSE /\ recv' = [recv EXCEPT ![i] = step[1]]
          /\ UNCHANGED <<slab, free, buf, shed>>

\* A registration: an index off the free list, or a new one; armed.
Register ==
  /\ busy = 0 /\ regs # <<>>
  /\ regs' = Tail(regs)
  /\ LET i == IF free = <<>> THEN Len(slab) + 1 ELSE Last(free) IN
       /\ slab' = IF free = <<>> THEN Append(slab, Head(regs)) ELSE [slab EXCEPT ![i] = Head(regs)]
       /\ recv' = IF free = <<>> THEN Append(recv, "Armed") ELSE [recv EXCEPT ![i] = "Armed"]
       /\ buf' = IF free = <<>> THEN Append(buf, <<>>) ELSE buf
       /\ shed' = IF free = <<>> THEN Append(shed, 0) ELSE shed
       /\ free' = IF free = <<>> THEN free ELSE Front(free)
       /\ ops' = ops \cup {Op(i, Head(regs))}
  /\ UNCHANGED <<load, sock, clientVars, active, accepting, announced, control, cq, callVars, input,
                 early, half, output, stageVars, durable, faults, tails, onRing, missed>>

\* process_client_frames begins: the verdict is sampled once.
BeginCall(i, v) ==
  /\ IF v = "Close" THEN Fault ELSE UNCHANGED faults
  /\ busy' = i /\ verdict' = v /\ stuck' = FALSE
  /\ batch' = <<>> /\ staged' = <<>>

NoCall == UNCHANGED <<callVars, faults>>

\* A receive completion.
TakeCqe(v) ==
  /\ busy = 0 /\ cq # <<>>
  /\ cq' = Tail(cq)
  /\ LET cqe == Head(cq)
         i == cqe.idx
         step == on_cqe(recv[i], cqe.res, cqe.terminal)
         kept == [buf EXCEPT ![i] = @ \o cqe.frames] IN
       /\ step[2] \in {"Discard", "Nothing"} =>
            /\ recv' = [recv EXCEPT ![i] = step[1]]
            /\ NoCall /\ UNCHANGED <<slab, free, buf, shed, ops, control>>
       /\ step[2] = "Keep" =>
            /\ recv' = [recv EXCEPT ![i] = step[1]] /\ buf' = kept
            /\ NoCall /\ UNCHANGED <<slab, free, shed, ops, control>>
       /\ step[2] = "Arm" =>
            /\ recv' = [recv EXCEPT ![i] = step[1]] /\ ops' = ops \cup {Op(i, slab[i])}
            /\ NoCall /\ UNCHANGED <<slab, free, buf, shed, control>>
       /\ step[2] = "Free" => Vacate(i) /\ NoCall /\ UNCHANGED <<ops, control>>
       /\ step[2] = "Remove" =>
            /\ Vacate(i)
            /\ control' = Append(control, <<"Disconnected", slab[i]>>)
            /\ NoCall /\ UNCHANGED ops
       /\ step[2] = "Process" =>
            /\ recv' = [recv EXCEPT ![i] = step[1]] /\ buf' = kept
            /\ BeginCall(i, v)
            /\ UNCHANGED <<slab, free, shed, ops, control>>
       /\ step[2] # "Process" => v = "Take"
  /\ UNCHANGED <<sock, clientVars, active, acceptVars, input, early, half, output, stageVars,
                 durable, tails, onRing, missed>>

\* The retry pass over parked connections.
Retry(i, v) ==
  /\ busy = 0 /\ recv[i] \in {"Parked", "ParkedCancelling"}
  /\ BeginCall(i, v)
  /\ UNCHANGED <<sock, clientVars, active, acceptVars, control, slabVars, ops, cq, input, early,
                 half, output, stageVars, durable, tails, onRing, missed>>

\* The idle timeout, which passes over parked and dying connections, or a
\* park's cancel that went unanswered too long.
TimeOut(i) ==
  /\ busy = 0 /\ slab[i] # 0
  /\ recv[i] \in {"Armed", "Idle", "Resuming", "ParkedCancelling"}
  /\ Fault
  /\ BeginTeardown(i)
  /\ UNCHANGED <<clientVars, active, acceptVars, cq, callVars, input, early, half, output,
                 stageVars, durable, tails, onRing, missed>>

-----------------------------------------------------------------------------
(* The reader: process_client_frames, one frame a step *)

EarlyFits == Len(early) + Len(staged) < EarlyRoom
RingFits == Len(input) + Len(batch) < RingRoom

\* queue_early: the answer is staged, or the connection parks at the frame.
Answer(i, kind) ==
  IF EarlyFits
  THEN /\ staged' = Append(staged, [conn |-> slab[i], id |-> Head(buf[i]).id, kind |-> kind])
       /\ buf' = [buf EXCEPT ![i] = Tail(@)]
       /\ UNCHANGED stuck
  ELSE stuck' = TRUE /\ UNCHANGED <<staged, buf>>

\* Where the shed tail ends once this frame is answered or parked on.
ShedLeft(left) == IF EarlyFits THEN left - 1 ELSE left

ProcessFrame ==
  LET i == busy
      f == Head(buf[i])
      full == verdict = "Take" /\ f.kind = "write" /\ shed[i] = 0 /\ ~RingFits IN
  /\ busy # 0 /\ verdict # "Close" /\ ~stuck /\ buf[i] # <<>>
  /\ \/ /\ shed[i] > 0
        /\ Answer(i, "early")
        /\ shed' = [shed EXCEPT ![i] = ShedLeft(@)]
        /\ UNCHANGED <<batch, onRing, tails>>
     \/ /\ shed[i] = 0 /\ (f.kind = "refused" \/ verdict = "Refuse")
        /\ Answer(i, IF f.kind = "refused" THEN "early" ELSE "rejected")
        /\ UNCHANGED <<shed, batch, onRing, tails>>
     \/ /\ shed[i] = 0 /\ f.kind = "write" /\ verdict = "Take" /\ RingFits
        /\ batch' = Append(batch, [conn |-> slab[i], id |-> f.id])
        /\ onRing' = onRing \cup {<<slab[i], f.id>>}
        /\ buf' = [buf EXCEPT ![i] = Tail(@)]
        /\ UNCHANGED <<shed, staged, stuck, tails>>
     \/ /\ full
        /\ Answer(i, "early")
        /\ shed' = [shed EXCEPT ![i] = ShedLeft(Len(buf[i]))]
        /\ tails' = tails \cup {<<slab[i], buf[i][k].id>> : k \in DOMAIN buf[i]}
        /\ UNCHANGED <<batch, onRing>>
  /\ UNCHANGED <<sock, clientVars, active, acceptVars, control, slab, free, recv, ops, cq, busy,
                 verdict, input, early, half, output, stageVars, durable, faults, missed>>

\* Faulty variant: a park forgets the tail it was shedding.
ShedForgotten(i) == 0

\* shed_remaining as the call leaves it.
ShedKept(i) == shed[i]

\* The call returns: the batch is committed, the early replies flushed, and
\* the reader acts on the outcome.
EndCall ==
  LET i == busy
      next == after_frames(recv[i], IF stuck THEN "Park" ELSE "Continue") IN
  /\ busy # 0 /\ (verdict = "Close" \/ stuck \/ buf[i] = <<>>)
  /\ busy' = 0 /\ verdict' = "Take" /\ stuck' = FALSE /\ batch' = <<>> /\ staged' = <<>>
  /\ input' = input \o batch
  /\ early' = early \o staged
  /\ IF verdict = "Close" THEN BeginTeardown(i)
     ELSE /\ recv' = [recv EXCEPT ![i] = next[1]]
          /\ ops' = CASE next[2] = "Arm" -> ops \cup {Op(i, slab[i])}
                      [] next[2] = "Cancel" -> Cancelled(i)
                      [] OTHER -> ops
          /\ shed' = [shed EXCEPT ![i] = ShedKept(i)]
          /\ UNCHANGED <<sock, control, slab, free, buf>>
  /\ UNCHANGED <<clientVars, active, acceptVars, cq, half, output, stageVars, durable, faults,
                 tails, onRing, missed>>

-----------------------------------------------------------------------------
(* The matching stage and the gate, as this path sees them *)

\* The next output slot: a request's first, or its last.
MatchStep ==
  /\ input # <<>>
  /\ output' = Append(output, [conn |-> Head(input).conn, id |-> Head(input).id, last |-> half])
  /\ half' = ~half
  /\ input' = IF half THEN Tail(input) ELSE input
  /\ UNCHANGED <<sock, clientVars, active, acceptVars, control, slabVars, ops, cq, callVars,
                 early, stageVars, durable, faults, tails, onRing, missed>>

\* The slot the stage waits for becomes durable under the policy.
Durable ==
  /\ rpc \in {"waitFlush", "waiting", "resnap", "redrain", "release"} /\ ~durable
  /\ durable' = TRUE
  /\ UNCHANGED <<sock, clientVars, active, acceptVars, control, slabVars, ops, cq, callVars,
                 input, early, half, output, stageVars, faults, tails, onRing, missed>>

-----------------------------------------------------------------------------
(* The response stage: response_loop::run *)

stageRest == <<clientVars, acceptVars, slabVars, ops, cq, callVars, input, half, tails, onRing>>

\* Faulty variant: the control channel is drained first.
ControlFirst == <<"drain", "snap", "read">>

\* The ring is read, then the early queue, then the control channel.
ReadOrder == <<"read", "snap", "drain">>

\* What follows a step of ReadOrder.
After(step) ==
  LET k == CHOOSE k \in 1..3 : ReadOrder[k] = step IN
  IF k < 3 THEN ReadOrder[k + 1] ELSE "turn"

\* read_contiguous.
Read ==
  /\ rpc = "read"
  /\ take' = IF Len(output) < MaxBatch THEN Len(output) ELSE MaxBatch
  /\ rpc' = After("read")
  /\ UNCHANGED <<sock, active, control, early, output, snap, between, table, sendbuf, durable,
                 faults, missed, stageRest>>

\* refresh: the snapshot.
Snapshot ==
  /\ rpc \in {"snap", "resnap"}
  /\ snap' = Len(early)
  /\ rpc' = IF rpc = "snap" THEN After("snap") ELSE "redrain"
  /\ UNCHANGED <<sock, active, control, early, output, take, between, table, sendbuf, durable,
                 faults, missed, stageRest>>

\* Whom the control channel connects and disconnects.
Named(what) == {c \in Conns : \E k \in DOMAIN control : control[k] = <<what, c>>}

\* The disconnects that give a permit back: of a connection still in the table.
Returned == Named("Disconnected") \cap (table \cup Named("Connected"))

\* drain_control.
Drain ==
  /\ rpc \in {"drain", "redrain"}
  /\ table' = (table \cup Named("Connected")) \ Named("Disconnected")
  /\ active' = active - Cardinality(Returned)
  /\ sendbuf' = [c \in Conns |-> IF c \in Named("Disconnected") THEN <<>> ELSE sendbuf[c]]
  /\ control' = <<>>
  /\ rpc' = IF rpc = "drain" THEN After("drain") ELSE "release"
  /\ UNCHANGED <<sock, early, output, take, snap, between, durable, faults, missed, stageRest>>

\* An early reply's frames, encoded together.
EarlyFrames(r) ==
  IF r.kind = "early" THEN <<Frame("early", r.id)>>
  ELSE <<Frame("response", r.id), Frame("end", r.id)>>

\* release_early_replies: every reply of the snapshot is appended to its
\* connection's buffer, if the egress holds the connection.
Release ==
  /\ sendbuf' = [c \in Conns |->
       IF c \notin table THEN sendbuf[c]
       ELSE FoldLeft(LAMBDA acc, r : IF r.conn = c THEN acc \o EarlyFrames(r) ELSE acc,
                     sendbuf[c], SubSeq(early, 1, snap))]
  /\ missed' = missed \cup {c \in Conns \ table : sock[c] = "open" /\
                              \E k \in 1..snap : early[k].conn = c}
  /\ early' = SubSeq(early, snap + 1, Len(early))
  /\ snap' = 0

NoRelease == UNCHANGED <<sendbuf, missed, early, snap>>

\* BatchBoundary::at_boundary.
at_boundary == between

\* The read was empty: release, then the idle flush.
Idle ==
  /\ rpc = "turn" /\ take = 0
  /\ IF at_boundary THEN Release ELSE NoRelease
  /\ rpc' = "idleFlush"
  /\ UNCHANGED <<sock, active, control, output, take, between, table, durable, faults, stageRest>>

\* The first slot of an event: the snapshot goes ahead of the gate.
BeforeSlot ==
  /\ rpc = "turn" /\ take > 0
  /\ IF at_boundary THEN Release ELSE NoRelease
  /\ rpc' = "gate"
  /\ UNCHANGED <<sock, active, control, output, take, between, table, durable, faults, stageRest>>

\* The gate is closed: flush, and wait.
BeforeWait ==
  /\ rpc = "gate"
  /\ rpc' = "waitFlush"
  /\ UNCHANGED <<sock, active, control, early, output, take, snap, between, table, sendbuf,
                 durable, faults, missed, stageRest>>

\* GateWaitHook::while_waiting, between events: a fresh snapshot, the drain,
\* the release and a flush.
WhileWaiting ==
  /\ rpc = "waiting" /\ ~durable /\ at_boundary
  /\ rpc' = "resnap"
  /\ UNCHANGED <<sock, active, control, early, output, take, snap, between, table, sendbuf,
                 durable, faults, missed, stageRest>>

WaitRelease ==
  /\ rpc = "release"
  /\ Release
  /\ rpc' = IF snap > 0 THEN "waitFlush" ELSE "waiting"
  /\ UNCHANGED <<sock, active, control, output, take, between, table, durable, faults, stageRest>>

\* The next slot of the batch, or the commit and the next read.
AfterSlot(left) == IF left = 0 THEN ReadOrder[1] ELSE "turn"

SlotFrames(s) ==
  IF s.last THEN <<Frame("response", s.id), Frame("end", s.id)>> ELSE <<Frame("response", s.id)>>

\* Faulty variant: a slot without a connection to go to is not counted.
HandledIfKnown(s) == IF s.conn \in table THEN s.last ELSE between

\* BatchBoundary::handled.
handled(s) == s.last

\* The slot is admitted and its frames appended (send_slot); the consumed
\* path's flush may be due.
SendSlot ==
  /\ (rpc = "gate") \/ (rpc = "waiting" /\ durable)
  /\ LET s == Head(output) IN
       /\ between' = handled(s)
       /\ sendbuf' = IF s.conn \in table
                     THEN [sendbuf EXCEPT ![s.conn] = @ \o SlotFrames(s)] ELSE sendbuf
       /\ missed' = IF s.conn \notin table /\ sock[s.conn] = "open"
                    THEN missed \cup {s.conn} ELSE missed
  /\ output' = Tail(output)
  /\ take' = take - 1
  /\ durable' = FALSE
  /\ rpc' \in {"slotFlush", AfterSlot(take - 1)}
  /\ UNCHANGED <<sock, active, control, early, snap, table, faults, stageRest>>

AfterFlush ==
  CASE rpc = "idleFlush" -> ReadOrder[1] [] rpc = "waitFlush" -> "waiting"
    [] rpc = "slotFlush" -> AfterSlot(take)

\* flush_sends: each peer takes its bytes; one of them may take only some, or
\* fail (a send error, an overflow, a block past the timeout), which drops it:
\* its socket is shut down and its permit returned.
Flush ==
  /\ rpc \in {"idleFlush", "waitFlush", "slotFlush"}
  /\ rpc' = AfterFlush
  /\ \/ /\ client' = [c \in Conns |-> FoldLeft(observe, client[c], sendbuf[c])]
        /\ sendbuf' = [c \in Conns |-> <<>>]
        /\ UNCHANGED <<sock, active, table, faults>>
     \/ \E c \in table : \E n \in 0..(Len(sendbuf[c]) - 1) :
          /\ Fault
          /\ client' = [b \in Conns |-> FoldLeft(observe, client[b],
                           IF b = c THEN SubSeq(sendbuf[b], 1, n) ELSE sendbuf[b])]
          /\ \/ /\ sendbuf' = [b \in Conns |->
                     IF b = c THEN SubSeq(sendbuf[b], n + 1, Len(sendbuf[b])) ELSE <<>>]
                /\ UNCHANGED <<sock, active, table>>
             \/ /\ sendbuf' = [b \in Conns |-> <<>>]
                /\ table' = table \ {c}
                /\ sock' = [sock EXCEPT ![c] = "shut"]
                /\ active' = active - 1
  /\ UNCHANGED <<sent, wire, acceptVars, control, slabVars, ops, cq, callVars, input, early,
                 half, output, take, snap, between, durable, tails, onRing, missed>>

-----------------------------------------------------------------------------
PathInit ==
  /\ load \in Loads
  /\ sock = [c \in Conns |-> "none"] /\ sent = [c \in Conns |-> 0]
  /\ wire = [c \in Conns |-> <<>>]
  /\ client = [c \in Conns |-> [out |-> {}, mid |-> 0, bad |-> FALSE]]
  /\ active = 0 /\ accepting = 0 /\ announced = FALSE /\ control = <<>> /\ regs = <<>>
  /\ slab = <<>> /\ free = <<>> /\ recv = <<>> /\ buf = <<>> /\ shed = <<>>
  /\ ops = {} /\ cq = <<>>
  /\ busy = 0 /\ verdict = "Take" /\ stuck = FALSE /\ batch = <<>> /\ staged = <<>>
  /\ input = <<>> /\ early = <<>> /\ half = FALSE /\ output = <<>>
  /\ rpc = ReadOrder[1] /\ take = 0 /\ snap = 0 /\ between = TRUE /\ durable = FALSE
  /\ table = {} /\ sendbuf = [c \in Conns |-> <<>>]
  /\ faults = 0 /\ tails = {} /\ onRing = {} /\ missed = {}

Kernel ==
  \E op \in ops :
    \/ \E n \in 1..Len(wire[op.conn]) : \E t \in BOOLEAN : PostData(op, n, t)
    \/ PostEmpty(op) \/ PostCancelled(op) \/ PostClosed(op)

KernelAnswers ==
  \E op \in ops : PostCancelled(op) \/ PostClosed(op) \/ PostData(op, Len(wire[op.conn]), FALSE)

Entries == 1..Len(slab)

ReaderStep ==
  \/ Register \/ ProcessFrame \/ EndCall
  \/ \E v \in {"Take", "Refuse", "Close"} : TakeCqe(v) \/ \E i \in Entries : Retry(i, v)

Stage ==
  \/ Read \/ Snapshot \/ Drain \/ Idle \/ BeforeSlot \/ BeforeWait \/ WhileWaiting
  \/ WaitRelease \/ SendSlot \/ Flush

PathNext ==
  \/ \E c \in Conns : Accept(c) \/ Close(c) \/ \E k \in Kinds : Send(c, k)
  \/ Announce \/ Kernel \/ ReaderStep \/ (\E i \in Entries : TimeOut(i))
  \/ MatchStep \/ Durable \/ Stage

PathSpec == PathInit /\ [][PathNext]_pathVars

-----------------------------------------------------------------------------
(* Properties *)

\* What a client receives is its own requests' replies, each whole and once:
\* no early reply lands inside another's, none is sent twice or to the wrong
\* request, however sheds, parks and retries fall (Outstanding::observe).
RepliesWhole == \A c \in Conns : ~client[c].bad

\* No reply of an open connection is lost because the response stage does not
\* know the connection yet: the ring and the early queue are read before the
\* control channel (response_loop::run, EarlyReplyQueue::register).
NoReplyLost == missed = {}

\* What a client receives is its own requests' replies, each whole and once, and
\* no reply of an open connection is lost because the response stage does not know
\* the connection yet (Outstanding::observe, response_loop::run).
RepliesReachClients == RepliesWhole /\ NoReplyLost

\* A request shed with its connection's buffer is never onRing after all, not
\* even when the shedding parks half-way and the ring has room again by the
\* retry (process_client_frames, the shed tail).
ShedStaysShed == tails \cap onRing = {}

\* The bytes buffered under a slab entry were sent by the connection it holds:
\* no index is handed on while a completion can still name it (begin_teardown).
BytesUnderOwner ==
  \A i \in Entries : \A k \in DOMAIN buf[i] : buf[i][k].from = slab[i]

\* A connection that the response stage has still to hear of, or holds.
HoldsPermit(c) ==
  \/ accepting = c \/ c \in table \/ c \in Named("Connected")

\* active_connections counts the connections on their way to the response stage
\* and those it holds: a permit is given back exactly once, by whichever of the
\* reader and the response stage ends the connection (teardown_dropped).
PermitsCounted == active = Cardinality({c \in Conns : HoldsPermit(c)})

\* The bytes buffered under a slab entry were sent by the connection it holds, and
\* a connection's permit is given back exactly once, by whichever thread ends it
\* (begin_teardown, RecvState, drain_control, teardown_dropped).
ConnectionsAccounted == BytesUnderOwner /\ PermitsCounted

\* In the end every request of an open connection is answered, and a closed
\* one has given back its permit and its slab entry: no park, resume, shed or
\* teardown leaves a request, a permit or an index behind.
EverythingSettles ==
  <>[](\A c \in Conns :
         /\ sock[c] = "open" => client[c].out = {}
         /\ sock[c] = "shut" => ~HoldsPermit(c) /\ \A i \in Entries : slab[i] # c)
=============================================================================
