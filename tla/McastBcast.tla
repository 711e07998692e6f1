----------------------------- MODULE McastBcast -----------------------------
(***************************************************************************)
(* Broadcast over the InfiniBand multicast of TL mlx5.  A multicast packet *)
(* may arrive late, out of order or never.  The packets are numbered (psn) *)
(* over the life of the team; every rank keeps the last wsize of them in a *)
(* window.  A rank that stalls asks its parent in a binomial tree (NACK)   *)
(* for the first packet it misses; when the window is full, and at the end *)
(* of a zero-copy broadcast, a rank tells its parents so (ACK) and reuses  *)
(* the window only after all its children have told it.                    *)
(*                                                                         *)
(* The ranks run the same list of calls, one call at a time each, and are  *)
(* not synchronised with one another.  One call of the progress function   *)
(* is one step; the packets it finds in its completion queue are chosen.   *)
(* The NACKs, ACKs and resent packets travel as two-rank broadcasts of the *)
(* service transport, which all carry the same tag: a message meets the    *)
(* receive that was posted first for its sender.                           *)
(***************************************************************************)
EXTENDS Integers, Sequences, FiniteSets, SequencesExt

CONSTANTS Scenarios, \* [kind, n, wsize, rx, thresh, sx, mod, calls]
          MaxBatch   \* most packets that one poll of the completion queue finds

VARIABLES sc,   \* the scenario: the team, its parameters, its calls
          rank, \* rank -> the state of its communicator and of its request
          wire  \* the multicast packets that may still arrive

vars == <<sc, rank, wire>>

ASSUME BcastAssumption ==
  /\ MaxBatch \in Nat
  /\ \A s \in Scenarios : s.wsize > 0 /\ s.rx > 0 /\ s.mod > 0

Ours == sc.kind = "bcast"
Ranks == 0 .. sc.n - 1
NoPacket == [psn |-> -1, data |-> <<>>, ctx |-> FALSE] \* dummy_packet
Overwritten == <<0, 0>> \* what a user may write into a buffer of theirs

\* F(v), with v evaluated once.
With(v, F(_)) == CHOOSE y \in {F(x) : x \in {v}} : TRUE

Least(a, b) == IF a < b THEN a ELSE b
Most(a, b) == IF a > b THEN a ELSE b

-----------------------------------------------------------------------------
(* R is the state of one rank throughout; psn, last_acked and the others   *)
(* are the fields of that name of its communicator and of its request.     *)

Call(R) == sc.calls[R.call]
AmRoot(R) == Call(R).root = R.me
Busy(R) == R.to_send > 0 \/ R.to_recv > 0
FreeWindow(R) == sc.wsize - (R.psn - R.last_acked)
Slot(R, psn) == R.window[psn % sc.wsize]

\* PSN_RECEIVED and PSN_IS_IN_RANGE.
Received(R, psn) == Slot(R, psn).psn = psn
InRange(R, psn) ==
  /\ R.start <= psn /\ psn < R.start + Call(R).packets
  /\ R.last_acked <= psn /\ psn < R.last_acked + sc.wsize

\* The binomial tree over the ranks relative to the root.
Masks == {m \in {1, 2, 4, 8} : m < sc.n}
Virtual(r, root) == (r + sc.n - root) % sc.n
Original(v, root) == (v + root) % sc.n
Turns(v) == {m \in Masks : (v \div m) % 2 = 1}
Stop(v) == CHOOSE m \in Turns(v) : \A k \in Turns(v) : m <= k
Parents(r, root) == LET v == Virtual(r, root) IN
  IF Turns(v) = {} THEN <<>> ELSE <<Original(v - Stop(v), root)>>
Children(r, root) == LET v == Virtual(r, root) IN
  [i \in 1 .. Cardinality({m \in Masks :
                            v + m < sc.n /\ \A k \in Turns(v) : m < k})
     |-> Original(v + 2 ^ (i - 1), root)]

\* Buffers go back to the pool, and into the receive queue from it.
PostRecvBuffers(R) ==
  LET count == sc.rx - R.pending_recv
      k     == IF count > sc.thresh THEN Least(count, Most(R.bpool, 0)) ELSE 0
  IN [R EXCEPT !.bpool = @ - k, !.pending_recv = @ + k]

-----------------------------------------------------------------------------
(* NACKs: the packets that children asked for.                             *)

\* A zero-copy packet is resent from the buffer of the user, who may have
\* written into it once their call has completed.
Content(R, slot) ==
  IF slot.ctx /\ slot.data[1] < R.call THEN Overwritten ELSE slot.data

\* Every request in I is answered with the packet of the window.
Resend(R, I) ==
  [R EXCEPT
     !.pkt = [i \in DOMAIN @ |->
                IF i \in I THEN [@[i] EXCEPT !.type = "SENT"] ELSE @[i]],
     !.out = [d \in DOMAIN @ |->
                IF \E i \in I : R.children[i] = d
                THEN LET i == CHOOSE i \in I : R.children[i] = d
                     IN Append(@[d], [type |-> "DATA", psn |-> R.pkt[i].psn,
                                      data |-> Content(R, Slot(R, R.pkt[i].psn))])
                ELSE @[d]],
     !.sends = @ \cup {<<"data", i>> : i \in I}]

Asked(R) == {i \in 1 .. Len(R.children) : R.pkt[i].type = "NEED"}

\* With the psns that have just come, or with all that the window holds.
CheckNackRequests(R, psns) ==
  Resend(R, {i \in Asked(R) : R.pkt[i].psn \in psns})
CheckAllNackRequests(R) ==
  Resend(R, {i \in Asked(R) : Received(R, R.pkt[i].psn)})

\* A packet is in: from the multicast or from the parent.
TakeIn(R, psn, data) ==
  With([R EXCEPT !.buf[R.call][psn - R.start] = data,
                 !.window[psn % sc.wsize] =
                   [psn |-> psn, data |-> data, ctx |-> FALSE],
                 !.to_recv = @ - 1,
                 !.psn = @ + 1],
       LAMBDA S : CheckNackRequests(S, {psn}))

-----------------------------------------------------------------------------
(* Sending and receiving the multicast.                                    *)

\* The parents and children of this call join those of the window; a
\* receive is posted for every new child.
PrepareReliable(R) ==
  LET new == SelectSeq(Children(R.me, Call(R).root),
                       LAMBDA c : \A i \in 1 .. Len(R.children) : R.children[i] # c)
      up  == SelectSeq(Parents(R.me, Call(R).root),
                       LAMBDA p : \A i \in 1 .. Len(R.parents) : R.parents[i] # p)
      at  == Len(R.children)
  IN [R EXCEPT
        !.children = @ \o new,
        !.parents  = @ \o up,
        !.pkt = [i \in 1 .. Most(at + Len(new), Len(@)) |->
                   IF i \in 1 .. Len(@) THEN @[i] ELSE [type |-> "ACK", psn |-> 0]],
        !.posted = [s \in DOMAIN @ |->
                      IF \E i \in 1 .. Len(new) : new[i] = s
                      THEN Append(@[s], [kind |-> "packet",
                             id |-> at + (CHOOSE i \in 1 .. Len(new) : new[i] = s)])
                      ELSE @[s]]]

\* Every mod-th send is signalled; `done` completions are found if the send
\* queue is full.
McastSend(R, done) ==
  LET want == Least(R.to_send, R.last_acked + sc.wsize - R.psn)
      used == R.pending_send * sc.mod + R.tx
  IN With(Least(want, Least(Most(sc.sx - used, 0), R.bpool)), LAMBDA k :
     With([R EXCEPT
       !.window = [w \in DOMAIN @ |->
         LET p == R.psn + ((w - R.psn) % sc.wsize) \* the next packet of slot w
         IN IF p < R.psn + k
            THEN [psn  |-> p,
                  data |-> <<R.call, Call(R).packets - R.to_send + p - R.psn>>,
                  ctx  |-> Call(R).zcopy]
            ELSE @[w]],
       !.psn = @ + k, !.to_send = @ - k, !.bpool = @ - k,
       !.tx = (@ + k) % sc.mod,
       !.pending_send = @ + (R.tx + k) \div sc.mod
                          - (IF k < want /\ sc.sx <= used + k THEN done ELSE 0)],
     LAMBDA S : CheckNackRequests(S, R.psn .. S.psn - 1)))

\* What the send put on the wire, for every rank of the team, itself too.
Multicast(R, S) ==
  {[to |-> d, psn |-> p, data |-> Slot(S, p).data] :
     d \in Ranks, p \in R.psn .. S.psn - 1}

\* Mutant: the buffer of a packet that came twice is not given back.
MutProcessPp(S, pp, queued) ==
  IF Received(S.R, pp.psn) \/ pp.psn < S.R.last_acked THEN S
  ELSE IF InRange(S.R, pp.psn) /\ (S.left > 0 \/ queued)
    THEN [S EXCEPT !.R = TakeIn(S.R, pp.psn, pp.data), !.left = @ - 1]
  ELSE [S EXCEPT !.R.pending_q = Append(@, pp)]

\* One packet, of the pending queue or of the completion queue; `left` is
\* how many the caller still wants.
ProcessPp(S, pp, queued) ==
  IF Received(S.R, pp.psn) \/ pp.psn < S.R.last_acked
    THEN [S EXCEPT !.R.bpool = @ + 1]
  ELSE IF InRange(S.R, pp.psn) /\ (S.left > 0 \/ queued)
    THEN [S EXCEPT !.R = TakeIn(S.R, pp.psn, pp.data), !.left = @ - 1]
  ELSE [S EXCEPT !.R.pending_q = Append(@, pp)]

\* The pending queue is looked at first.
TakePending(R) ==
  FoldLeft(LAMBDA S, pp : With(S, LAMBDA X : ProcessPp(X, pp, TRUE)),
           [R |-> [R EXCEPT !.pending_q = <<>>],
            left |-> Least(FreeWindow(R), R.to_recv)],
           R.pending_q)

\* Then the completion queue, as long as packets are wanted.
McastRecv(S, arrived) ==
  IF arrived = <<>> THEN S
  ELSE With(FoldLeft(LAMBDA X, pp : With(X, LAMBDA Y : ProcessPp(Y, pp, FALSE)),
                     S, arrived),
            LAMBDA T : [T EXCEPT !.R = PostRecvBuffers(
                          [T.R EXCEPT !.pending_recv = @ - Len(arrived)])])

\* While the window waits, the completion queue is emptied too: packets of
\* the next window are kept for later.
PollRecv(R, arrived) ==
  FoldLeft(LAMBDA S, pp :
             With([S EXCEPT
                     !.pending_q = IF pp.psn >= R.psn THEN Append(@, pp) ELSE @,
                     !.bpool = IF pp.psn >= R.psn THEN @ ELSE @ + 1,
                     !.pending_recv = @ - 1],
                  PostRecvBuffers),
           R, arrived)

-----------------------------------------------------------------------------
(* The ACK round at the end of a window.                                   *)

\* Mutant: the children are not waited for.
MutAllAcked(R) == R.sacks_n = Len(R.parents) /\ R.nack_requests = 0

AllAcked(R) ==
  /\ R.racks_n = Len(R.children)
  /\ R.sacks_n = Len(R.parents)
  /\ R.nack_requests = 0

ReliableSend(R) ==
  [R EXCEPT !.out = [d \in DOMAIN @ |->
                       IF \E i \in 1 .. Len(R.parents) : R.parents[i] = d
                       THEN Append(@[d], [type |-> "ACK", psn |-> 0, data |-> <<>>])
                       ELSE @[d]],
            !.sends = @ \cup {<<"ack", i>> : i \in 1 .. Len(R.parents)}]

\* Before the round is over: poll, answer the children, tell the parents.
ReliableStep(R, done, late) ==
  With(IF AllAcked(R) THEN R
       ELSE With(PollRecv([R EXCEPT !.pending_send = @ - done], late),
                 CheckAllNackRequests),
       LAMBDA S : IF S.parents # <<>> /\ ~S.reliable_in_progress
                  THEN [ReliableSend(S) EXCEPT !.reliable_in_progress = TRUE]
                  ELSE [S EXCEPT !.reliable_in_progress = TRUE])

\* The round is over: the counters start again and the window is free.
Recycled(R) ==
  With([R EXCEPT
        !.children = <<>>, !.parents = <<>>, !.racks_n = 0, !.sacks_n = 0,
        !.reliable_in_progress = FALSE,
        !.bpool = @ + (R.psn - R.last_acked),
        !.window = [w \in DOMAIN @ |->
                      IF \E p \in R.last_acked .. R.psn - 1 : p % sc.wsize = w
                      THEN NoPacket ELSE @[w]],
        !.last_acked = R.psn],
       LAMBDA S : IF Busy(R) THEN PrepareReliable(S) ELSE S)

MustAck(R) == FreeWindow(R) = 0 \/ (Call(R).zcopy /\ ~Busy(R))

RWindowRecycle(R, done, late) ==
  IF ~MustAck(R) THEN [R |-> R, ok |-> TRUE]
  ELSE With(ReliableStep(R, done, late),
            LAMBDA S : [R |-> IF AllAcked(S) THEN Recycled(S) ELSE S,
                        ok |-> AllAcked(S)])

\* The end of the progress function: the call has completed if nothing is
\* left and, for zero copy, the window has been acknowledged.
Finish(W) ==
  IF W.ok /\ ~Busy(W.R)
     /\ ~(Call(W.R).zcopy /\ W.R.psn # W.R.last_acked)
  THEN [W.R EXCEPT !.call = @ + 1, !.active = FALSE] ELSE W.R

-----------------------------------------------------------------------------
(* Steps.                                                                  *)

\* A call is posted: prepare_bcast.
Start(r) == LET R == rank[r] IN
  /\ ~R.active /\ R.call <= Len(sc.calls) /\ ~R.aborted
  /\ rank' = [rank EXCEPT ![r] = PrepareReliable([R EXCEPT
       !.active  = TRUE,
       !.start   = R.last_psn,
       !.last_psn = @ + Call(R).packets,
       !.to_send = IF AmRoot(R) THEN Call(R).packets ELSE 0,
       !.to_recv = IF AmRoot(R) THEN 0 ELSE Call(R).packets])]
  /\ UNCHANGED <<sc, wire>>

\* The packets one poll of the completion queue of r finds, in any order, no
\* more than there are posted buffers.
Arrivals(r) == LET here == {p \in wire : p.to = r} IN
  UNION {{s \in [1 .. k -> here] : \A i, j \in 1 .. k : i # j => s[i] # s[j]} :
           k \in 0 .. Least(MaxBatch, Most(rank[r].pending_recv, 0))}

Gone(s) == {s[i] : i \in 1 .. Len(s)}

Ready(r) == rank[r].active /\ ~rank[r].aborted /\ ~rank[r].drop

\* do_bcast up to the receive: old requests are answered, the root sends.
SendPart(R0, done) ==
  With(CheckAllNackRequests(R0), LAMBDA R :
    IF ~Busy(R) THEN R
    ELSE With(IF FreeWindow(R) > 0 /\ AmRoot(R) THEN McastSend(R, done) ELSE R,
              PrepareReliable))

Receives(R) == FreeWindow(R) > 0 /\ R.to_recv > 0
Completions(R) == 0 .. R.pending_send

\* do_bcast of a rank that has nothing to receive now: it sends, or it
\* waits for the end of the window.
ProgressWindow(r) ==
  /\ Ready(r)
  /\ \E done \in Completions(rank[r]) :
     \E S \in {SendPart(rank[r], done)} :
       /\ ~Receives(S)
       /\ \E late \in Arrivals(r), more \in Completions(S) :
            /\ late # <<>> => S.parents # <<>> /\ MustAck(S) /\ ~AllAcked(S)
            /\ more # 0 => MustAck(S) /\ ~AllAcked(S)
            /\ rank' = [rank EXCEPT ![r] = With(RWindowRecycle(S, more, late), Finish)]
            /\ wire' = (wire \ Gone(late)) \cup Multicast(rank[r], S)
  /\ UNCHANGED sc

\* do_bcast of a rank that receives, from its pending queue or from the
\* completion queue: the stall counter and the timer are reset.
ProgressReceive(r) ==
  /\ Ready(r)
  /\ \E S \in {SendPart(rank[r], 0)} :
       /\ Receives(S)
       /\ \E P \in {TakePending(S)}, arrived \in Arrivals(r) :
            /\ arrived # <<>> => P.left > 0
            /\ \E T \in {McastRecv(P, arrived)} :
                 /\ rank' = [rank EXCEPT ![r] =
                      IF T.left = Least(FreeWindow(S), S.to_recv) THEN T.R
                      ELSE With(With([T.R EXCEPT !.timer = FALSE],
                                     LAMBDA X : RWindowRecycle(X, 0, <<>>)),
                                Finish)]
                 /\ wire' = wire \ Gone(arrived)
  /\ UNCHANGED sc

\* do_bcast of a rank that stalls: after a while the timer is started ...
StartTimer(r) ==
  /\ Ready(r) /\ ~rank[r].timer
  /\ \E S \in {SendPart(rank[r], 0)} :
       /\ Receives(S)
       /\ \E P \in {TakePending(S)} :
            /\ P.left = Least(FreeWindow(S), S.to_recv)
            /\ rank' = [rank EXCEPT ![r] = [P.R EXCEPT !.timer = TRUE]]
  /\ UNCHANGED <<sc, wire>>

\* The first packet of the call that the window lacks.
FindNackPsn(R) ==
  CHOOSE p \in Most(R.last_acked, R.start) .. R.last_acked + sc.wsize :
    /\ ~Received(R, p)
    /\ \A q \in Most(R.last_acked, R.start) .. p - 1 : Received(R, q)

\* The packet is asked for and a buffer of the pool waits for it.
ReliableSendNack(R) ==
  LET psn == FindNackPsn(R)
      up  == Parents(R.me, Call(R).root)[1]
  IN [R EXCEPT
        !.out[up] = Append(@, [type |-> "NACK", psn |-> psn, data |-> <<>>]),
        !.posted[up] = Append(@, [kind |-> "data", id |-> psn]),
        !.bpool = @ - 1,
        !.drop = TRUE,
        !.timer = FALSE]

\* ... and when it has run out, the parent is asked.
TimedOut(r) ==
  /\ Ready(r) /\ rank[r].timer
  /\ \E S \in {SendPart(rank[r], 0)} :
       /\ Receives(S)
       /\ \E P \in {TakePending(S)} :
            /\ P.left = Least(FreeWindow(S), S.to_recv)
            /\ rank' = [rank EXCEPT ![r] = ReliableSendNack(P.R)]
  /\ UNCHANGED <<sc, wire>>

\* do_bcast of a rank that waits for its parent only answers its children.
ProgressDropped(r) ==
  /\ rank[r].active /\ ~rank[r].aborted /\ rank[r].drop
  /\ rank' = [rank EXCEPT ![r] = CheckAllNackRequests(@)]
  /\ UNCHANGED <<sc, wire>>

\* A message of a child is in p2p_pkt[i]: recv_completion.
RecvCompletion(R, i, m) ==
  IF m.type = "ACK"
  THEN [R EXCEPT !.racks_n = @ + 1, !.pkt[i].type = "ACK"]
  ELSE With([R EXCEPT !.pkt[i] = [type |-> "NEED", psn |-> m.psn],
                      !.nack_requests = @ + 1],
            LAMBDA S : Resend(S, {j \in {i} : Received(R, m.psn)}))

\* The packet that was asked for is in: recv_data_completion.
RecvDataCompletion(R, psn, m) == [TakeIn(R, psn, m.data) EXCEPT !.drop = FALSE]

\* The oldest message from s meets the oldest receive that d posted for s.
\* A message of the wrong kind fails an assertion of recv_completion.
Receive(d, s) == LET R == rank[d] IN
  /\ ~R.aborted /\ R.posted[s] # <<>> /\ rank[s].out[d] # <<>>
  /\ \E m \in {Head(rank[s].out[d])}, want \in {Head(R.posted[s])} :
     \E S \in {[R EXCEPT !.posted[s] = Tail(@)]} :
       rank' = [rank EXCEPT
         ![s].out[d] = Tail(@),
         ![d] = CASE want.kind = "packet" /\ m.type # "DATA" ->
                       RecvCompletion(S, want.id, m)
                  [] want.kind = "data" /\ m.type = "DATA" ->
                       RecvDataCompletion(S, want.id, m)
                  [] OTHER -> [S EXCEPT !.aborted = TRUE]]
  /\ UNCHANGED <<sc, wire>>

\* Mutant: after a resent packet no further message is waited for.
MutSendCompletion(r, x) == LET R == rank[r] IN
  /\ x \in R.sends /\ ~R.aborted
  /\ rank' = [rank EXCEPT ![r] =
       IF x[1] = "ack" THEN [R EXCEPT !.sends = @ \ {x}, !.sacks_n = @ + 1]
       ELSE [R EXCEPT !.sends = @ \ {x}, !.pkt[x[2]].type = "ACK",
                      !.nack_requests = @ - 1]]
  /\ UNCHANGED <<sc, wire>>

\* A send has completed: an ACK is counted; after a resent packet the next
\* message of that child is waited for.
SendCompletion(r, x) == LET R == rank[r] IN
  /\ x \in R.sends /\ ~R.aborted
  /\ rank' = [rank EXCEPT ![r] =
       IF x[1] = "ack" THEN [R EXCEPT !.sends = @ \ {x}, !.sacks_n = @ + 1]
       ELSE [R EXCEPT !.sends = @ \ {x},
                      !.pkt[x[2]].type = "ACK",
                      !.nack_requests = @ - 1,
                      !.posted[R.children[x[2]]] =
                        Append(@, [kind |-> "packet", id |-> x[2]])]]
  /\ UNCHANGED <<sc, wire>>

\* A team: setup_comm_resources posts the first receive buffers.
NewComm(r) == PostRecvBuffers(
  [me |-> r, call |-> 1, active |-> FALSE, aborted |-> FALSE,
   psn |-> 0, last_psn |-> 0, last_acked |-> 0, start |-> 0,
   window |-> [w \in 0 .. sc.wsize - 1 |-> NoPacket],
   to_send |-> 0, to_recv |-> 0,
   bpool |-> 2 * sc.rx, pending_recv |-> 0, pending_q |-> <<>>,
   tx |-> 0, pending_send |-> 0,
   parents |-> <<>>, children |-> <<>>, pkt |-> <<>>,
   racks_n |-> 0, sacks_n |-> 0, nack_requests |-> 0,
   reliable_in_progress |-> FALSE, drop |-> FALSE, timer |-> FALSE,
   buf |-> [k \in 1 .. Len(sc.calls) |->
              [i \in 0 .. sc.calls[k].packets - 1 |-> <<>>]],
   out |-> [d \in Ranks |-> <<>>], posted |-> [s \in Ranks |-> <<>>],
   sends |-> {}])

Init ==
  /\ sc \in Scenarios
  /\ rank = [r \in Ranks |-> NewComm(r)]
  /\ wire = {}

AllDone == \A r \in Ranks : rank[r].call > Len(sc.calls)

\* The program goes on to something else.
Done == AllDone /\ UNCHANGED vars

Next == Ours /\
  \/ \E r \in Ranks :
       \/ Start(r)
       \/ ProgressWindow(r)
       \/ ProgressReceive(r)
       \/ StartTimer(r)
       \/ TimedOut(r)
       \/ ProgressDropped(r)
       \/ \E s \in Ranks : Receive(r, s)
       \/ \E x \in rank[r].sends : SendCompletion(r, x)
  \/ Done

Spec == Init /\ [][Next]_vars

\* The progress function and the callbacks are called again and again, the
\* timer of a rank that stalls runs out.  No packet has to arrive: the steps
\* that take one from the wire are not fair.
Fairness == \A r \in 0 .. 3 :
  /\ WF_vars(Ours /\ r \in Ranks /\ Start(r))
  /\ WF_vars(Ours /\ r \in Ranks /\ ProgressWindow(r) /\ wire \subseteq wire')
  /\ WF_vars(Ours /\ r \in Ranks /\ ProgressReceive(r) /\ wire' = wire)
  /\ WF_vars(Ours /\ r \in Ranks /\ StartTimer(r))
  /\ WF_vars(Ours /\ r \in Ranks /\ TimedOut(r))
  /\ WF_vars(Ours /\ r \in Ranks /\ ProgressDropped(r))
  /\ \A s \in 0 .. 3 : WF_vars(Ours /\ {r, s} \subseteq Ranks /\ Receive(r, s))
  /\ \A x \in {"ack", "data"} \X (1 .. 2) :
       WF_vars(Ours /\ r \in Ranks /\ SendCompletion(r, x))

FairSpec == Spec /\ Fairness

-----------------------------------------------------------------------------
(* Properties.                                                             *)

\* A broadcast that has completed on a rank has put into its buffer what the
\* root sent, packet by packet, whatever was lost, late, out of order or
\* resent (process_packet, recv_data_completion).
Delivered == Ours => \A r \in Ranks : \A k \in 1 .. rank[r].call - 1 :
  sc.calls[k].root # r =>
    \A i \in DOMAIN rank[r].buf[k] : rank[r].buf[k][i] = <<k, i>>

FirstPsn(k) == FoldLeft(LAMBDA n, c : n + c.packets, 0, SubSeq(sc.calls, 1, k - 1))

\* A packet that a child has not received yet is still in the window of its
\* parent, or to come: a rank reuses the window only after all the children
\* of the calls in it (r_window_recycle, reliable).
KeptForChildren == Ours => \A r \in Ranks, k \in 1 .. Len(sc.calls) :
  \A c \in Gone(Children(r, sc.calls[k].root)) :
    \A i \in DOMAIN rank[c].buf[k] :
      rank[c].buf[k][i] = <<>> => rank[r].last_acked <= FirstPsn(k) + i

\* The packet buffers are all accounted for: free, posted, pending, in the
\* window or waiting for a resent packet.  None is lost by a duplicate or a
\* late packet, and there always was one to wait with (buf_get_free is not
\* checked in reliable_send_NACK).
BuffersKept == Ours => \A r \in Ranks : LET R == rank[r] IN
  /\ R.bpool >= 0
  /\ R.bpool + R.pending_recv + Len(R.pending_q)
       + Cardinality({w \in DOMAIN R.window : R.window[w] # NoPacket})
       + (IF R.drop THEN 1 ELSE 0) = 2 * sc.rx

\* The message that a posted receive meets is of the kind it was posted for
\* (the assertion of recv_completion on the type of the packet).
MetAsPosted == Ours => \A r \in Ranks : ~rank[r].aborted

\* Every rank completes every call, even if no multicast packet ever arrives.
Completes == <>(Ours => AllDone)

=============================================================================
