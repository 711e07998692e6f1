------------------------------- MODULE UcpOps -------------------------------
(***************************************************************************)
(* The vocabulary of the algorithms of tl/ucp.  What a task does is a      *)
(* sequence of steps <<wait, ops>>: once wait holds for the counters of    *)
(* the task, the progress function runs the ops, which post operations or  *)
(* work on local memory.  A rank runs one or more lanes of such steps; the *)
(* lanes with one tag are parts of one task and share its counters, lanes  *)
(* with different tags are different tasks.  Buffers are sequences of      *)
(* elements, offsets start at 0.                                           *)
(***************************************************************************)
EXTENDS DoubleBinaryTree, SequencesExt

-----------------------------------------------------------------------------
\* Waits: what ucc_tl_ucp_test and its variants look at

Wait(on, k) == [on |-> on, k |-> k]

Go           == Wait("go", 0)          \* nothing: the loop goes on
AllDone      == Wait("all", 0)         \* ucc_tl_ucp_test
RecvsDone    == Wait("recv", 0)        \* ucc_tl_ucp_test_recv
SendsDone    == Wait("send", 0)        \* ucc_tl_ucp_test_send
RingDone     == Wait("ring", 0)        \* ucc_tl_ucp_test_ring
RecvWindow(k) == Wait("rwin", k)       \* fewer than k receives in flight
SendWindow(k) == Wait("swin", k)       \* fewer than k sends in flight
Got(label, k) == Wait("got", <<label, k>>) \* receives counted by a callback
Sync(k)       == Wait("sync", k)       \* ucc_tl_ucp_test_onesided
After(lanes)  == Wait("lanes", lanes)  \* the tasks of other lanes completed

-----------------------------------------------------------------------------
\* Operations

Op(op, peer, buf, off, len, label) ==
    [op |-> op, peer |-> peer, buf |-> buf, off |-> off, len |-> len,
     label |-> label, slot |-> 0]

Send(peer, buf, off, len) == Op("send", peer, buf, off, len, 0)
Recv(peer, buf, off, len) == Op("recv", peer, buf, off, len, 0)
RecvCb(peer, buf, off, len, label) == Op("recv", peer, buf, off, len, label)

\* The _nz variants: an empty message is counted and not sent
SendNz(peer, buf, off, len) ==
    Op(IF len = 0 THEN "send0" ELSE "send", peer, buf, off, len, 0)
RecvNz(peer, buf, off, len) ==
    Op(IF len = 0 THEN "recv0" ELSE "recv", peer, buf, off, len, 0)

\* ucc_tl_ucp_put_nb to the same buffer of the peer, then ucc_tl_ucp_atomic_inc
Put(peer, buf, off, to, toff, len) ==
    [Op("put", peer, buf, off, len, 0) EXCEPT !.label = <<to, toff>>]

\* ctx->copy or ucc_mc_memcpy, waited for
Copy(to, toff, buf, off, len) ==
    [Op("copy", 0, buf, off, len, 0) EXCEPT !.label = <<to, toff>>]

\* memmove: the two places may overlap
Move(to, toff, buf, off, len) == [Copy(to, toff, buf, off, len) EXCEPT !.op = "move"]

\* ucc_dt_reduce, ucc_dt_reduce_strided, waited for: len elements of the vectors
\* at the places <<buffer, offset>>, summed up and divided (AVG) into to
Reduce(to, toff, places, len, div) ==
    [op |-> "reduce", buf |-> to, off |-> toff, len |-> len,
     places |-> places, div |-> div, slot |-> 0]

\* The operation works on the first of two buffers of size elements if no send
\* from there is in flight, and on the second one otherwise
InFreeSlot(size, op) == [op EXCEPT !.slot = size]

\* The same operations on places <<buffer, offset>>
At(place, k)            == <<place[1], place[2] + k>>
SendFrom(peer, a, len)  == Send(peer, a[1], a[2], len)
RecvAt(peer, a, len)    == Recv(peer, a[1], a[2], len)
CopyTo(to, a, len)      == Copy(to[1], to[2], a[1], a[2], len)
ReduceTo(to, places, len, div) == Reduce(to[1], to[2], places, len, div)

\* ucc_tl_ucp_atomic_inc, and the reset of the counter it increments
Inc(peer) == Op("inc", peer, "dst", 0, 0, 0)
ResetSync == Op("reset", 0, "dst", 0, 0, 0)

\* A rank's part in the collective is over before it is posted
Nothing == << >>

-----------------------------------------------------------------------------
\* Building programs

\* Rounds of posts: the first at once, each of the next ones and the end after w
Rounds(rounds, w) ==
    [i \in 1 .. Len(rounds) + 1 |->
        <<IF i = 1 THEN Go ELSE w, IF i <= Len(rounds) THEN rounds[i] ELSE << >> >>]

OneLane(steps) == << [tag |-> 1, steps |-> steps] >>

\* The same step for every element of a sequence, empty ones left out
Steps(w, seq) == [i \in 1 .. Len(seq) |-> <<w, seq[i]>>]

\* a, a - 1, ..., b
Downward(a, b) == [i \in 1 .. (IF a < b THEN 0 ELSE a - b + 1) |-> a - i + 1]
Upward(a, b)   == [i \in 1 .. (IF b < a THEN 0 ELSE b - a + 1) |-> a + i - 1]

Each(seq, F(_)) == SubSeq([i \in 1 .. Len(seq) |-> F(seq[i])], 1, Len(seq))

\* The fragments on depth frag schedules; a fragment is a chain of m tasks, and
\* a schedule takes its next fragment when all of the tasks are completed
Pipelined(depth, m, frags) ==
    LET Start(f, t) == IF t > 1 THEN After({f * m + t - 1})
                       ELSE IF f < depth THEN Go ELSE After({(f - depth) * m + m})
        Tasks(f, tasks) ==
            [t \in 1 .. m |-> [tag   |-> (f % depth) * m + t,
                               steps |-> << <<Start(f, t), << >> >> >> \o tasks[t]]]
    IN  FlattenSeq([i \in 1 .. Len(frags) |-> Tasks(i - 1, frags[i])])

\* The same steps on a part of the buffers
Shifted(steps, k) ==
    [i \in 1 .. Len(steps) |->
        <<steps[i][1], Each(steps[i][2], LAMBDA op : [op EXCEPT !.off = @ + k])>>]

SumLen(seqs) == Len(FlattenSeq(seqs))

Opt(condition, ops) == IF condition THEN ops ELSE << >>

\* VRANK, INV_VRANK
Vrank(rank, root, size)    == (rank - root + size) % size
InvVrank(rank, root, size) == (rank + root) % size
=============================================================================
