------------------------------ MODULE UcpTask ------------------------------
(***************************************************************************)
(* Collectives of tl/ucp over tag matching.  Every rank runs the progress  *)
(* function of its task (task[r].todo holds the steps left, by lanes); UCX *)
(* matches the k-th send of a rank to a peer under a tag with the k-th     *)
(* receive the peer posted for it and moves the data at any time after     *)
(* both were posted.  An eager send completes when it is posted, the other *)
(* protocol reads the send buffer when the message is delivered.           *)
(***************************************************************************)
EXTENDS UcpColl

CONSTANTS Colls   \* the collectives, each run on its own

VARIABLES coll,   \* the collective that runs
          task    \* the ucc_tl_ucp_task_t of every rank

vars == <<coll, task>>

Counters    == [send_posted |-> 0, send_completed |-> 0,
                recv_posted |-> 0, recv_completed |-> 0]

-----------------------------------------------------------------------------
\* What the counters of the task say

\* Defect: only the receives are waited for.
MutP2pComplete(k) == k.recv_posted = k.recv_completed

\* UCC_TL_UCP_TASK_P2P_COMPLETE
P2pComplete(k) == /\ k.send_posted = k.send_completed
                  /\ k.recv_posted = k.recv_completed

Lanes(r)       == task[r].todo
LaneDone(t, l) == t.todo[l].steps = << >>

\* ucc_tl_ucp_test, _test_recv, _test_send, _test_ring, _test_onesided, the
\* windows of the linear algorithms, and the counts of the callbacks
Holds(r, l, w) ==
    LET t == task[r]
        k == t.cnt[Lanes(r)[l].tag]
    IN  CASE w.on = "go"    -> TRUE
          [] w.on = "all"   -> P2pComplete(k)
          [] w.on = "recv"  -> k.recv_posted = k.recv_completed
          [] w.on = "send"  -> k.send_posted = k.send_completed
          [] w.on = "ring"  -> /\ k.send_posted - k.send_completed <= 1
                               /\ k.recv_posted = k.recv_completed
          [] w.on = "rwin"  -> k.recv_posted - k.recv_completed < w.k
          [] w.on = "swin"  -> k.send_posted - k.send_completed < w.k
          [] w.on = "got"   -> CopiesIn(<<Lanes(r)[l].tag, w.k[1]>>, t.got) >= w.k[2]
          [] w.on = "sync"  -> P2pComplete(k) /\ t.sync = w.k
          [] w.on = "lanes" -> \A i \in w.k : LaneDone(t, i)

-----------------------------------------------------------------------------
\* Operations on the memory of a rank

Slice(t, buf, off, len) == SubSeq(t.mem[buf], off + 1, off + len)
InBuffer(t, buf, off, len) ==
    /\ off >= 0 /\ len >= 0 /\ buf \in DOMAIN t.mem
    /\ len = 0 \/ off + len <= Len(t.mem[buf])

Store(t, buf, off, vals) ==
    [t EXCEPT !.mem[buf] = Overwrite(@, off, vals)]

\* The sum of elements with one index; elements that do not belong together give
\* one that no result has
ReducedAt(t, op, i) ==
    LET Part(k) == t.mem[op.places[k][1]][op.places[k][2] + i]
        same    == \A k \in DOMAIN op.places : Part(k)[1] = Part(1)[1]
    IN  <<IF same THEN Part(1)[1] ELSE -1,
          FoldLeft(LAMBDA acc, a : acc + t.mem[a[1]][a[2] + i][2], 0, op.places) \div op.div>>

\* Two places are the same or do not overlap
Apart(a, b, len) ==
    \/ a[1] # b[1] \/ a[2] = b[2]
    \/ a[2] + len <= b[2] \/ b[2] + len <= a[2]

\* An operation outside its buffer, or a memcpy or reduction between places that
\* overlap in part, is an error of the program.
Fits(t, op) ==
    /\ op.op \in {"send", "recv", "copy", "move", "put", "reduce"}
        => InBuffer(t, op.buf, op.off, op.len)
    /\ op.op \in {"copy", "move"} => InBuffer(t, op.label[1], op.label[2], op.len)
    /\ op.op = "copy" => Apart(op.label, <<op.buf, op.off>>, op.len)
    /\ op.op = "reduce" =>
        \A i \in DOMAIN op.places :
            /\ InBuffer(t, op.places[i][1], op.places[i][2], op.len)
            /\ Apart(<<op.buf, op.off>>, op.places[i], op.len)

Bump(t, tag, f) == [t EXCEPT !.cnt[tag][f] = @ + 1]

\* ucc_tl_ucp_send_common, _recv_common: the operation is counted, then posted
PostSend(t, tag, op) ==
    LET msg == [peer |-> op.peer, tag |-> tag, buf |-> op.buf, off |-> op.off,
                len |-> op.len, kind |-> op.op, label |-> op.label,
                vals |-> IF coll.eager THEN Slice(t, op.buf, op.off, op.len) ELSE << >>]
        u == [Bump(t, tag, "send_posted") EXCEPT !.sends = Append(@, msg)]
    IN  IF coll.eager THEN Bump(u, tag, "send_completed") ELSE u
PostRecv(t, tag, op) ==
    [Bump(t, tag, "recv_posted") EXCEPT !.recvs =
        Append(@, [peer |-> op.peer, tag |-> tag, buf |-> op.buf, off |-> op.off,
                   len |-> op.len, label |-> op.label])]

\* s_scratch_busy: the buffer is still read by a send
Resolve(t, tag, op) ==
    LET busy == \E i \in DOMAIN t.sends :
                    /\ t.sends[i].tag = tag /\ t.sends[i].kind = "send"
                    /\ t.sends[i].buf = op.buf /\ t.sends[i].off = op.off
    IN  IF op.slot > 0 /\ busy /\ ~coll.eager THEN [op EXCEPT !.off = @ + op.slot] ELSE op

\* One operation of a step
Do(t, tag, op) ==
    CASE op.op \in {"send", "put"} -> PostSend(t, tag, op)
      [] op.op = "recv"   -> PostRecv(t, tag, op)
      [] op.op = "send0"  -> Bump(Bump(t, tag, "send_posted"), tag, "send_completed")
      [] op.op = "recv0"  -> Bump(Bump(t, tag, "recv_posted"), tag, "recv_completed")
      [] op.op = "inc"    -> [t EXCEPT !.sends = Append(@,
                                [peer |-> op.peer, tag |-> tag, kind |-> "inc"])]
      [] op.op = "reset"  -> [t EXCEPT !.sync = 0]
      [] op.op \in {"copy", "move"} -> Store(t, op.label[1], op.label[2],
                                   Slice(t, op.buf, op.off, op.len))
      [] op.op = "reduce" -> Store(t, op.buf, op.off,
                                   [i \in 1 .. op.len |-> ReducedAt(t, op, i)])

\* The tasks whose out label stands before the last task->super.status = UCC_OK:
\* the allgather, reduce_scatter and scatter over a knomial tree.  In a schedule of
\* two such tasks each is a lane; the second task of reduce_srg is a gather.
OutBeforeOk(l) ==
    \/ coll.alg \in {"allgather_knomial", "reduce_scatter_knomial",
                     "allreduce_sra_knomial", "bcast_sag_knomial"}
    \/ coll.alg = "reduce_srg_knomial" /\ l % 2 = 1

\* Defect: the callback of a post that fails counts it, and the function goes on.
MutPostFailed(t, l, op) ==
    Bump(t, t.todo[l].tag, IF op = "send" THEN "send_completed" ELSE "recv_completed")

\* UCPCHECK_GOTO: a post that fails ends the progress function of its task, with
\* the error or, where the label stands before the assignment, with UCC_OK.  The
\* schedule then goes on with its next task.
PostFailed(t, l, op) ==
    IF OutBeforeOk(l)
    THEN [t EXCEPT !.todo[l].steps = << >>, !.out = @ \cup {l}]
    ELSE [t EXCEPT !.status = "ERR", !.out = @ \cup {l}]

\* The states of a task after its next operation; nothing after a post that fails
\* is done
Outcomes(r, t, l, op) ==
    LET tag  == Lanes(r)[l].tag
        post == op.op \in {"send", "recv"}
        count == IF op.op = "send" THEN "send_posted" ELSE "recv_posted"
    IN  IF t.status # "INPROGRESS" \/ l \in t.out THEN {t}
        ELSE IF ~Fits(t, Resolve(t, tag, op)) THEN {[t EXCEPT !.status = "FAULT"]}
        ELSE {Do(t, tag, Resolve(t, tag, op))}
             \cup (IF post /\ coll.fail = r
                   THEN {PostFailed(Bump(t, tag, count), l, op.op)} ELSE {})
Run(r, l, ops) ==
    LET Upto[i \in 0 .. Len(ops)] ==
            IF i = 0 THEN {task[r]}
            ELSE UNION {Outcomes(r, t, l, ops[i]) : t \in Upto[i - 1]}
    IN  Upto[Len(ops)]

-----------------------------------------------------------------------------
Init ==
    /\ coll \in Colls
    /\ task = [r \in Ranks(coll) |->
            LET todo == Program(coll, r) IN
                [todo |-> todo,
                 cnt |-> [g \in {todo[l].tag : l \in DOMAIN todo} |-> Counters],
                 mem |-> Memory(coll, r), sends |-> << >>, recvs |-> << >>,
                 got |-> EmptyBag, sync |-> 0, failed |-> FALSE, out |-> {},
                 status |-> "INITIALIZED"]]

\* The user posts the collective on a rank
Posted(r) ==
    [task[r] EXCEPT !.status = IF Lanes(r) = << >> THEN "OK" ELSE "INPROGRESS"]
CanPost(r) == task[r].status = "INITIALIZED"
Post(r) ==
    /\ CanPost(r)
    /\ task' = [task EXCEPT ![r] = Posted(r)]
    /\ UNCHANGED coll

CanAdvance(r, l) ==
    /\ task[r].status = "INPROGRESS"
    /\ ~LaneDone(task[r], l)
    /\ Holds(r, l, Lanes(r)[l].steps[1][1])

\* The progress function runs the next step.  After the last one the status of
\* the task is UCC_OK, whatever a completion callback has left there.
Stepped(t, l) ==
    LET u    == IF l \in t.out THEN t ELSE [t EXCEPT !.todo[l].steps = Tail(@)]
        last == \A i \in DOMAIN u.todo : LaneDone(u, i)
    IN  IF t.status # "INPROGRESS" THEN t
        ELSE IF last THEN [u EXCEPT !.status = "OK"] ELSE u
Advanced(r, l) ==
    {Stepped(t, l) : t \in Run(r, l, Lanes(r)[l].steps[1][2])}
Advance(r, l) ==
    /\ CanAdvance(r, l)
    /\ \E t \in Advanced(r, l) : task' = [task EXCEPT ![r] = t]
    /\ UNCHANGED coll

\* The place of the k-th receive among those for the same messages
Earlier(r, k) ==
    LET rv == task[r].recvs[k]
    IN  Cardinality({j \in 1 .. k : /\ task[r].recvs[j].peer = rv.peer
                                    /\ task[r].recvs[j].tag = rv.tag})

Sends(p, r, tag) ==
    SelectSeq([i \in DOMAIN task[p].sends |-> i],
              LAMBDA i : /\ task[p].sends[i].peer = r
                         /\ task[p].sends[i].tag = tag
                         /\ task[p].sends[i].kind = "send")

Matched(r, k) ==
    LET rv == task[r].recvs[k] IN Earlier(r, k) <= Len(Sends(rv.peer, r, rv.tag))

MatchOf(r, k) ==
    LET rv == task[r].recvs[k] IN Sends(rv.peer, r, rv.tag)[Earlier(r, k)]

SendOver(t, i) ==
    LET m == t.sends[i]
        u == [t EXCEPT !.sends = RemoveAt(@, i)]
    IN  IF coll.eager THEN u ELSE Bump(u, m.tag, "send_completed")

\* The data of a message, and what it does to the task that receives it
Payload(p, i) ==
    LET m == task[p].sends[i]
    IN  IF coll.eager THEN m.vals ELSE Slice(task[p], m.buf, m.off, m.len)
Counted(t, k) ==
    LET rv == t.recvs[k]
    IN  Bump([t EXCEPT !.recvs = RemoveAt(@, k),
                       !.got = IF rv.label = 0 THEN @ ELSE @ (+) SetToBag({<<rv.tag, rv.label>>})],
             rv.tag, "recv_completed")
Received(t, k, vals) == Store(Counted(t, k), t.recvs[k].buf, t.recvs[k].off, vals)

\* A message is delivered: ucc_tl_ucp_send_completion_cb,
\* ucc_tl_ucp_recv_completion_cb.  With an error the status of the task is set,
\* and the operation is counted all the same.
Deliver(r, k, ok) ==
    LET p == task[r].recvs[k].peer
        i == MatchOf(r, k)
    IN  /\ Matched(r, k)
        /\ ok \/ (coll.flight = r /\ ~task[r].failed)
        /\ task' = [[task EXCEPT ![p] = SendOver(@, i)] EXCEPT ![r] =
                IF ok THEN Received(@, k, Payload(p, i))
                ELSE [Counted(@, k) EXCEPT !.failed = TRUE]]
        /\ UNCHANGED coll

\* A put or an atomic of a rank reaches the peer, in the order of the endpoint.
CanLand(p, i) ==
    /\ task[p].sends[i].kind \in {"put", "inc"}
    /\ \A j \in 1 .. i - 1 : task[p].sends[j].peer # task[p].sends[i].peer
Land(p, i) ==
    LET m == task[p].sends[i]
        Gone(t) == IF m.kind = "put" THEN SendOver(t, i)
                   ELSE [t EXCEPT !.sends = RemoveAt(@, i)]
    IN  /\ CanLand(p, i)
        /\ task' = [[task EXCEPT ![p] = Gone(@)] EXCEPT ![m.peer] =
                IF m.kind = "inc" THEN [@ EXCEPT !.sync = @ + 1]
                ELSE Store(@, m.label[1], m.label[2], Payload(p, i))]
        /\ UNCHANGED coll

\* The progress function returns to the queue, which completes a task whose
\* status a callback has set to an error.
ErrorSeen(r) ==
    /\ task[r].status = "INPROGRESS" /\ task[r].failed
    /\ \A l \in DOMAIN Lanes(r) : ~CanAdvance(r, l)
    /\ task' = [task EXCEPT ![r].status = "ERR"]
    /\ UNCHANGED coll

Over == \A r \in Ranks(coll) : task[r].status \in {"OK", "ERR"}

\* All messages are delivered and all ranks are done, or a failed rank has left
\* the others waiting.
Terminating ==
    /\ Over \/ coll.fail # NoRank \/ coll.flight # NoRank
    /\ UNCHANGED vars

-----------------------------------------------------------------------------
\* Large teams run in lockstep: all ranks post, then as long as a rank can go on
\* all that can take a step, then every rank receives the message for its first
\* receive that has one.
Runnable(r)    == {l \in DOMAIN Lanes(r) : CanAdvance(r, l)}
Deliverable(r) == {k \in DOMAIN task[r].recvs : Matched(r, k)}
Only(S)        == CHOOSE x \in S : TRUE

AllPost    == task' = [r \in Ranks(coll) |-> Posted(r)]
AllAdvance ==
    task' = [r \in Ranks(coll) |->
        Only(UNION {IF ls = {} THEN {task[r]} ELSE Advanced(r, Min(ls)) : ls \in {Runnable(r)}})]

\* The sends of a rank that are over once the receives in who are
Without(seq, idx) ==
    FoldLeft(LAMBDA acc, i : IF i \in idx THEN acc ELSE Append(acc, seq[i]), << >>,
             [i \in DOMAIN seq |-> i])
SendsOver(t, idx) ==
    LET Done(g) == IF coll.eager THEN 0 ELSE Cardinality({j \in idx : t.sends[j].tag = g})
    IN  [t EXCEPT !.sends = Without(@, idx),
                  !.cnt = [g \in DOMAIN @ |-> [@[g] EXCEPT !.send_completed = @ + Done(g)]]]
AllDeliver ==
    \E who \in {UNION {{<<r, Min(ks)>> : ks \in {Deliverable(r)} \ {{}}} : r \in Ranks(coll)}} :
    \E msgs \in {{[r |-> x[1], k |-> x[2], p |-> task[x[1]].recvs[x[2]].peer,
                   i |-> MatchOf(x[1], x[2])] : x \in who}} :
        /\ who # {}
        /\ task' = [q \in Ranks(coll) |-> Only(
                UNION {IF \E m \in msgs : m.r = q
                       THEN UNION {{Received(t, m.k, v) : v \in {Payload(m.p, m.i)}} :
                                        m \in {x \in msgs : x.r = q}}
                       ELSE {t} :
                    t \in {SendsOver(task[q], {m.i : m \in {x \in msgs : x.p = q}})}})]

Landable == {x \in UNION {{p} \X DOMAIN task[p].sends : p \in Ranks(coll)} :
                CanLand(x[1], x[2])}

Lockstep ==
    /\ IF \E r \in Ranks(coll) : CanPost(r) THEN AllPost
       ELSE IF \E r \in Ranks(coll) : Runnable(r) # {} THEN AllAdvance
       ELSE AllDeliver
    /\ UNCHANGED coll

Next ==
    \/ coll.sched = "one" /\ Lockstep
    \/ /\ coll.sched = "any"
       /\ \/ \E r \in Ranks(coll) : Post(r)
          \/ \E r \in Ranks(coll) : \E l \in DOMAIN Lanes(r) : Advance(r, l)
          \/ \E r \in Ranks(coll) : \E k \in DOMAIN task[r].recvs : \E ok \in BOOLEAN :
                Deliver(r, k, ok)
          \/ \E x \in Landable : Land(x[1], x[2])
          \/ \E r \in Ranks(coll) : ErrorSeen(r)
    \/ Terminating

Spec     == Init /\ [][Next]_vars
FairSpec == Spec /\ WF_vars(Next)

-----------------------------------------------------------------------------
\* Properties

NoFailure == coll.fail = NoRank /\ coll.flight = NoRank

\* When the task of a rank has completed, the destination buffer of the rank
\* holds what the collective promises, and keeps it while other ranks go on.
ResultThere ==
    \A r \in Ranks(coll) :
        task[r].status = "OK" /\ NoFailure =>
            LET promised == Result(coll, r)
            IN  Slice(task[r], "dst", ResultAt(coll, r), Len(promised)) = promised

\* A message fits in the receive it is matched with.
NoTruncation ==
    \A r \in Ranks(coll) : \A k \in DOMAIN task[r].recvs :
        Matched(r, k) =>
            task[task[r].recvs[k].peer].sends[MatchOf(r, k)].len <= task[r].recvs[k].len

\* A task that has completed has no operation left in flight: the user may reuse
\* the buffers, and finalize returns the task to the pool.
NothingPending ==
    NoFailure => \A r \in Ranks(coll) :
        task[r].status = "OK" =>
            /\ task[r].recvs = << >>
            /\ \A g \in DOMAIN task[r].cnt :
                /\ task[r].cnt[g].send_completed = task[r].cnt[g].send_posted
                /\ task[r].cnt[g].recv_completed = task[r].cnt[g].recv_posted

\* No rank leaves a barrier before every rank has entered it; the root does not
\* leave a fanin before all have, and no rank a fanout before the root has.
Synchronised ==
    LET Entered(r) == task[r].status # "INITIALIZED"
        Left(r)    == task[r].status = "OK"
    IN  NoFailure => \A r \in Ranks(coll) : Left(r) =>
            /\ coll.coll = "barrier" => \A q \in Ranks(coll) : Entered(q)
            /\ coll.coll = "fanin" /\ r = coll.root => \A q \in Ranks(coll) : Entered(q)
            /\ coll.coll = "fanout" => Entered(coll.root)

\* A post that fails on one rank is not felt as a wrong result on another: a rank
\* whose own posts all succeed and whose task completes has what the collective
\* promises, also where the rank that failed reports success.  Not so for a
\* schedule of two tasks, which goes on with the data of a task that gave up.
Schedules == {"allreduce_sra_knomial", "reduce_srg_knomial", "bcast_sag_knomial"}
FailureContained ==
    coll.fail # NoRank /\ coll.alg \notin Schedules =>
        \A r \in Ranks(coll) :
            task[r].status = "OK" /\ task[r].out = {} =>
                LET promised == Result(coll, r)
                IN  Slice(task[r], "dst", ResultAt(coll, r), Len(promised)) = promised

\* ucc_assert(UCC_TL_UCP_TASK_P2P_COMPLETE(task)) behind the label: all that was
\* posted is completed when the status becomes UCC_OK.
CompleteAtOut ==
    \A r \in Ranks(coll) : task[r].status = "OK" =>
        \A g \in DOMAIN task[r].cnt : P2pComplete(task[r].cnt[g])

\* Every collective completes on every rank.
Completes == <>(Over \/ ~NoFailure)
=============================================================================
