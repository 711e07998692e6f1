---------------------------- MODULE Mlx5Alltoall ----------------------------
(***************************************************************************)
(* The alltoall of TL mlx5.  The ranks of a node put the registrations of  *)
(* their buffers into shared memory; one rank of the node, the ASR, makes  *)
(* the device gather, transpose and write the blocks of the whole node     *)
(* into the buffers of the other nodes.  Nodes tell each other that they   *)
(* are ready with a barrier flag, and that their blocks are written with   *)
(* an atomic that is sent behind them; the ASR releases the node when all  *)
(* atomics are there.  There is one operation slot (MAX_OUTSTANDING_OPS).  *)
(*                                                                         *)
(* An element is known by its source and its destination; its value is the *)
(* number of the operation it was sent for.  The device executes what was  *)
(* posted on a queue pair in order, and reads the sources when it does.    *)
(***************************************************************************)
EXTENDS Integers, Sequences, FiniteSets, SequencesExt, FiniteSetsExt

CONSTANTS Scenarios  \* [kind, nodes, ppn, block, regular, shape, batch, serial,
                     \*  passages, chunks, barrier, late, bufs]

VARIABLES sc,   \* the scenario; bufs[n][l]: the buffers of operation n at local rank l
          rank, \* <<node, local rank>> -> the state of the rank
          wire  \* <<node, node>> -> what is posted on the queue pair

vars == <<sc, rank, wire>>

Ours == sc.kind = "alltoall"
Nodes == 0 .. sc.nodes - 1
Locals == 0 .. sc.ppn - 1
Ranks == Nodes \X Locals
IsAsr(r) == r[2] = 0
Calls == 1 .. Len(sc.bufs)
BufferNames == 1 .. 2

With(v, F(_)) == CHOOSE y \in {F(x) : x \in {v}} : TRUE

-----------------------------------------------------------------------------
(* The shape of the blocks.                                                *)

MaxMsgSize == 128
MaxBlockSize == 64
MaxTransposeSize == 8192
RoundUpPower2(x) == CHOOSE p \in {2 ^ i : i \in 0 .. 14} : p >= x /\ (p = 1 \/ p \div 2 < x)

BlockSizeFits(size, h, w) ==
  /\ size <= MaxMsgSize
  /\ h * Max({RoundUpPower2(w) * RoundUpPower2(Max({size, 8})), MaxMsgSize}) <= MaxTransposeSize

Abs(x) == IF x < 0 THEN -x ELSE x

\* The order in which the two loops meet the shapes that force_regular lets
\* through; the loop over w begins at a bound that depends on the best shape
\* so far.
BlockDimensions(ppn, size, mode) ==
  LET Divisors == {x \in 1 .. MaxBlockSize : x <= ppn /\ ppn % x = 0}
      RECURSIVE Columns(_, _, _)
      Columns(h, ws, best) ==
        IF ws = {} THEN best
        ELSE LET w == Min(ws)
                 better == BlockSizeFits(size, h, w)
                           /\ (h * w > best[1] * best[2]
                               \/ Abs((h \div w) - 1) < Abs((best[1] \div best[2]) - 1))
             IN  Columns(h, ws \ {w}, IF better THEN <<h, w>> ELSE best)
      RECURSIVE Rows(_, _)
      Rows(hs, best) ==
        IF hs = {} THEN best
        ELSE LET h == Min(hs)
                 from == Max({IF mode = "wide" THEN h ELSE 1, (best[1] * best[2]) \div h})
                 to == IF mode = "long" THEN h ELSE MaxBlockSize
             IN  Rows(hs \ {h}, Columns(h, {w \in Divisors : from <= w /\ w <= to}, best))
  IN  Rows(Divisors, <<1, 1>>)

\* alltoall_init: height and width.
ShapeOf(s) == IF s.block > 0 THEN <<s.block, s.block>>
              ELSE BlockDimensions(s.ppn, s.bufs[1][0].size, s.shape)
Shape == rank[<<0, 0>>].shape

\* The number of blocks of one node for another one, and the elements
\* <<source, destination>> of each.  When the blocks do not fit the node
\* (leftovers), those of the last row and column are smaller.
Leftovers == sc.ppn % Shape[1] # 0
Columns == IF Leftovers THEN (sc.ppn \div Shape[1]) + 1 ELSE sc.ppn \div Shape[2]
NodeBlocks == IF Leftovers THEN Columns * Columns
              ELSE (sc.ppn * sc.ppn) \div (Shape[1] * Shape[2])
Block(k) ==
  LET across == IF Leftovers THEN k \div Columns ELSE k % Columns
      down == IF Leftovers THEN k % Columns ELSE k \div Columns
  IN  {e \in Locals \X Locals : e[1] \div Shape[1] = down /\ e[2] \div Shape[2] = across}

-----------------------------------------------------------------------------
(* The tasks of an operation.  A task that is complete starts the next one *)
(* before it returns.  S is [R, out]: the rank while it runs, and what it  *)
(* posts to the queue pairs.                                               *)

SendTo(S, node, wr) == [S EXCEPT !.out[node] = Append(@, wr)]
Buf(r, n) == sc.bufs[n][r[2]]
SetOp(S, n, op) == [S EXCEPT !.R.ops[n] = op]

\* post_wait_on_data, when the last node has got its atomic.
SendDone(S, n) ==
  IF S.R.ops[n].started = sc.nodes THEN [S EXCEPT !.R.waiting = n] ELSE S

SendStart(S, n) == [S EXCEPT !.R.ops[n].task = "send", !.R.ops[n].cursor = 0]

\* populate_send_recv_mkeys.
Populate(r, S) ==
  [S EXCEPT !.R.mkey = [side \in {"send", "recv"} |->
     IF side \in S.R.ctrl.flag
     THEN [l \in Locals |-> IF l = 0 THEN S.R.ctrl.entry[side] ELSE rank[<<r[1], l>>].ctrl.entry[side]]
     ELSE @[side]]]

\* asr_barrier_start, with a service allreduce or with flags.
AsrBarrierStart(r, S, n) ==
  With(Populate(r, [S EXCEPT !.R.ops[n].started = 0, !.R.counter = 0,
                             !.R.ops[n].sent = [a \in Nodes |-> 0]]), LAMBDA T :
    IF sc.barrier
    THEN [T EXCEPT !.R.ops[n].task = "barrier", !.R.barrier = n,
                   !.R.flags = [a \in Nodes |-> n]]
    ELSE SendStart([T EXCEPT !.R.flags[r[1]] = n,
                             !.out = [a \in Nodes |-> IF a = r[1] THEN @[a]
                                      ELSE Append(@[a], [wr |-> "flag", seq |-> n])]], n))

\* node_fanin: the ASR waits for the others and adds what they need.
NodeFanin(r, S, n) ==
  IF ~IsAsr(r) THEN [S EXCEPT !.R.ctrl.seq = n, !.R.ops[n].task = "fanout"]
  ELSE IF \E l \in Locals \ {0} : rank[<<r[1], l>>].ctrl.seq # n
  THEN [S EXCEPT !.R.ops[n].task = "fanin"]
  ELSE With([S EXCEPT !.R.ctrl.flag = @ \cup UNION {rank[<<r[1], l>>].ctrl.flag : l \in Locals \ {0}}],
            LAMBDA T : AsrBarrierStart(r, T, n))

\* reg_fanin_start: which mkeys do not describe the buffers any more.
CacheFlag(r, R, n) ==
  {side \in {"send", "recv"} : \/ Buf(r, n).size # R.prev.size
                               \/ Buf(r, n)[side] # R.prev[side]}

\* What the rank remembers of its buffers is what its mkeys describe.
Remembered(R) == R.prev.size = 0 \/ \A side \in {"send", "recv"} :
  R.ctrl.entry[side] = [buf |-> R.prev[side], size |-> R.prev.size]

\* update_mkeys_entries, and the fan-in.
RegFaninStart(r, S, n) ==
  With(CacheFlag(r, S.R, n), LAMBDA flag :
    With([S EXCEPT !.R.ctrl.flag = flag,
                   !.R.stale = @ \/ ~Remembered(S.R),
                   !.R.ctrl.entry = [side \in {"send", "recv"} |->
                     IF side \in flag THEN [buf |-> Buf(r, n)[side], size |-> Buf(r, n).size]
                     ELSE @[side]]], LAMBDA T : NodeFanin(r, T, n)))

\* poll_free_op_slot_progress.
SlotProgress(r, S, n) ==
  IF S.R.busy THEN S
  ELSE With([S EXCEPT !.R.busy = TRUE, !.R.ops[n].started = 1], LAMBDA T : RegFaninStart(r, T, n))

\* poll_cq: the completions of the writes; a chunk whose writes are all
\* complete goes back to the pool.
PollCq(S) ==
  [S EXCEPT
    !.R.cq = <<>>,
    !.R.ops = [n \in DOMAIN @ |-> [@[n] EXCEPT
      !.completed = @ + Cardinality({i \in DOMAIN S.R.cq : S.R.chunk[S.R.cq[i]].op = n})]],
    !.R.chunk = [c \in DOMAIN @ |-> [@[c] EXCEPT
      !.completed = @ + Cardinality({i \in DOMAIN S.R.cq : S.R.cq[i] = c})]],
    !.R.pool = @ \cup {c \in ToSet(S.R.cq) : S.R.chunk[c].all /\
      S.R.chunk[c].completed + Cardinality({i \in DOMAIN S.R.cq : S.R.cq[i] = c})
        = S.R.chunk[c].posted}]

\* The blocks from first to last in one write (of the leftovers: one each).
WriteBlocks(S, n, node, first, last, c) ==
  [SendTo(S, node, [wr |-> "write", els |-> UNION {Block(k) : k \in first .. last},
                    chunk |-> c, seq |-> n])
     EXCEPT !.R.ops[n].posted = @ + (IF c = 0 THEN 0 ELSE 1)]

\* What send_blocks_start posts to one node in one pass of its loop.
Batches(S, n, node, c) ==
  LET from == S.R.ops[n].sent[node]
      to(i) == Min({from + i * sc.batch, NodeBlocks})
      writes == {i \in 1 .. sc.serial : to(i - 1) < to(i)}
      RECURSIVE All(_, _)
      All(T, i) == IF i \notin writes THEN T
                   ELSE With(WriteBlocks(T, n, node, to(i - 1), to(i) - 1, c), LAMBDA U : All(U, i + 1))
  IN  [With(S, LAMBDA T : All(T, 1)) EXCEPT !.R.ops[n].sent[node] = to(sc.serial),
                        !.R.chunk = IF c = 0 THEN @ ELSE [@ EXCEPT
                          ![c].posted = @ + Cardinality(writes), ![c].all = TRUE, ![c].op = n]]

\* send_blocks_leftovers_start: a chunk per block, except for those that are
\* one element wide.
LeftoverBlocks(S, n, node) ==
  LET RECURSIVE All(_, _)
      All(T, k) ==
        IF k = NodeBlocks THEN T
        ELSE LET side == sc.ppn % Shape[1]
                 thin == side = 1 /\ (k % Columns = Columns - 1 \/ k \div Columns = Columns - 1)
                 c == IF thin THEN 0 ELSE Min(T.R.pool)
             IN  With([WriteBlocks(T, n, node, k, k, c) EXCEPT
                         !.R.pool = @ \ {c},
                         !.R.chunk = IF c = 0 THEN @ ELSE [@ EXCEPT ![c].op = n]],
                      LAMBDA U : All(U, k + 1))
  IN  [All(S, 0) EXCEPT !.R.ops[n].sent[node] = NodeBlocks]

\* All blocks of a node are posted: the atomic goes behind them.
SendAtomic(S, n, node) ==
  IF S.R.ops[n].sent[node] # NodeBlocks THEN S
  ELSE [SendTo(S, node, [wr |-> "atomic", seq |-> n])
          EXCEPT !.R.ops[n].sent[node] = NodeBlocks + 1, !.R.ops[n].started = @ + 1]

\* The node has said that it is ready for this operation.
Ready(S, n, node) == S.R.flags[node] = n

\* Send_blocks to the node that the loops have come to.
SendOne(r, S, n) ==
  LET node == (S.R.ops[n].cursor + r[1]) % sc.nodes
      open == Ready(S, n, node) /\ S.R.ops[n].sent[node] < NodeBlocks
      c == Min(S.R.pool)
  IN  IF ~open THEN S
      ELSE With(CASE Leftovers -> LeftoverBlocks(S, n, node)
                  [] ~Leftovers /\ node = r[1] -> Batches(S, n, node, 0)
                  [] OTHER -> Batches([S EXCEPT !.R.pool = @ \ {c}], n, node, c),
                LAMBDA T : SendAtomic(T, n, node))

\* wait_for_dm_chunk: the call spins until a chunk is back.
NoChunk(r, R, n) ==
  LET node == (R.ops[n].cursor + r[1]) % sc.nodes
  IN  /\ R.pool = {}
      /\ Ready([R |-> R], n, node) /\ R.ops[n].sent[node] < NodeBlocks
      /\ Leftovers \/ node # r[1]

Passes == sc.nodes * (IF Leftovers THEN 1 ELSE sc.passages)

SendProgress(r, S, n) ==
  LET op == S.R.ops[n]
  IN  CASE op.cursor < Passes /\ NoChunk(r, S.R, n) -> PollCq(S)
        [] op.cursor < Passes - 1 /\ ~NoChunk(r, S.R, n) ->
             [SendOne(r, S, n) EXCEPT !.R.ops[n].cursor = @ + 1]
        [] op.cursor = Passes - 1 /\ ~NoChunk(r, S.R, n) ->
             With([SendOne(r, S, n) EXCEPT !.R.ops[n].cursor = @ + 1], LAMBDA T : SendDone(T, n))
        [] op.cursor = Passes /\ op.started # sc.nodes -> SendStart(S, n)
        [] OTHER -> With(PollCq(S), LAMBDA T :
             IF T.R.ops[n].posted = T.R.ops[n].completed
             THEN [T EXCEPT !.R.ops[n].task = "fanout"] ELSE T)

BarrierProgress(r, S, n) ==
  IF \A a \in Nodes : rank[<<a, 0>>].barrier >= n THEN SendStart(S, n) ELSE S

\* fanout_progress and node_fanout.
FanoutProgress(r, S, n) ==
  IF (IsAsr(r) /\ ~S.R.ops[n].wait_wc) \/ (~IsAsr(r) /\ rank[<<r[1], 0>>].ctrl.seq # n) THEN S
  ELSE [S EXCEPT !.R.busy = FALSE, !.R.ops[n].task = "done",
                 !.R.ctrl.seq = IF IsAsr(r) THEN n ELSE @]

TaskProgress(r, S, n) ==
  CASE S.R.ops[n].task = "slot" -> SlotProgress(r, S, n)
    [] S.R.ops[n].task = "fanin" -> NodeFanin(r, S, n)
    [] S.R.ops[n].task = "barrier" -> BarrierProgress(r, S, n)
    [] S.R.ops[n].task = "send" -> SendProgress(r, S, n)
    [] S.R.ops[n].task = "fanout" -> FanoutProgress(r, S, n)

-----------------------------------------------------------------------------
(* The steps of the ranks and of the device.                               *)

\* alltoall_init and the post: the user has filled the send buffer, and uses
\* no buffer of an operation that is not complete.  The late ranks post before
\* they have finalized the earlier operations.
Post(r) ==
  /\ rank[r].next \in Calls
  /\ LET n == rank[r].next IN
     /\ \A m \in 1 .. n - 1 : rank[r].ops[m].task \notin {"done", "final"} =>
          Buf(r, m).send # Buf(r, n).send /\ Buf(r, m).recv # Buf(r, n).recv
     /\ r \in sc.late \/ \A m \in 1 .. n - 1 : rank[r].ops[m].task = "final"
     /\ rank' = [rank EXCEPT ![r].next = n + 1, ![r].ops[n].task = "slot",
                             ![r].mem[Buf(r, n).send] = n]
  /\ UNCHANGED <<sc, wire>>

\* The progress queue polls the tasks in the order in which they were posted.
Progress(r, n) ==
  /\ rank[r].ops[n].task \notin {"none", "done", "final"}
  /\ \A m \in Calls : m < n => rank[r].ops[m].task # "slot"
  /\ \E S \in {TaskProgress(r, [R |-> rank[r], out |-> [a \in Nodes |-> <<>>]], n)} :
       /\ S.R # rank[r]
       /\ rank' = [rank EXCEPT ![r] = S.R]
       /\ wire' = [l \in DOMAIN wire |-> IF IsAsr(r) /\ l[1] = r[1] THEN wire[l] \o S.out[l[2]] ELSE wire[l]]
  /\ UNCHANGED sc

\* alltoall_finalize: only now are the buffers remembered that the mkeys
\* describe, whatever operation has changed the mkeys since.
Finalize(r, n) ==
  /\ rank[r].ops[n].task = "done"
  /\ rank' = [rank EXCEPT ![r].ops[n].task = "final",
                          ![r].prev = Buf(r, n)]
  /\ UNCHANGED <<sc, wire>>

\* What a write does: it reads through the send mkey of node a and stores
\* through the receive mkey of node b.
Written(a, b, w) ==
  [r \in Ranks |->
    IF r[1] # b THEN rank[r]
    ELSE LET to == rank[<<b, 0>>].mkey.recv[r[2]]
             els == {e \in w.els : e[2] = r[2]}
             val(i) == LET from == rank[<<a, 0>>].mkey.send[i]
                       IN  IF from.size = to.size THEN rank[<<a, i>>].mem[from.buf] ELSE 0
         IN  [rank[r] EXCEPT !.recv[to.buf] = [s \in DOMAIN @ |->
                IF s[1] = a /\ <<s[2], r[2]>> \in els THEN val(s[2]) ELSE @[s]]]]

\* The device executes the first request of the queue pair from a to b.
Execute(a, b) ==
  /\ wire[<<a, b>>] # <<>>
  /\ LET w == Head(wire[<<a, b>>]) IN
     rank' = CASE w.wr = "flag" -> [rank EXCEPT ![<<b, 0>>].flags[a] = w.seq]
               [] w.wr = "atomic" -> [rank EXCEPT ![<<b, 0>>].counter = @ + 1]
               [] OTHER -> [Written(a, b, w) EXCEPT
                              ![<<a, 0>>].cq = IF w.chunk = 0 THEN @ ELSE Append(@, w.chunk)]
  /\ wire' = [wire EXCEPT ![<<a, b>>] = Tail(@)]
  /\ UNCHANGED sc

\* The device sees that the counter has reached the number of nodes.
WaitOnData(a) ==
  LET R == rank[<<a, 0>>] IN
  /\ R.waiting # 0 /\ R.counter = sc.nodes
  /\ rank' = [rank EXCEPT ![<<a, 0>>].ops[R.waiting].wait_wc = TRUE, ![<<a, 0>>].waiting = 0]
  /\ UNCHANGED <<sc, wire>>

-----------------------------------------------------------------------------
NewOp == [task |-> "none", started |-> 0, cursor |-> 0, posted |-> 0, completed |-> 0,
          wait_wc |-> FALSE, sent |-> [a \in Nodes |-> 0]]
NoEntry == [buf |-> 0, size |-> 0]
NewRank(shape) ==
  [next |-> 1, shape |-> shape, ops |-> [n \in Calls |-> NewOp], busy |-> FALSE,
   ctrl |-> [seq |-> 0, flag |-> {}, entry |-> [side \in {"send", "recv"} |-> NoEntry]],
   stale |-> FALSE, prev |-> [send |-> 0, recv |-> 0, size |-> 0],
   mem |-> [b \in BufferNames |-> 0], recv |-> [b \in BufferNames |-> [s \in Ranks |-> 0]],
   flags |-> [a \in Nodes |-> 0], counter |-> 0, barrier |-> 0, waiting |-> 0,
   mkey |-> [side \in {"send", "recv"} |-> [l \in Locals |-> NoEntry]],
   pool |-> 1 .. sc.chunks, cq |-> <<>>,
   chunk |-> [c \in 1 .. sc.chunks |-> [posted |-> 0, all |-> FALSE, completed |-> 0, op |-> 0]]]

Init ==
  /\ sc \in Scenarios
  /\ \E shape \in {ShapeOf(sc)} : rank = [r \in Ranks |-> NewRank(shape)]
  /\ wire = [l \in Nodes \X Nodes |-> <<>>]

Complete(r, n) == rank[r].ops[n].task \in {"done", "final"}
Over == \A r \in Ranks, n \in Calls : rank[r].ops[n].task = "final"
Done == Over /\ (\A l \in DOMAIN wire : wire[l] = <<>>) /\ UNCHANGED vars

Next == Ours /\
  \/ \E r \in Ranks : Post(r) \/ \E n \in Calls : Progress(r, n) \/ Finalize(r, n)
  \/ \E a, b \in Nodes : Execute(a, b)
  \/ \E a \in Nodes : WaitOnData(a)
  \/ Done

Spec == Init /\ [][Next]_vars

\* The ranks are polled, and the device works on.
Fairness ==
  /\ \A r \in (0 .. 1) \X (0 .. 1) :
       WF_vars(Ours /\ r \in Ranks /\
                 (Post(r) \/ \E n \in Calls : Progress(r, n) \/ Finalize(r, n)))
  /\ WF_vars(Ours /\ \/ \E a, b \in Nodes : Execute(a, b)
                     \/ \E a \in Nodes : WaitOnData(a))

FairSpec == Spec /\ Fairness

-----------------------------------------------------------------------------
(* Properties.                                                             *)

\* No rank has begun an operation while it remembered the buffers of an earlier
\* operation than the last one that began: one that was finalized after the
\* next had begun.  Such an operation can go through the mkeys of the buffers
\* of that other one (previous_send_address and previous_recv_address are set
\* by alltoall_finalize only).
InTurn == \A r \in Ranks : ~rank[r].stale

\* When an operation completes on a rank, its receive buffer has what every
\* rank sent to it for that operation, although the ASRs write it for all,
\* through mkeys and chunks that serve many operations.
Delivered == Ours /\ InTurn => \A r \in Ranks, n \in Calls :
  LET used == \E m \in Calls : /\ m > n /\ rank[r].ops[m].task # "none"
                              /\ Buf(r, m).recv = Buf(r, n).recv
  IN  rank[r].ops[n].task = "done" /\ ~used =>
        \A s \in Ranks : rank[r].recv[Buf(r, n).recv][s] = n

\* No block is written into a receive buffer before its owner has entered the
\* operation: until then the buffer is the user's (the fan-in and the barrier
\* flags).
NotEarly == Ours /\ InTurn => \A r \in Ranks, b \in BufferNames, s \in Ranks :
  LET v == rank[r].recv[b][s] IN
  v > 0 => rank[r].ops[v].task # "none" /\ Buf(r, v).recv = b

\* Every operation that all ranks post completes on all of them.
Completes == <>(Ours => Over)

=============================================================================
