---------------------------- MODULE UcpAllreduce ----------------------------
(***************************************************************************)
(* The allreduce algorithms of tl/ucp, barrier, and the ring algorithms of *)
(* reduce_scatter and reduce_scatterv.                                     *)
(***************************************************************************)
EXTENDS UcpReduce

\* Defect: the reduced vector goes to the extra rank before it is complete.
MutLoopWait == Go

\* UCC_KN_PHASE_LOOP of allreduce and barrier: ucc_tl_ucp_test
LoopWait == AllDone

\* The exchange of a recursive knomial loop over full vectors: extra ranks give
\* their vector to their proxy and get the result from it.  own[i] and sums[i] are
\* the place that is sent and the reduction at the end of an iteration.
KnomialExchange(c, p0, map, rbuf, mine, count, own, joined, sums) ==
    LET v     == p0.rank
        its   == Iterations(p0, NextIteration)
        Loop(p, place) ==
            LET peers == LoopPeers(p, Downward(c.radix - 1, 1))
            IN  Each(LoopPeers(p, Upward(1, c.radix - 1)),
                     LAMBDA y : SendFrom(map[y], place, count))
                \o [i \in 1 .. Len(peers) |-> Recv(map[peers[i]], "scratch",
                                                       (i - 1) * count, count)]
    IN  IF p0.node_type = "EXTRA"
        THEN << <<Go, << SendFrom(map[GetProxy(v)], mine, count),
                         RecvAt(map[GetProxy(v)], rbuf, count) >> >>, <<AllDone, << >> >> >>
        ELSE Opt(p0.node_type = "PROXY",
                 << <<Go, << Recv(map[GetExtra(v)], "scratch", 0, count) >> >>,
                    <<AllDone, joined>> >>)
             \o FlattenSeq([i \in 1 .. Len(its) |->
                    << <<Go, Loop(its[i], own[i])>>, <<LoopWait, sums[i]>> >>])
             \o << <<Go, Opt(p0.node_type = "PROXY",
                             << SendFrom(map[GetExtra(v)], rbuf, count) >>)>>,
                   <<AllDone, << >> >> >>

\* ucc_tl_ucp_allreduce_knomial_start, _progress
AllreduceKnomial(c, r) ==
    LET p0   == PatternInit(c.n, MyRank(c, r), c.radix, FALSE, TRUE)
        its  == Iterations(p0, NextIteration)
        rbuf == <<"dst", 0>>
        sbuf == IF c.inplace THEN rbuf ELSE <<"src", 0>>
        Own(p) == IF LoopFirstIteration(p) /\ p0.node_type # "PROXY" THEN sbuf ELSE rbuf
        Posted(i) == SumLen(Each(SubSeq(its, 1, i),
                                  LAMBDA p : LoopPeers(p, Upward(1, c.radix - 1))))
        Sums(p, i) ==
            LET k   == Posted(i) - p.iteration * (c.radix - 1)
                now == IsAvg(c) /\ IF c.pre THEN LoopFirstIteration(p) ELSE LoopLastIteration(p)
            IN  Opt(k > 0, << ReduceTo(rbuf, << Own(p) >> \o [j \in 1 .. k |->
                                            <<"scratch", (j - 1) * c.count>>],
                                       c.count, Alpha(c, now)) >>)
        joined == << ReduceTo(rbuf, << sbuf, <<"scratch", 0>> >>, c.count, 1) >>
    IN  OneLane(KnomialExchange(c, p0, [y \in 0 .. c.n - 1 |-> MapEval(c, y)], rbuf, sbuf,
                                c.count, [i \in DOMAIN its |-> Own(its[i])], joined,
                                [i \in DOMAIN its |-> Sums(its[i], i)]))

\* ucc_tl_ucp_allreduce_knomial_init_common
AllreduceKnomialScratch(c, r) == (c.radix - 1) * c.count

\* ucc_tl_ucp_barrier_knomial_start, _progress: the same exchange without data
Barrier(c, r) ==
    LET p0   == PatternInit(c.n, r, c.radix, FALSE, TRUE)
        its  == Iterations(p0, NextIteration)
        none == <<"dst", 0>>
    IN  OneLane(KnomialExchange(c, p0, [y \in 0 .. c.n - 1 |-> y], none, none, 0,
                                [i \in DOMAIN its |-> none], << >>,
                                [i \in DOMAIN its |-> << >>]))

\* ucc_tl_ucp_allreduce_sra_knomial_init, _frag_init, _frag_setup: reduce_scatter,
\* then an allgather in place, for every fragment
AllreduceSraKnomial(c, r) ==
    LET alloc == FragScratch(c, r, "ALLREDUCE", c.inplace) > 0
        Frag(f) ==
            LET count == BlockCount(c.count, c.frags, f)
                off   == BlockOffset(c.count, c.frags, f)
                part  == <<"dst", off>>
                b     == [src |-> <<"src", off>>, dst |-> part, inplace |-> c.inplace,
                          alloc |-> alloc,
                          scratch |-> FragWork(c, r, f, "ALLREDUCE", c.inplace, part)]
            IN  << ReduceScatterKnomialSteps(c, r, "ALLREDUCE", b, count),
                   Shifted(AllgatherKnomialSteps([c EXCEPT !.count = count], r, "ALLREDUCE",
                                                 "dst", 0), off) >>
    IN  Pipelined(c.depth, 2, [f \in 1 .. c.frags |-> Frag(f - 1)])

\* ucc_tl_ucp_allreduce_dbt_init, _start: a reduce to rank 0, then a bcast of its
\* result
AllreduceDbt(c, r) ==
    LET d == [c EXCEPT !.root = 0]
    IN  ReduceDbt(d, r)
        \o << [tag |-> 2, steps |-> << <<After({1, 2, 3, 4}), << >> >> >>
                                    \o BcastDbt(d, r)[1].steps] >>

-----------------------------------------------------------------------------
\* prevblock: the block that rank r reduces at a step, and sends on
RingBlock(r, step, n) == (r - 1 - step + n) % n

\* ucc_tl_ucp_reduce_scatter_ring_start, _progress: a task for each subset; the
\* second one goes round the ring the other way.  place[b] is where a block is in
\* the source, size[b] its part in the subset, seg the size of the scratch slots.
RingSteps(c, r, frag, seg, base, sbuf, dst, place, size) ==
    LET n      == c.n
        Inv(y) == IF frag = 1 THEN n - 1 - y ELSE y
        me     == Inv(MyRank(c, r))
        Eval(y) == MapEval(c, Inv(y))
        next   == Eval((me + 1) % n)
        prev   == Eval((me - 1 + n) % n)
        B(step) == Eval(RingBlock(me, step, n))
        In(step) == Recv(prev, "scratch", base, size[B(step)])
        Slot(op) == InFreeSlot(seg, op)
        Sum(to, step, div, F(_)) ==
            F(ReduceTo(to, << <<"scratch", base>>, At(sbuf, place[B(step)]) >>, size[B(step)], div))
    IN  << <<Go, << In(1), SendFrom(next, At(sbuf, place[B(0)]), size[B(0)]) >> >> >>
        \o [step \in 1 .. n - 2 |->
                <<RingDone, << Sum(<<"scratch", base + seg>>, step, 1, Slot),
                               Slot(Send(next, "scratch", base + seg, size[B(step)])),
                               In(step + 1) >> >>]
        \o << <<RingDone, << Sum(dst, n - 1, c.avg, LAMBDA op : op) >> >>,
              <<AllDone, << >> >> >>

\* ucc_tl_ucp_reduce_scatter_ring_init: two subsets if there is enough to split
RingSubsets(c, count) == IF c.bidir /\ count > c.n THEN 2 ELSE 1
RingSegment(c) ==
    BlockCount(DivUp(c.n * c.block, RingSubsets(c, c.n * c.block)), c.n, 0)
ReduceScatterRing(c, r) ==
    LET count == c.n * c.block
        k     == RingSubsets(c, count)
        seg   == RingSegment(c)
        Lane(f) ==
            LET Size(b)  == BlockCount(BlockCount(count, c.n, b), k, f)
                Off(b)   == BlockOffset(BlockCount(count, c.n, b), k, f)
                Place(b) == BlockOffset(count, c.n, b) + Off(b)
                dst      == IF c.inplace THEN <<"dst", Place(r)>> ELSE <<"dst", Off(r)>>
            IN  [tag |-> f + 1, steps |-> RingSteps(c, r, f, seg, 3 * seg * f,
                    <<IF c.inplace THEN "dst" ELSE "src", 0>>, dst,
                    [b \in 0 .. c.n - 1 |-> Place(b)], [b \in 0 .. c.n - 1 |-> Size(b)])]
    IN  [i \in 1 .. k |-> Lane(i - 1)]
ReduceScatterRingScratch(c, r) == 3 * RingSegment(c) * RingSubsets(c, c.n * c.block)

\* ucc_tl_ucp_reduce_scatterv_ring_init, _start, _progress
RingSegmentV(c) == DivUp(Max(Range(c.counts)), RingSubsets(c, VectorOffset(c.counts, c.n)))
ReduceScattervRing(c, r) ==
    LET k   == RingSubsets(c, VectorOffset(c.counts, c.n))
        seg == RingSegmentV(c)
        Lane(f) ==
            LET Size(b)  == BlockCount(Count(c.counts, b), k, f)
                Off(b)   == BlockOffset(Count(c.counts, b), k, f)
                Place(b) == VectorOffset(c.counts, b) + Off(b)
                dst      == IF c.inplace THEN <<"dst", Place(r)>> ELSE <<"dst", Off(r)>>
            IN  [tag |-> f + 1, steps |-> RingSteps(c, r, f, seg, 3 * seg * f,
                    <<IF c.inplace THEN "dst" ELSE "src", 0>>, dst,
                    [b \in 0 .. c.n - 1 |-> Place(b)], [b \in 0 .. c.n - 1 |-> Size(b)])]
    IN  [i \in 1 .. k |-> Lane(i - 1)]
ReduceScattervRingScratch(c, r) ==
    3 * RingSegmentV(c) * RingSubsets(c, VectorOffset(c.counts, c.n))
=============================================================================
