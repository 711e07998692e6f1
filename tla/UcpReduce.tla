----------------------------- MODULE UcpReduce -----------------------------
(***************************************************************************)
(* The reduce algorithms of tl/ucp and fanin, the knomial gather, and the  *)
(* knomial reduce_scatter that reduce and allreduce are built from.        *)
(* AVG divides by c.avg (the team size; 1 for any other operation), before *)
(* or after the sum as c.pre (reduce_avg_pre_op) says.                     *)
(***************************************************************************)
EXTENDS UcpBcast

\* UCC_EEE_TASK_FLAG_REDUCE_WITH_ALPHA and AVG_ALPHA
Alpha(c, now) == IF now THEN c.avg ELSE 1
IsAvg(c)      == c.avg > 1

\* The tree of reduce: a leaf never receives
ReduceLeaf(c, v)    == v % c.radix # 0 \/ v = c.n - 1
ReduceSelfAvg(c, v) == IsAvg(c) /\ c.pre /\ v % c.radix = 0

\* ucc_tl_ucp_reduce_init: the scratch buffer of an inner rank
ReduceKnomialScratch(c, r) ==
    LET v == Vrank(r, c.root, c.n)
    IN  IF ReduceLeaf(c, v) /\ ~ReduceSelfAvg(c, v) THEN 0 ELSE c.radix * c.count

\* Defect: the last operation on the data of a level is not waited for.
MutReduceWait == RecvWindow(2)

\* ucc_tl_ucp_test between the levels of the tree
ReduceWait == AllDone

\* ucc_tl_ucp_reduce_knomial_start, ucc_tl_ucp_reduce_knomial_progress
ReduceKnomial(c, r) ==
    LET n     == c.n
        v     == Vrank(r, c.root, n)
        Peer(x) == InvVrank(x, c.root, n)
        src   == IF r = c.root /\ c.inplace THEN "dst" ELSE "src"
        leaf  == ReduceLeaf(c, v)
        self  == leaf /\ ReduceSelfAvg(c, v)
        acc   == IF leaf /\ ~self THEN src ELSE "scratch"
        rbuf  == IF r = c.root THEN "dst" ELSE acc
        dists == Reverse(Distances(n, c.radix))
        Children(d) == SelectSeq(Each(Upward(1, c.radix - 1), LAMBDA i : v + i * d),
                                 LAMBDA x : x < n)
        Posts(d) ==
            LET pos == (v \div d) % c.radix
                ch  == Children(d)
            IN  IF v % d # 0 THEN << >>
                ELSE IF pos = 0
                THEN [j \in 1 .. Len(ch) |-> Recv(Peer(ch[j]), "scratch", c.count * j, c.count)]
                ELSE << Send(Peer(v - pos * d), acc, 0, c.count) >>
        Sums(d) ==
            LET own == IF d = 1 THEN src ELSE rbuf
                k   == Len(Children(d))
                now == IsAvg(c) /\ IF c.pre THEN d = 1 ELSE d = KnTreeDist(n, c.radix)
            IN  Opt(v % d = 0 /\ (v \div d) % c.radix = 0 /\ k > 0 /\ c.count > 0,
                    << Reduce(rbuf, 0, << <<own, 0>> >>
                                       \o [j \in 1 .. k |-> <<"scratch", c.count * j>>],
                              c.count, Alpha(c, now)) >>)
    IN  OneLane(<< <<Go, Opt(self, << Reduce("scratch", 0, << <<src, 0>>, <<src, 0>> >>,
                                             c.count, 2 * c.avg) >>)>> >>
                \o FlattenSeq(Each(dists, LAMBDA d :
                    << <<AllDone, Posts(d)>>, <<ReduceWait, Sums(d)>> >>))
                \o << <<AllDone, << >> >> >>)

\* ucc_tl_ucp_fanin_init: a reduce without data and without a scratch buffer
Fanin(c, r) == ReduceKnomial([c EXCEPT !.count = 0, !.avg = 1], r)

\* ucc_tl_ucp_reduce_dbt_start, _progress: the trees are reduced independently of
\* each other, then their roots send the halves to the root of the reduce.  The
\* receive of a half counts with those of the children of the same tree.
ReduceDbt(c, r) ==
    The({
    LET len  == <<DivUp(c.count, 2), c.count \div 2>>
        off  == <<0, len[1]>>
        rbuf == << <<"scratch", 0>>, <<"scratch", 2 * len[1]>> >>
        user == IF r = c.root /\ c.inplace THEN "dst" ELSE "src"
        pre  == IsAvg(c) /\ c.pre
        sbuf == IF pre THEN <<"scratch", 2 * c.count>> ELSE <<user, 0>>
        own  == [i \in 1 .. 2 |-> At(sbuf, off[i])]
        Children(i) == SelectSeq(t[i].children, LAMBDA x : x # NoRank)
        k    == [i \in 1 .. 2 |-> Len(Children(i))]
        From(i, peer, a) == RecvCb(peer, a[1], a[2], len[i], i)
        recvs == FlattenSeq([i \in 1 .. 2 |->
                    [j \in 1 .. k[i] |-> From(i, Children(i)[j], At(rbuf[i], len[i] * (j - 1)))]])
        Tree(i) ==
            Opt(k[i] > 0,
                << ReduceTo(rbuf[i], << own[i] >> \o [j \in 1 .. k[i] |->
                                            At(rbuf[i], len[i] * (j - 1))],
                            len[i], Alpha(c, IsAvg(c) /\ ~c.pre /\ r = t[i].root)) >>)
            \o Opt(r # t[i].root,
                   << SendFrom(t[i].parent, IF k[i] > 0 THEN rbuf[i] ELSE own[i], len[i]) >>)
        final == FlattenSeq([i \in 1 .. 2 |->
                    Opt(r # c.root /\ r = t[i].root, << SendFrom(c.root, rbuf[i], len[i]) >>)
                    \o Opt(r = c.root /\ r # t[i].root,
                           << From(i, t[i].root, <<"dst", off[i]>>) >>)])
        Extra(i) == IF r = c.root /\ r # t[i].root THEN 1 ELSE 0
        copies == FlattenSeq([i \in 1 .. 2 |->
                    Opt(r = c.root /\ r = t[i].root, << CopyTo(<<"dst", off[i]>>, rbuf[i], len[i]) >>)])
        Lane(steps) == [tag |-> 1, steps |-> steps]
    IN  << Lane(<< <<Go, Opt(pre, << ReduceTo(sbuf, << <<user, 0>>, <<user, 0>> >>, c.count,
                                              2 * c.avg) >>)
                         \o recvs>> >>),
           Lane(<< <<After({1}), << >> >>, <<Got(1, k[1]), Tree(1)>> >>),
           Lane(<< <<After({1}), << >> >>, <<Got(2, k[2]), Tree(2)>> >>),
           Lane(<< <<After({2, 3}), << >> >>, <<SendsDone, final>>, <<SendsDone, << >> >>,
                   <<Got(1, k[1] + Extra(1)), << >> >>,
                   <<Got(2, k[2] + Extra(2)), copies>> >>) >> : t \in {Trees(r, c.n)}})

-----------------------------------------------------------------------------
\* calc_buffer_size: the blocks that pass through a rank
GatherBufferSize(v, n, radix) ==
    Min({n - v, Max({radix ^ k : k \in {i \in 0 .. n : v % (radix ^ i) = 0}})})

\* ucc_tl_ucp_gather_knomial_init_common
GatherScratch(c, r) ==
    LET v == Vrank(r, c.root, c.n)
    IN  IF v = 0 \/ ReduceLeaf(c, v) THEN 0
        ELSE GatherBufferSize(v, c.n, c.radix) * c.block

\* ucc_tl_ucp_gather_knomial_start, _progress.  b.src, b.dst are the buffers;
\* in a reduce (ct) every rank has its segment at its place in b.dst.  A run of
\* blocks that passes the end of the root's buffer is sent in two messages.
GatherKnomialSteps(c, r, ct, b) ==
    LET n    == c.n
        x    == ct = "REDUCE"
        v    == Vrank(r, c.root, n)
        Rank(y) == InvVrank(y, c.root, n)
        buf  == IF v = 0 \/ x THEN b.dst
                ELSE IF ReduceLeaf(c, v) THEN b.src ELSE <<"scratch", 0>>
        Base(p)  == BaseRank(p, v) = v
        Rnds(its) == The({IF S = {} THEN Len(its) ELSE Min(S)
    : S \in {{i \in DOMAIN its : ~Base(its[i])}}})
        Size(p, y) == Min({p.radix_pow, n - y})
        RootRecv(p, y) ==
            LET peer == Rank(y)
                seg  == GatherPeerSeg(p, y)
                room == n - peer
            IN  IF x THEN << RecvAt(peer, At(buf, seg.offset), seg.count) >>
                ELSE IF Size(p, y) <= room
                THEN << RecvAt(peer, At(buf, peer * c.block), seg.count) >>
                ELSE << RecvAt(peer, At(buf, peer * c.block), room * c.block),
                        RecvAt(peer, buf, seg.count - room * c.block) >>
        Recvs(p) ==
            LET peers == LoopPeers(p, Upward(1, c.radix - 1))
            IN  FlattenSeq([i \in 1 .. Len(peers) |->
                    LET seg == GatherPeerSeg(p, peers[i])
                    IN  IF v = 0 THEN RootRecv(p, peers[i])
                        ELSE << RecvAt(Rank(peers[i]),
                                       At(buf, IF x THEN seg.offset ELSE i * p.radix_pow * c.block),
                                       seg.count) >>])
        Own(p) ==
            LET seg == GatherPeerSeg(p, v)
            IN  IF x THEN Opt(v = 0 /\ ~b.inplace,
                              << CopyTo(At(buf, seg.offset), At(b.src, seg.offset), seg.count) >>)
                ELSE IF v # 0 THEN << CopyTo(buf, b.src, c.block) >>
                ELSE Opt(~b.inplace, << CopyTo(At(buf, r * c.block), b.src, c.block) >>)
        Sent(p) ==
            LET base == Rank(BaseRank(p, v))
                seg  == GatherPeerSeg(p, v)
                room == n - r
            IN  IF x THEN << SendFrom(base, At(buf, seg.offset), seg.count) >>
                ELSE IF base # c.root \/ Size(p, v) <= room
                THEN << SendFrom(base, buf, seg.count) >>
                ELSE << SendFrom(base, buf, room * c.block),
                        SendFrom(base, At(buf, room * c.block), seg.count - room * c.block) >>
        Round(p, i) == IF ~Base(p) THEN Sent(p) ELSE Recvs(p) \o Opt(i = 1, Own(p))
    IN  The({
        IF x /\ p0.node_type = "EXTRA" THEN << <<Go, << >> >> >>
        ELSE The({
             Rounds([i \in 1 .. Rnds(its) |-> Round(its[i], i)], AllDone)
         : its \in {Iterations(p0, GatherNextIter)}})
         : p0 \in {IF x THEN GatherXInit("GATHERX", n, v, c.radix, c.count)
                  ELSE GatherInit("GATHER", n, v, c.radix, c.block * n)}})

\* ucc_tl_ucp_gather_knomial_init
GatherKnomial(c, r) ==
    OneLane(GatherKnomialSteps(c, r, "GATHER",
        [src |-> <<"src", 0>>, dst |-> <<"dst", 0>>, inplace |-> c.inplace]))

-----------------------------------------------------------------------------
\* The pattern of reduce_scatter_knomial
RsPattern(c, r, ct, count) ==
    IF ct = "REDUCE_SCATTER" THEN ReduceScatterInit(c.n, r, c.radix, count)
    ELSE ReduceScatterXInit(c.n, Vrank(MyRank(c, r), IF ct = "REDUCE" THEN c.root ELSE 0, c.n),
                            c.radix, count)

\* max_seg
RsMaxSeg(p) == ReduceScatterPeerSeg(p, 0).count

\* compute_scratch_size
RsScratch(c, r, ct, inplace, count) ==
    The({
    The({
        IF p.node_type = "EXTRA" THEN 0
        ELSE IF ct # "REDUCE_SCATTER"
        THEN IF inplace \/ p.node_type = "PROXY" \/ need > count
             THEN Max({need, count}) ELSE 0
        ELSE IF p.node_type = "PROXY" /\ ~inplace THEN RsMaxSeg(p) * (p.radix - 1) + count
        ELSE RsMaxSeg(p) * p.radix
    : need \in {BlockCount(count, StepRadix(p), 0) * StepRadix(p)}})
    : p \in {RsPattern(c, r, ct, count)}})

\* get_sbuf_rbuf_ar: without a scratch buffer the received segments are laid out
\* so that the last reduction is onto one of them
RsWorkAr(p, b, count) ==
    The({
    The({
    LET first  == LoopFirstIteration(p)
        last   == LoopLastIteration(p)
        spread == IF ~last \/ b.alloc \/ seg.offset <= block \/ seg.count = 0 THEN 0
                  ELSE (seg.offset - block) % seg.count
    IN  [src_data     |-> IF b.inplace THEN b.dst ELSE b.src,
         src_loop     |-> IF ~first THEN b.scratch
                          ELSE IF p.node_type = "PROXY" \/ b.inplace THEN b.dst ELSE b.src,
         dst_loop     |-> IF first THEN b.scratch ELSE At(b.scratch, block + spread),
         reduce_loop  |-> IF last THEN At(b.dst, seg.offset) ELSE b.scratch,
         dst_proxy    |-> b.scratch,
         reduce_proxy |-> b.dst,
         dst_data     |-> b.dst]
     : seg \in {SraSegment(count, p.rank, p.size, p.radix)}})
     : block \in {KnxBlock(p.rank, p.size, p.radix, count, p.iteration).count}})

\* get_sbuf_rbuf_rs
RsWorkRs(p, b, count, seg) ==
    LET data  == IF b.inplace THEN b.dst ELSE b.src
        dst   == IF b.inplace THEN At(b.dst, (count \div p.size) * p.rank) ELSE b.dst
        far   == At(b.scratch, seg * (p.radix - 1))
        first == LoopFirstIteration(p)
        last  == LoopLastIteration(p)
        proxy == p.node_type = "PROXY"
        apart == proxy /\ ~b.inplace
    IN  [src_data     |-> data,
         dst_data     |-> dst,
         src_loop     |-> IF apart THEN far ELSE IF first THEN data ELSE b.scratch,
         dst_loop     |-> IF apart THEN b.scratch ELSE At(b.scratch, seg),
         reduce_loop  |-> IF last THEN (IF proxy THEN far ELSE dst)
                          ELSE IF apart THEN far ELSE b.scratch,
         dst_proxy    |-> IF apart THEN far ELSE b.scratch,
         reduce_proxy |-> IF apart THEN far ELSE b.dst]

\* ucc_tl_ucp_reduce_scatter_knomial_start, _progress on the buffers b; count
\* elements in all.  In a reduce_scatter the proxy ends with the block of its
\* extra rank behind its own.
ReduceScatterKnomialSteps(c, r, ct, b, count) ==
    The({
    The({
    LET v    == p0.rank
        root == IF ct = "REDUCE" THEN c.root ELSE 0
        Rank(y) == InvVrank(MapEval(c, y), root, c.n)
        rs   == ct = "REDUCE_SCATTER"
        Work(p) == IF rs THEN RsWorkRs(p, b, count, RsMaxSeg(p0)) ELSE RsWorkAr(p, b, count)
        Peers(p) == LoopPeers(p, Downward(c.radix - 1, 1))
        Posts(p, w, mine) ==
            The({FlattenSeq([i \in 1 .. Len(peers) |->
                The({
                    << SendFrom(Rank(peers[i]), At(w.src_loop, seg.offset), seg.count),
                       RecvAt(Rank(peers[i]), At(w.dst_loop, mine.count * (i - 1)),
                              mine.count) >>
                          : seg \in {ReduceScatterPeerSeg(p, peers[i])}})])
                          : peers \in {Peers(p)}})
        Posted(i) == SumLen(Each(SubSeq(its, 1, i), Peers))
        Sum(p, w, mine, i) ==
            LET now  == IsAvg(c) /\ IF c.pre THEN LoopFirstIteration(p) ELSE LoopLastIteration(p)
            IN  Opt(Posted(i) > p.iteration * (c.radix - 1),
                    << ReduceTo(w.reduce_loop, << At(w.src_loop, mine.offset) >>
                                \o [j \in 1 .. StepRadix(p) - 1 |->
                                        At(w.dst_loop, mine.count * (j - 1))],
                                mine.count, Alpha(c, now)) >>)
        ToExtra(p, w) ==
            LET seg == ReduceScatterExtraSeg(p)
            IN  Opt(rs /\ p.node_type = "PROXY" /\ LoopLastIteration(p),
                    << SendFrom(GetExtra(v), At(w.reduce_loop, seg.offset), seg.count),
                       CopyTo(w.dst_data, w.reduce_loop, seg.count) >>)
        Extra(w0) == << SendFrom(Rank(GetProxy(v)), w0.src_data, count) >>
                     \o Opt(rs, << RecvAt(Rank(GetProxy(v)), w0.dst_data, count \div c.n) >>)
        Proxy(w0) == << <<Go, << RecvAt(Rank(GetExtra(v)), w0.dst_proxy, count) >> >>,
                        <<AllDone, << ReduceTo(w0.reduce_proxy, << w0.src_data, w0.dst_proxy >>,
                                               count, 1) >> >> >>
        Iter(p, w, mine, i) ==
            << <<Go, Posts(p, w, mine)>>, <<AllDone, Sum(p, w, mine, i) \o ToExtra(p, w)>> >>
    IN  IF p0.node_type = "EXTRA" THEN << <<Go, Extra(Work(p0))>>, <<AllDone, << >> >> >>
        ELSE Opt(p0.node_type = "PROXY", Proxy(Work(p0)))
             \o FlattenSeq([i \in 1 .. Len(its) |->
                    Iter(its[i], Work(its[i]), ReduceScatterPeerSeg(its[i], v), i)])
             \o << <<AllDone, << >> >> >>
         : its \in {Iterations(p0, ReduceScatterNextIter)}})
         : p0 \in {RsPattern(c, r, ct, count)}})

\* ucc_tl_ucp_reduce_scatter_knomial_init
ReduceScatterKnomial(c, r) ==
    OneLane(ReduceScatterKnomialSteps(c, r, "REDUCE_SCATTER",
        [src |-> <<"src", 0>>, dst |-> <<"dst", 0>>, scratch |-> <<"scratch", 0>>,
         inplace |-> c.inplace, alloc |-> TRUE], c.block * c.n))

\* The scratch buffer of the reduce_scatter of a fragment
FragCount(c)  == BlockCount(c.count, c.frags, 0)
WorkName(c, f) == <<"work1", "work2">>[(f % c.depth) + 1]
FragScratch(c, r, ct, inplace) == RsScratch(c, r, ct, inplace, FragCount(c))
FragWork(c, r, f, ct, inplace, dst) ==
    IF FragScratch(c, r, ct, inplace) > 0 THEN <<WorkName(c, f), 0>> ELSE dst

\* ucc_tl_ucp_reduce_srg_knomial_init, _frag_init, _frag_setup: a reduce_scatter
\* and a gather for every fragment.  All but a root that is not in place keep
\* their part in a scratch buffer.
ReduceSrgKnomial(c, r) ==
    LET isroot == r = c.root
        plain  == isroot /\ ~c.inplace
        Frag(f) ==
            LET count == BlockCount(c.count, c.frags, f)
                off   == BlockOffset(c.count, c.frags, f)
                part  == IF plain THEN <<"dst", off>>
                         ELSE <<"scratch", (f % c.depth) * FragCount(c)>>
                rs    == [src |-> <<IF isroot /\ c.inplace THEN "dst" ELSE "src", off>>,
                          dst |-> part, inplace |-> FALSE,
                          alloc |-> FragScratch(c, r, "REDUCE", FALSE) > 0,
                          scratch |-> FragWork(c, r, f, "REDUCE", FALSE, part)]
                g     == [src |-> part, dst |-> IF isroot THEN <<"dst", off>> ELSE part,
                          inplace |-> plain]
            IN  << ReduceScatterKnomialSteps(c, r, "REDUCE", rs, count),
                   GatherKnomialSteps([c EXCEPT !.count = count], r, "REDUCE", g) >>
    IN  Pipelined(c.depth, 2, [f \in 1 .. c.frags |-> Frag(f - 1)])
ReduceSrgScratch(c, r) == IF r = c.root /\ ~c.inplace THEN 0 ELSE FragCount(c) * c.depth
=============================================================================
