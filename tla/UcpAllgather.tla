---------------------------- MODULE UcpAllgather ----------------------------
(***************************************************************************)
(* The allgather and allgatherv algorithms of tl/ucp.  c is the            *)
(* collective: team size n, elements per block, whether it is in place,    *)
(* the map of the ring.  r is the rank that runs the program.              *)
(***************************************************************************)
EXTENDS UcpOps

\* ucc_ep_map_eval of the task's subset, and task->subset.myrank
MapEval(c, i) == c.map[i + 1]
MyRank(c, r)  == CHOOSE i \in 0 .. c.n - 1 : MapEval(c, i) = r

\* The block of a rank is put in place when the task is posted.
OwnBlock(c, r) ==
    Opt(~c.inplace, << Copy("dst", r * c.block, "src", 0, c.block) >>)

\* ucc_tl_ucp_allgather_ring_get_send_block, _get_recv_block
RingSendBlock(c, t, step) == MapEval(c, (t - step + c.n) % c.n)
RingRecvBlock(c, t, step) == MapEval(c, (t - step - 1 + c.n) % c.n)

\* ucc_tl_ucp_allgather_ring_progress, _start
AllgatherRing(c, r) ==
    LET t == MyRank(c, r)
        Step(s) ==
            << Send(MapEval(c, (t + 1) % c.n), "dst",
                    RingSendBlock(c, t, s) * c.block, c.block),
               Recv(MapEval(c, (t - 1 + c.n) % c.n), "dst",
                    RingRecvBlock(c, t, s) * c.block, c.block) >>
    IN  OneLane(<< <<Go, OwnBlock(c, r)>> >>
                \o Rounds([s \in 1 .. c.n - 1 |-> Step(s - 1)], AllDone))

\* get_recv_from_rank: the pair of blocks that arrives in step i
RecvFromRank(r, n, i) ==
    LET sign == IF (r + i) % 2 = 0 THEN 2 ELSE -2
    IN  (AlignDown(r, 2) + sign * DivUp(i, 2) + n) % n

\* ucc_tl_ucp_allgather_neighbor_start, _progress: the blocks move in pairs; an
\* odd team switches to the ring in _init
AllgatherNeighbor(c, r) ==
    LET n     == c.n
        right == (r + 1) % n
        left  == (r - 1 + n) % n
        Neighbor(i) == IF (r + i) % 2 = 0 THEN right ELSE left
        First == << Send(Neighbor(0), "dst", r * c.block, c.block),
                    Recv(Neighbor(0), "dst", Neighbor(0) * c.block, c.block) >>
        Step(i) ==
            << Send(Neighbor(i), "dst", RecvFromRank(r, n, i - 1) * c.block, 2 * c.block),
               Recv(Neighbor(i), "dst", RecvFromRank(r, n, i) * c.block, 2 * c.block) >>
    IN  IF n % 2 = 1 THEN AllgatherRing(c, r)
        ELSE OneLane(Rounds(<< OwnBlock(c, r) \o First >>
                            \o [i \in 1 .. (n \div 2) - 1 |-> Step(i)], AllDone))

\* ucc_tl_ucp_allgather_bruck_start, _progress: rank r collects the blocks from
\* r on, at the start of the buffer, and rotates them in the end
AllgatherBruck(c, r) ==
    LET n == c.n
        Own == IF ~c.inplace THEN << Copy("dst", 0, "src", 0, c.block) >>
               ELSE Opt(r # 0, << Copy("dst", 0, "dst", r * c.block, c.block) >>)
        Step(i) ==
            LET d     == 2 ^ i
                count == (IF d <= n \div 2 THEN d ELSE n - d) * c.block
            IN  << Send((r + n - d) % n, "dst", 0, count),
                   Recv((r + d) % n, "dst", d * c.block, count) >>
        left == (n - r) * c.block
        Rotate ==
            IF c.host
            THEN << Copy("scratch", 0, "dst", 0, left),
                    Move("dst", 0, "dst", left, r * c.block),
                    Copy("dst", r * c.block, "scratch", 0, left) >>
            ELSE << Copy("scratch", r * c.block, "dst", 0, left),
                    Copy("scratch", 0, "dst", left, r * c.block),
                    Copy("dst", 0, "scratch", 0, n * c.block) >>
        steps == {i \in 0 .. n : 2 ^ i < n}
    IN  OneLane(<< <<Go, Own>> >>
                \o Rounds([i \in 1 .. Cardinality(steps) |-> Step(i - 1)], RecvsDone)
                \o << <<AllDone, Opt(r # 0, Rotate)>> >>)

\* ucc_tl_ucp_allgather_bruck_init: the scratch buffer
AllgatherBruckScratch(c, r) ==
    IF r = 0 THEN 0 ELSE IF c.host THEN (c.n - r) * c.block ELSE c.n * c.block

\* An unsigned 32-bit value modulo n: y stands for y + 2^32 when it is negative.
Mod32(y, n) ==
    IF y >= 0 THEN y % n
    ELSE ((y % n) + ((2 ^ 16) % n) * ((2 ^ 16) % n)) % n

\* ucc_ilog2_ceil
Log2Ceil(n) == Min({k \in 0 .. n : 2 ^ k >= n})

\* distance & ignore_steps == distance: the distance is a bit that the size,
\* without its trailing zeros and its lowest one, does not have
SparbitExclusion(n, distance) ==
    LET last == 2 ^ Max({k \in 0 .. n : n % 2 ^ k = 0})
    IN  IF distance = last \/ (distance > last /\ (n \div distance) % 2 = 0)
        THEN 1 ELSE 0

\* ucc_tl_ucp_allgather_sparbit_start, _progress
AllgatherSparbit(c, r) ==
    LET n == c.n
        Distance(i) == 2 ^ (Log2Ceil(n) - 1 - i)
        Expected[i \in 0 .. n] ==
            IF i = 0 THEN 1
            ELSE 2 * Expected[i - 1] - SparbitExclusion(n, Distance(i - 1))
        Transfer(d, t) ==
            << Send((r + d) % n, "dst", Mod32(r - 2 * t * d + n, n) * c.block, c.block),
               Recv((r + n - d) % n, "dst",
                    Mod32(r - (2 * t + 1) * d + n, n) * c.block, c.block) >>
        Step(i) ==
            LET d == Distance(i)
            IN  FlattenSeq(Each(Upward(0, Expected[i] - SparbitExclusion(n, d) - 1),
                                LAMBDA t : Transfer(d, t)))
    IN  OneLane(<< <<Go, OwnBlock(c, r)>> >>
                \o Rounds([i \in 1 .. Log2Ceil(n) |-> Step(i - 1)], AllDone))

-----------------------------------------------------------------------------
\* Offset and length of the block of a rank of a vector collective
Displ(counts, rank) == VectorOffset(counts, rank)
Count(counts, rank) == counts[rank + 1]

\* Defect: the blocks are numbered from the rank's own one.
MutVectorRingBlock(c, t, p) == MapEval(c, (t - p + 1 + c.n) % c.n)

\* The block a rank receives in the step p
VectorRingBlock(c, t, p) == MapEval(c, (t - p + c.n) % c.n)

\* ucc_tl_ucp_allgatherv_ring_start, _progress: the first message is to oneself
AllgathervRing(c, r) ==
    LET n     == c.n
        t     == MyRank(c, r)
        first == << Recv(r, "dst", Displ(c.counts, r), Count(c.counts, r)),
                    Send(r, "src", 0, Count(c.counts, r)) >>
        Step(p) ==
            LET s == MapEval(c, (t - p + 1 + n) % n)
                b == VectorRingBlock(c, t, p)
            IN  << Send(MapEval(c, (t + 1) % n), "dst", Displ(c.counts, s), Count(c.counts, s)),
                   Recv(MapEval(c, (t - 1 + n) % n), "dst", Displ(c.counts, b),
                        Count(c.counts, b)) >>
    IN  OneLane(Rounds(<< Opt(~c.inplace, first) >>
                       \o [p \in 1 .. n - 1 |-> Step(p)], AllDone))

-----------------------------------------------------------------------------
\* The pattern of allgather_knomial: allgather, allgatherv, or the second half
\* of a bcast, an allreduce or a reduce (allgatherx)
AgPattern(c, kind, v) ==
    CASE kind = "ALLGATHER"  -> GatherInit("ALLGATHER", c.n, v, c.radix, c.n * c.block)
      [] kind = "ALLGATHERV" -> GatherInit("ALLGATHERV", c.n, v, c.radix, c.counts)
      [] OTHER               -> GatherXInit("ALLGATHERX", c.n, v, c.radix, c.count)

\* The iterations of a pattern, one record each
Iterations(p, NextIter(_)) ==
    LET It[i \in 0 .. p.n_iters] ==
            IF i = 0 THEN << >>
            ELSE LET its == It[i - 1]
                 IN  Append(its, IF i = 1 THEN p ELSE NextIter(its[i - 1]))
    IN  It[p.n_iters]

\* The peers of an iteration, in the order of the loop over the steps
LoopPeers(p, steps) ==
    LET Upto[i \in 0 .. Len(steps)] ==
            IF i = 0 THEN << >>
            ELSE The({IF x = NoRank THEN Upto[i - 1] ELSE Append(Upto[i - 1], x) :
                        x \in {LoopPeer(p, p.rank, steps[i])}})
    IN  Upto[Len(steps)]

\* UCC_KN_PHASE_EXTRA: only extra and proxy ranks wait before the loop
KnomialExtraWait(p) == IF p.node_type = "BASE" THEN Go ELSE AllDone

\* ucc_tl_ucp_allgather_knomial_progress: in a bcast the data flows away from
\* the root, so a rank receives only from peers that got their data before it
AllgatherKnomialSteps(c, r, kind, buf, root) ==
    The({
    The({
    The({
    LET n      == c.n
        Rank(x) == InvVrank(MapEval(c, x), root, n)
        bcast  == kind = "BCAST"
        total  == IF kind = "ALLGATHERV" THEN VectorOffset(c.counts, n)
                  ELSE IF kind = "ALLGATHER" THEN n * c.block ELSE c.count
        Local(x) == IF kind = "ALLGATHERV" THEN Count(c.counts, x) ELSE c.block
        sbuf   == IF kind = "ALLGATHERV" THEN Displ(c.counts, v)
                  ELSE IF kind = "ALLGATHER" THEN v * c.block
                  ELSE SraSegment(c.count, v, n, c.radix).offset
        x      == p0.type = "ALLGATHERX"
        Dist(y) == RecvDist(n - p0.n_extra, LoopRank(p0, y), c.radix, 0)
        Extra  == Opt(~x, << Send(Rank(GetProxy(v)), buf, sbuf, Local(v)) >>)
                  \o << Recv(Rank(GetProxy(v)), buf, 0, total) >>
        Proxy  == Opt(~x, << Recv(Rank(GetExtra(v)), buf, sbuf + Local(v), Local(GetExtra(v))) >>)
        Loop(p) ==
            LET mine == AllgatherPeerSeg(p, v)
                to   == SelectSeq(LoopPeers(p, Downward(c.radix - 1, 1)),
                                  LAMBDA y : ~bcast \/ Dist(y) >= Dist(v))
                from == SelectSeq(LoopPeers(p, Upward(1, c.radix - 1)),
                                  LAMBDA y : ~bcast \/ Dist(y) <= Dist(v))
            IN  Each(to, LAMBDA y : Send(Rank(y), buf, mine.offset, mine.count))
                \o Each(from, LAMBDA y : The({
                      Recv(Rank(y), buf, seg.offset, seg.count)
                  : seg \in {AllgatherPeerSeg(p, y)}}))
    IN  IF p0.node_type = "EXTRA" THEN << <<Go, Extra>>, <<AllDone, << >> >> >>
        ELSE << <<Go, Opt(p0.node_type = "PROXY", Proxy)>> >>
             \o [i \in 1 .. Len(its) |->
                    <<IF i = 1 THEN KnomialExtraWait(p0) ELSE RecvsDone, Loop(its[i])>>]
             \o << <<RecvsDone, Opt(p0.node_type = "PROXY",
                                << Send(Rank(GetExtra(v)), buf, 0, total) >>)>>,
                   <<AllDone, << >> >> >>
               : its \in {Iterations(p0, GatherNextIter)}})
               : p0 \in {AgPattern(c, kind, v)}})
               : v \in {Vrank(MyRank(c, r), root, c.n)}})

\* ucc_tl_ucp_allgather_knomial_start
AllgatherKnomial(c, r) ==
    LET own == IF c.kind = "ALLGATHERV"
               THEN Opt(~c.inplace, << Copy("dst", Displ(c.counts, r), "src", 0,
                                            Count(c.counts, r)) >>)
               ELSE OwnBlock(c, r)
    IN  OneLane(<< <<Go, own>> >> \o AllgatherKnomialSteps(c, r, c.kind, "dst", 0))
=============================================================================
