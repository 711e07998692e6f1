------------------------------ MODULE UcpBcast ------------------------------
(***************************************************************************)
(* The bcast algorithms of tl/ucp, fanout, and the knomial scatter that    *)
(* the second of them starts with.  The buffer of a bcast is called dst on *)
(* every rank; c.map is the active set, c.root a rank of the team.         *)
(***************************************************************************)
EXTENDS UcpAllgather

\* CALC_KN_TREE_DIST: the largest power of the radix below the size
KnTreeDist(size, radix) ==
    Max({1} \cup {radix ^ k : k \in {i \in 1 .. size : radix ^ i < size}})

\* The distances of the tree, the largest first
Distances(size, radix) ==
    LET d == KnTreeDist(size, radix)
        k == CHOOSE i \in 0 .. size : radix ^ i = d
    IN  [i \in 1 .. k + 1 |-> radix ^ (k + 1 - i)]

\* ucc_tl_ucp_test_recv after each level of the tree
BcastWait == RecvsDone

\* ucc_tl_ucp_bcast_knomial_progress, ucc_tl_ucp_bcast_knomial_start
BcastKnomial(c, r) ==
    LET n    == c.n
        root == MyRank(c, c.root)
        v    == Vrank(MyRank(c, r), root, n)
        Peer(x) == MapEval(c, InvVrank(x, root, n))
        Level(d) ==
            LET pos      == (v \div d) % c.radix
                children == SelectSeq(Each(Downward(c.radix - 1, 1), LAMBDA i : v + i * d),
                                      LAMBDA x : x < n)
            IN  IF v % d # 0 THEN << >>
                ELSE IF pos = 0
                THEN Each(children, LAMBDA x : Send(Peer(x), "dst", 0, c.count))
                ELSE << Recv(Peer(v - pos * d), "dst", 0, c.count) >>
    IN  OneLane(Rounds(Each(Distances(n, c.radix), Level), BcastWait)
                \o << <<AllDone, << >> >> >>)

\* ucc_tl_ucp_fanout_init: a bcast without data
Fanout(c, r) == BcastKnomial([c EXCEPT !.count = 0], r)

\* ucc_tl_ucp_bcast_dbt_start, _progress: one half of the buffer for each tree;
\* the root of the bcast feeds the roots of the trees
BcastDbt(c, r) ==
    The({
    LET me    == MyRank(c, r)
        root  == MyRank(c, c.root)
        off   == <<0, DivUp(c.count, 2)>>
        len   == <<DivUp(c.count, 2), c.count \div 2>>
        Down(to, i)   == Send(MapEval(c, to), "dst", off[i], len[i])
        Up(from, i)   == RecvCb(MapEval(c, from), "dst", off[i], len[i], i)
        Children(i) == SelectSeq(t[i].children, LAMBDA x : x \notin {NoRank, root})
        start == FlattenSeq([i \in 1 .. 2 |->
                    Opt(me = root /\ root # t[i].root, << Down(t[i].root, i) >>)])
                 \o FlattenSeq([i \in 1 .. 2 |->
                    Opt(me # root /\ me = t[i].root, << Up(root, i) >>)])
        recvs == FlattenSeq([i \in 1 .. 2 |->
                    Opt(me # t[i].root /\ me # root, << Up(t[i].parent, i) >>)])
        Arrived(i) == IF me = root THEN Go ELSE Got(i, 1)
    IN  OneLane(<< <<Go, start>>, <<Go, recvs>> >>
                \o [i \in 1 .. 2 |-> <<Arrived(i), Each(Children(i), LAMBDA x : Down(x, i))>>]
                \o << <<SendsDone, << >> >> >>) : t \in {Trees(MyRank(c, r), c.n)}})

\* ucc_tl_ucp_scatter_knomial_start, _progress: a rank receives once, at its
\* distance, at the start of the buffer or (zero copy) where its segment belongs
ScatterKnomialSteps(c, r) ==
    The({
    The({
    The({
    LET n     == c.n
        Rank(x) == InvVrank(x, c.root, n)
        Dist(x) == RecvDist(n - p0.n_extra, LoopRank(p0, x), c.radix, 0)
        seg   == SraSegment(c.count, v, n, c.radix)
        at    == IF c.host THEN 0 ELSE seg.offset
        Piece(p, x) ==
            The({
            The({
                [count  |-> BlockCount(block, StepRadix(p), si),
                 offset |-> BlockOffset(block, StepRadix(p), si)]
             : si \in {SegIndex(p, x, p.radix_pow)}})
             : block \in {KnxBlock(v, n, c.radix, c.count, p.iteration).count}})
        Loop(p) ==
            LET peers   == LoopPeers(p, Upward(1, c.radix - 1))
                parents == SelectSeq(peers, LAMBDA x : Dist(x) < Dist(v))
            IN  IF v # 0 /\ Dist(v) = p.radix_pow /\ parents # << >>
                THEN << Recv(Rank(parents[1]), "dst", at, Piece(p, v).count) >>
                ELSE Opt(v = 0 \/ Dist(v) < p.radix_pow,
                         Each(peers, LAMBDA x : The({
                            Send(Rank(x), "dst", at + piece.offset, piece.count)
                        : piece \in {Piece(p, x)}})))
        recvd == LET p == CHOOSE q \in Range(its) : q.radix_pow = Dist(v)
                 IN  Piece(p, v).count
    IN  IF p0.node_type = "EXTRA" THEN << <<Go, << >> >> >>
        ELSE Rounds(Each(its, Loop), AllDone)
             \o << <<Go, Opt(at = 0 /\ v # 0,
                            << Copy("dst", seg.offset, "dst", 0, recvd) >>)>> >>
                        : its \in {Iterations(p0, NextIteration)}})
                        : p0 \in {PatternInit(c.n, v, c.radix, FALSE, TRUE)}})
                        : v \in {Vrank(r, c.root, c.n)}})

\* ucc_tl_ucp_bcast_sag_knomial_init, _start: the allgather starts when the
\* scatter of the rank completes; an active set uses bcast_knomial
BcastSagKnomial(c, r) ==
    << [tag |-> 1, steps |-> ScatterKnomialSteps(c, r)],
       [tag |-> 2, steps |-> << <<After({1}), << >> >> >>
                             \o AllgatherKnomialSteps(c, r, "BCAST", "dst", c.root)] >>
=============================================================================
