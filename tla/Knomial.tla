------------------------------ MODULE Knomial ------------------------------
(***************************************************************************)
(* coll_patterns: how the algorithms number their peers and cut their      *)
(* buffers.  A knomial pattern is a record, the state of one iteration;    *)
(* what the C code updates in place is a new record here.  Counts and      *)
(* offsets are in elements.                                                *)
(***************************************************************************)
EXTENDS Integers, Sequences, FiniteSetsExt, TLC

\* UCC_KN_PEER_NULL, UCC_RANK_INVALID
NoRank == -1

\* The element of a set that has one.  The({f(x) : x \in {e}}) is f of the value of
\* e, which is computed once.
The(S) == CHOOSE x \in S : TRUE

AlignDown(x, a) == x - (x % a)
DivUp(x, a)     == (x + a - 1) \div a

\* ucc_buffer_block_count: the remainder is spread over the first blocks
BlockCount(total, n, b) == total \div n + (IF b < total % n THEN 1 ELSE 0)

\* ucc_buffer_block_offset
BlockOffset(total, n, b) ==
    LET left   == total % n
        offset == b * (total \div n) + left
    IN  IF b < left THEN offset - (left - b) ELSE offset

\* ucc_buffer_vector_block_offset: counts is a sequence, ranks start at 0
VectorOffset(counts, rank) == MapThenSumSet(LAMBDA i : counts[i], 1 .. rank)

-----------------------------------------------------------------------------
\* recursive_knomial.h

\* The smallest power of the radix, from the first one on, that is >= size.
PowSup(radix, size) == Min({k \in 1 .. size : radix ^ k >= size})

\* The largest power of the radix that is at most size
FullTree(radix, size) ==
    The({IF fs # size THEN fs \div radix ELSE fs : fs \in {radix ^ PowSup(radix, size)}})

\* ucc_knomial_pattern_init_impl, on the full tree
PatternOver(full, size, rank, radix, backward, has_extra) ==
    LET n_full == size \div full
        extra  == IF has_extra THEN size % full ELSE 0
        sup    == PowSup(radix, size)
    IN  [size |-> size, rank |-> rank, radix |-> radix, backward |-> backward,
         iteration |-> 0, n_full |-> n_full, n_extra |-> extra,
         n_iters |-> IF extra > 0 /\ n_full = 1 THEN sup - 1 ELSE sup,
         radix_pow |-> IF ~backward THEN 1
                       ELSE IF n_full = 1 THEN full \div radix ELSE full,
         node_type |-> IF rank >= 2 * extra THEN "BASE"
                       ELSE IF rank % 2 = 1 THEN "EXTRA" ELSE "PROXY"]
PatternInit(size, rank, radix, backward, has_extra) ==
    PatternOver(FullTree(radix, size), size, rank, radix, backward, has_extra)

GetProxy(rank) == rank - 1
GetExtra(rank) == rank + 1

LoopDone(p)           == p.iteration = p.n_iters
LoopFirstIteration(p) == p.iteration = 0
LoopLastIteration(p)  == p.iteration = p.n_iters - 1

\* ucc_knomial_pattern_loop_rank, ucc_knomial_pattern_loop_rank_inv: ranks
\* without the extra ones
LoopRank(p, rank) ==
    IF rank < p.n_extra * 2 THEN rank \div 2 ELSE rank - p.n_extra
LoopRankInv(p, rank) ==
    IF rank < p.n_extra THEN rank * 2 ELSE rank + p.n_extra

\* ucc_knomial_pattern_get_loop_peer
LoopPeer(p, rank, step) ==
    LET lrank     == LoopRank(p, rank)
        step_size == p.radix_pow * p.radix
        peer      == ((lrank + step * p.radix_pow) % step_size)
                     + AlignDown(lrank, step_size)
    IN  IF peer >= p.size - p.n_extra THEN NoRank ELSE LoopRankInv(p, peer)

\* ucc_knomial_pattern_get_base_rank
BaseRank(p, rank) ==
    LET step_size == p.radix_pow * p.radix
        s == DivUp(step_size - (LoopRank(p, rank) % step_size), p.radix_pow)
    IN  IF s = p.radix THEN rank ELSE LoopPeer(p, rank, s)

NextIteration(p) ==
    [p EXCEPT !.iteration = @ + 1, !.radix_pow = @ * p.radix]
NextIterationBackward(p) ==
    [p EXCEPT !.iteration = @ + 1, !.radix_pow = @ \div p.radix]

\* ucc_knomial_pattern_get_min_radix
MinRadix(cfg_radix, team_size, count) ==
    LET radix == Min({cfg_radix, team_size})
    IN  IF \/ DivUp(count, radix) * (radix - 1) > count
           \/ radix - 1 > count
        THEN 2 ELSE radix

\* ucc_knomial_calc_recv_dist: the distance at which a rank receives
RecvDist(team_size, rank, radix, root) ==
    IF rank = root THEN 0
    ELSE radix ^ Min({k \in 0 .. team_size :
                        \/ rank < radix * radix ^ k
                        \/ radix ^ k > team_size})

\* ucc_kn_get_opt_radix: the first radix that leaves the fewest extra ranks
OptRadix(team_size, min_radix, max_radix) ==
    LET radices  == min_radix .. Max({min_radix, max_radix})
        extra(r) == team_size % FullTree(r, team_size)
        least    == Min({extra(r) : r \in radices} \cup {team_size})
    IN  IF \E r \in radices : extra(r) = least
        THEN Min({r \in radices : extra(r) = least}) ELSE min_radix

-----------------------------------------------------------------------------
\* sra_knomial.h: scatter-reduce-allgather segments

\* ucc_kn_compute_step_radix
StepRadix(p) ==
    IF p.radix_pow * p.radix >= p.size /\ p.n_full > 1 THEN p.n_full
                                                       ELSE p.radix

\* ucc_kn_compute_seg_index
SegIndex(p, peer, kpow) ==
    LET lrank == LoopRank(p, peer)
        base  == AlignDown(lrank, kpow * p.radix)
    IN  (IF base = 0 THEN lrank ELSE lrank % base) \div kpow

\* One halving of a block, as ucc_knx_block and ucc_sra_kn_get_offset_and_seglen
\* do it: the block of the pattern's rank after the first iters iterations.
Halved(p, count, iters) ==
    LET Cut[i \in 0 .. iters] ==
            IF i = 0 THEN [p |-> p, count |-> count, offset |-> 0]
            ELSE The({
                 The({
                     [p |-> NextIteration(c.p),
                      count |-> BlockCount(c.count, StepRadix(c.p), si),
                      offset |-> c.offset + BlockOffset(c.count, StepRadix(c.p), si)]
                  : si \in {SegIndex(c.p, p.rank, c.p.radix_pow)}})
                  : c \in {Cut[i - 1]}})
    IN  Cut[iters]

\* ucc_knx_block
KnxBlock(rank, size, radix, count, iters) ==
    The({
        IF p.node_type = "EXTRA" THEN [count |-> 0, offset |-> 0]
        ELSE Halved(p, count, iters) : p \in {PatternInit(size, rank, radix, FALSE, TRUE)}})

\* ucc_sra_kn_get_offset_and_seglen: what the rank holds between a
\* reduce-scatter and an allgather
SraSegment(count, rank, size, radix) ==
    The({
        IF p.node_type = "EXTRA" THEN [count |-> 0, offset |-> 0]
        ELSE Halved(p, count, p.n_iters)
    : p \in {PatternInit(size, rank, radix, FALSE, TRUE)}})

\* ucc_kn_seg_desc_compute: the ranks whose blocks make up the peer's segment
SegDesc(p, peer) ==
    The({
    The({
        [size |-> size, offset |-> offset,
         start |-> LoopRankInv(p, offset + p.block_offset),
         end   |-> LoopRankInv(p, offset + p.block_offset + size)]
     : offset \in {size * SegIndex(p, peer, p.radix_pow)}})
     : size \in {p.block_size \div StepRadix(p)}})

\* The block of the iteration is a run of ranks: ag, agv, g, rs patterns
WithBlock(p, type, count, size, offset) ==
    p @@ [type |-> type, count |-> count, block_size |-> size,
          block_offset |-> offset, block_size_counts |-> count]

\* The block of the iteration is a run of elements: agx, gx patterns
WithKnxBlock(p, type, count) ==
    The({
        p @@ [type |-> type, count |-> count, block_size |-> StepRadix(p),
              block_offset |-> b.offset, block_size_counts |-> b.count]
     : b \in {IF p.node_type = "EXTRA" THEN [count |-> 0, offset |-> 0]
              ELSE KnxBlock(p.rank, p.size, p.radix, count, p.n_iters - 1)}})

\* ucc_kn_g_pattern_init, ucc_kn_ag_pattern_init, ucc_kn_agv_pattern_init
GatherInit(type, size, rank, radix, count) ==
    The({
        WithBlock(p, type, count, radix, AlignDown(LoopRank(p, rank), radix))
    : p \in {PatternInit(size, rank, radix, FALSE, type # "GATHER")}})

\* ucc_kn_gx_pattern_init, ucc_kn_agx_pattern_init
GatherXInit(type, size, rank, radix, count) ==
    WithKnxBlock(PatternInit(size, rank, radix, TRUE, TRUE), type, count)

\* The segment of a peer within a block of elements
PieceOf(p, peer) ==
    The({
        [count  |-> BlockCount(p.block_size_counts, StepRadix(p), si),
         offset |-> BlockOffset(p.block_size_counts, StepRadix(p), si)]
     : si \in {SegIndex(p, peer, p.radix_pow)}})

\* ucc_kn_g_pattern_peer_seg
GatherPeerSeg(p, peer) ==
    IF p.type = "GATHER"
    THEN [count  |-> Min({p.radix_pow, p.size - peer}) * (p.count \div p.size),
          offset |-> peer * (p.count \div p.size)]
    ELSE [PieceOf(p, peer) EXCEPT !.offset = @ + p.block_offset]

\* ucc_kn_ag_pattern_peer_seg; the count of an allgatherv is its vector
AllgatherPeerSeg(p, peer) ==
    LET Offset(rank) == IF p.type = "ALLGATHERV" THEN VectorOffset(p.count, rank)
                        ELSE BlockOffset(p.count, p.size, rank)
    IN  IF p.type = "ALLGATHERX"
        THEN [PieceOf(p, peer) EXCEPT !.offset = @ + p.block_offset]
        ELSE The({
                [offset |-> Offset(s.start), count |-> Offset(s.end) - Offset(s.start)]
            : s \in {SegDesc(p, peer)}})

\* ucc_kn_g_pattern_next_iter, ucc_kn_ag_pattern_next_iter
GatherNextIter(p) ==
    IF p.type \in {"GATHERX", "ALLGATHERX"}
    THEN The({
         IF LoopDone(q) THEN q
         ELSE The({[q EXCEPT !.block_size_counts = b.count,
                                        !.block_offset = b.offset]
                                    : b \in {KnxBlock(p.rank, p.size, p.radix, p.count,
                                                     p.n_iters - 1 - q.iteration)}})
                                    : q \in {NextIterationBackward(p)}})
    ELSE The({
         IF LoopDone(q) THEN q
         ELSE The({[q EXCEPT !.block_size = bs,
                                         !.block_offset = AlignDown(LoopRank(p, p.rank), bs)]
                                     : bs \in {p.block_size * StepRadix(q)}})
                                     : q \in {NextIteration(p)}})

\* ucc_kn_rs_pattern_init
ReduceScatterInit(size, rank, radix, count) ==
    The({
        WithBlock(p, "REDUCE_SCATTER", count, size - p.n_extra, 0)
    : p \in {PatternInit(size, rank, radix, TRUE, TRUE)}})

\* ucc_kn_rsx_pattern_init
ReduceScatterXInit(size, rank, radix, count) ==
    The({
        WithBlock(p, "REDUCE_SCATTERX", count, size - p.n_extra, 0)
    : p \in {PatternInit(size, rank, radix, FALSE, TRUE)}})

\* ucc_kn_rs_pattern_peer_seg: the offset is from the start of the block
ReduceScatterPeerSeg(p, peer) ==
    LET Offset(rank) == BlockOffset(p.count, p.size, rank)
    IN  IF p.type = "REDUCE_SCATTERX" THEN PieceOf(p, peer)
        ELSE The({
                [count  |-> Offset(s.end) - Offset(s.start),
                 offset |-> Offset(s.start) - Offset(LoopRankInv(p, p.block_offset))]
             : s \in {SegDesc(p, peer)}})

\* ucc_kn_rs_pattern_next_iter
ReduceScatterNextIter(p) ==
    The({
    The({
        IF p.type = "REDUCE_SCATTERX"
        THEN NextIteration([p EXCEPT !.block_size_counts = seg.count,
                                     !.block_offset = @ + seg.offset])
        ELSE NextIterationBackward(
                [p EXCEPT !.block_size_counts = seg.count,
                          !.block_size = s.size, !.block_offset = @ + s.offset])
                      : s \in {SegDesc(p, p.rank)}})
                      : seg \in {ReduceScatterPeerSeg(p, p.rank)}})

\* ucc_kn_rs_pattern_extra_seg: the block of the proxy's extra rank
ReduceScatterExtraSeg(p) ==
    [offset |-> BlockCount(p.count, p.size, p.rank),
     count  |-> BlockCount(p.count, p.size, GetExtra(p.rank))]
=============================================================================
