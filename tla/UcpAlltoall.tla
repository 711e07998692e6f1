---------------------------- MODULE UcpAlltoall ----------------------------
(***************************************************************************)
(* The alltoall and alltoallv algorithms of tl/ucp, and its linear         *)
(* gatherv and scatterv.  The pairwise and linear ones keep at most nreqs  *)
(* operations in flight; Bruck's sends every block along the bits of its   *)
(* distance; the onesided ones write into the peer and count in its work   *)
(* buffer.                                                                 *)
(***************************************************************************)
EXTENDS UcpAllreduce

\* get_num_posts: 0 and more than the team size stand for the team size
NumPosts(c) == IF c.nreqs > c.n \/ c.nreqs = 0 THEN c.n ELSE c.nreqs

\* Elements that rank a has for rank b, and their place in the buffer of each
PairCount(c, a, b) == IF c.counts = << >> THEN c.block ELSE c.counts[a * c.n + b + 1]
SendDispl(c, a, b) ==
    FoldLeft(LAMBDA acc, q : acc + PairCount(c, a, q), 0, Upward(0, b - 1))
RecvDispl(c, b, a) ==
    FoldLeft(LAMBDA acc, q : acc + PairCount(c, q, b), 0, Upward(0, a - 1))

\* Defect: rank r expects the blocks in the order it sends its own.
MutRecvPeer(c, r, step) == (r - step + c.n) % c.n

\* get_recv_peer, get_send_peer
RecvPeer(c, r, step) == (r + step) % c.n
SendPeer(c, r, step) == (r - step + c.n) % c.n

\* ucc_tl_ucp_alltoallv_pairwise_progress: both windows are filled in one loop,
\* and the task is tested once all is posted
AlltoallvPairwise(c, r) ==
    LET From(k) == LET p == RecvPeer(c, r, k)
                   IN  << RecvNz(p, "dst", RecvDispl(c, r, p), PairCount(c, p, r)) >>
        To(k)   == LET p == SendPeer(c, r, k)
                   IN  << SendNz(p, "src", SendDispl(c, r, p), PairCount(c, r, p)) >>
        End     == << <<AllDone, << >> >> >>
    IN  << [tag |-> 1, steps |-> Steps(RecvWindow(NumPosts(c)), Each(Upward(0, c.n - 1), From)) \o End],
           [tag |-> 1, steps |-> Steps(SendWindow(NumPosts(c)), Each(Upward(0, c.n - 1), To)) \o End] >>

\* ucc_tl_ucp_alltoall_pairwise_progress: blocks of one size
AlltoallPairwise(c, r) ==
    LET From(k) == << Recv(RecvPeer(c, r, k), "dst", RecvPeer(c, r, k) * c.block, c.block) >>
        To(k)   == << Send(SendPeer(c, r, k), "src", SendPeer(c, r, k) * c.block, c.block) >>
        End     == << <<AllDone, << >> >> >>
    IN  << [tag |-> 1, steps |-> Steps(RecvWindow(NumPosts(c)), Each(Upward(0, c.n - 1), From)) \o End],
           [tag |-> 1, steps |-> Steps(SendWindow(NumPosts(c)), Each(Upward(0, c.n - 1), To)) \o End] >>

-----------------------------------------------------------------------------
\* Bruck

Bit(k, i) == (k \div 2 ^ i) % 2

\* get_bruck_step_start, _finish, GET_NEXT_BRUCK_NUM: the distances up to last
\* whose digit for the power pow of the radix is d
BruckNums(last, radix, d, pow) ==
    SelectSeq(Upward(pow * d, last), LAMBDA i : (i \div pow) % radix = d)

\* msb_pos_for_level: the highest of the low bits of a number
MsbPosForLevel(nthbit, k) == Max({-1} \cup {i \in 0 .. nthbit - 2 : Bit(k, i) = 1})

\* find_seg_index: where in the receive blocks the segment is that was last sent
\* on; -1 if it is still the rank's own
FindSegIndex(seg, level, nsegs) ==
    LET b == MsbPosForLevel(level, seg)
    IN  IF seg = 0 \/ b < 0 THEN -1
        ELSE b * nsegs + (seg \div 2 ^ (b + 1)) * 2 ^ b + (seg % 2 ^ b)

\* lognum(tsize) * div_round_up(tsize, 2) segments
BruckSegments(c) == Log2Ceil(c.n) * DivUp(c.n, 2) * c.block

\* ucc_tl_ucp_alltoall_bruck_init: the staging buffers for other memory types
AlltoallBruckScratch(c, r) == BruckSegments(c) + (IF c.host THEN 0 ELSE 2 * c.n * c.block)

\* ucc_tl_ucp_alltoall_bruck_start, _progress: in each step the segments with the
\* bit are merged, sent step ranks on, and received behind each other
AlltoallBruck(c, r) ==
    LET n    == c.n
        b    == c.block
        src  == IF c.host THEN <<"src", 0>> ELSE <<"scratch", BruckSegments(c)>>
        dst  == IF c.host THEN <<"dst", 0>> ELSE <<"scratch", BruckSegments(c) + n * b>>
        Segment(idx, level) ==
            LET s == FindSegIndex(idx, level + 1, n \div 2)
            IN  IF s = -1 THEN At(src, ((idx + r) % n) * b) ELSE <<"scratch", s * b>>
        Round(level) ==
            LET nums == BruckNums(n - 1, 2, 1, 2 ^ level)
                len  == Len(nums) * b
            IN  Each(Upward(1, Len(nums)),
                     LAMBDA i : CopyTo(At(dst, (i - 1) * b), Segment(nums[i], level), b))
                \o << SendFrom((r + 2 ^ level) % n, dst, len),
                      Recv((r - 2 ^ level + n) % n, "scratch", level * (n \div 2) * b, len) >>
        \* ucc_tl_ucp_alltoall_bruck_backward_rotation
        Rotate == << CopyTo(At(dst, r * b), At(src, r * b), b) >>
            \o Each(Upward(1, n - 1), LAMBDA idx :
                    CopyTo(At(dst, ((r - idx + n) % n) * b),
                           <<"scratch", FindSegIndex(idx, Log2Ceil(n) + 1, n \div 2) * b>>, b))
    IN  OneLane(<< <<Go, Opt(~c.host, << CopyTo(src, <<"src", 0>>, n * b) >>)>> >>
                \o Rounds(Each(Upward(0, Log2Ceil(n) - 1), Round), AllDone)
                \o << <<Go, Rotate>>,
                      <<Go, Opt(~c.host, << CopyTo(<<"dst", 0>>, dst, n * b) >>)>> >>)

-----------------------------------------------------------------------------
\* One-sided

\* sync_end of ucc_tl_ucp_test_onesided
SyncEnd(c) == c.n

PutTo(c, r, p) ==
    << Put(p, "src", SendDispl(c, r, p), "dst", RecvDispl(c, p, r), PairCount(c, r, p)), Inc(p) >>

\* ucc_tl_ucp_alltoall_onesided_start, _progress, and the same of alltoallv: the
\* peers are served from the next rank on
AlltoallOnesided(c, r) ==
    OneLane(<< <<Go, FlattenSeq(Each(Upward(1, c.n), LAMBDA k : PutTo(c, r, (r + k) % c.n)))>>,
               <<Sync(SyncEnd(c)), << ResetSync >> >> >>)

-----------------------------------------------------------------------------
\* Linear gatherv and scatterv

\* ucc_tl_ucp_gatherv_linear_start, _progress: the root sends its own block to
\* itself; in place, that operation counts as completed
GathervLinear(c, r) ==
    LET Block(p) == RecvNz(p, "dst", VectorOffset(c.counts, p), Count(c.counts, p))
        own      == SendNz(r, "src", 0, Count(c.counts, r))
    IN  IF r # c.root
        THEN OneLane(Rounds(<< << SendNz(c.root, "src", 0, Count(c.counts, r)) >> >>, AllDone))
        ELSE OneLane(<< <<Go, Opt(~c.inplace, << Block(r), own >>)>> >>
                     \o Steps(RecvWindow(NumPosts(c)),
                              Each(Upward(1, c.n - 1), LAMBDA k : << Block((r + k) % c.n) >>))
                     \o << <<AllDone, << >> >> >>)

\* ucc_tl_ucp_scatterv_linear_start, _progress
ScattervLinear(c, r) ==
    LET Block(p) == SendNz(p, "src", VectorOffset(c.counts, p), Count(c.counts, p))
        own      == RecvNz(r, "dst", 0, Count(c.counts, r))
    IN  IF r # c.root
        THEN OneLane(Rounds(<< << RecvNz(c.root, "dst", 0, Count(c.counts, r)) >> >>, AllDone))
        ELSE OneLane(<< <<Go, Opt(~c.inplace, << own, Block(r) >>)>> >>
                     \o Steps(SendWindow(NumPosts(c)),
                              Each(Upward(1, c.n - 1), LAMBDA k : << Block((r + k) % c.n) >>))
                     \o << <<AllDone, << >> >> >>)
=============================================================================
