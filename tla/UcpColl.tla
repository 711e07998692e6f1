------------------------------- MODULE UcpColl -------------------------------
(***************************************************************************)
(* A collective of tl/ucp: its memory before it is posted, the program     *)
(* that every rank runs, and what the user finds in the destination        *)
(* buffer.  An element is a pair: its index in the vector of the rank that *)
(* contributed it, and a number with one digit for the contribution of     *)
(* each rank, so that the sum tells who is in it, and how often.           *)
(***************************************************************************)
EXTENDS UcpAlltoall

Ranks(c) == 0 .. c.n - 1

\* The contribution of a rank; AVG divides by the team size later on
Elem(c, r, i)  == <<i, c.unit * (IF c.avg > 1 THEN 32 ELSE 8) ^ r>>
Elems(c, r, k) == [i \in 1 .. k |-> Elem(c, r, i)]
Unwritten(k)   == [i \in 1 .. k |-> <<0, 0>>]
Blocks(n, F(_)) == FlattenSeq([i \in 1 .. n |-> F(i - 1)])

\* Every element of a buffer of k elements summed up over all ranks
Summed(c, k) ==
    [i \in 1 .. k |-> <<i, SumSet({Elem(c, r, i)[2] : r \in Ranks(c)}) \div c.avg>>]

\* ucc_tl_ucp_get_knomial_radix: an algorithm that cuts the vector into segments
\* takes a radix that leaves no segment empty
NeedScratch == {"scatter_knomial", "bcast_sag_knomial", "reduce_srg_knomial",
                "allreduce_sra_knomial", "reduce_scatter_knomial"}
WithRadix(c) ==
    LET count == CASE c.alg = "reduce_scatter_knomial" ->
                            IF c.inplace THEN c.n * c.block ELSE c.block
                   [] c.alg = "allreduce_sra_knomial" -> FragCount(c)
                   [] OTHER -> c.count
    IN  [c EXCEPT !.radix = IF c.alg \in NeedScratch THEN MinRadix(@, c.n, count)
                                                     ELSE Min({@, c.n})]

\* ucc_tl_ucp_alg_id_to_init
ProgramOf(c, r) ==
    CASE c.alg = "allgather_ring"     -> AllgatherRing(c, r)
      [] c.alg = "allgather_neighbor" -> AllgatherNeighbor(c, r)
      [] c.alg = "allgather_bruck"    -> AllgatherBruck(c, r)
      [] c.alg = "allgather_sparbit"  -> AllgatherSparbit(c, r)
      [] c.alg = "allgather_knomial"  -> AllgatherKnomial(c, r)
      [] c.alg = "allgatherv_ring"    -> AllgathervRing(c, r)
      [] c.alg = "bcast_knomial"      -> BcastKnomial(c, r)
      [] c.alg = "bcast_sag_knomial"  -> BcastSagKnomial(c, r)
      [] c.alg = "bcast_dbt"          -> BcastDbt(c, r)
      [] c.alg = "fanout"             -> Fanout(c, r)
      [] c.alg = "reduce_knomial"     -> ReduceKnomial(c, r)
      [] c.alg = "reduce_dbt"         -> ReduceDbt(c, r)
      [] c.alg = "reduce_srg_knomial" -> ReduceSrgKnomial(c, r)
      [] c.alg = "fanin"              -> Fanin(c, r)
      [] c.alg = "gather_knomial"     -> GatherKnomial(c, r)
      [] c.alg = "reduce_scatter_knomial" -> ReduceScatterKnomial(c, r)
      [] c.alg = "reduce_scatter_ring"    -> ReduceScatterRing(c, r)
      [] c.alg = "reduce_scatterv_ring"   -> ReduceScattervRing(c, r)
      [] c.alg = "allreduce_knomial"      -> AllreduceKnomial(c, r)
      [] c.alg = "allreduce_sra_knomial"  -> AllreduceSraKnomial(c, r)
      [] c.alg = "allreduce_dbt"          -> AllreduceDbt(c, r)
      [] c.alg = "barrier"                -> Barrier(c, r)
      [] c.alg = "alltoall_pairwise"      -> AlltoallPairwise(c, r)
      [] c.alg = "alltoall_bruck"         -> AlltoallBruck(c, r)
      [] c.alg \in {"alltoall_onesided", "alltoallv_onesided"} -> AlltoallOnesided(c, r)
      [] c.alg = "alltoallv_pairwise"     -> AlltoallvPairwise(c, r)
      [] c.alg = "gatherv_linear"         -> GathervLinear(c, r)
      [] c.alg = "scatterv_linear"        -> ScattervLinear(c, r)

Program(c, r) == ProgramOf(WithRadix(c), r)

\* Elements of the scratch buffer that the init function allocates
Scratch(c, r) ==
    CASE c.alg = "allgather_bruck"    -> AllgatherBruckScratch(c, r)
      [] c.alg = "reduce_knomial"     -> ReduceKnomialScratch(c, r)
      [] c.alg = "reduce_dbt"         -> 3 * c.count
      [] c.alg = "reduce_srg_knomial" -> ReduceSrgScratch(c, r)
      [] c.alg = "gather_knomial"     -> GatherScratch(c, r)
      [] c.alg = "reduce_scatter_knomial" ->
            RsScratch(c, r, "REDUCE_SCATTER", c.inplace, c.n * c.block)
      [] c.alg = "reduce_scatter_ring"    -> ReduceScatterRingScratch(c, r)
      [] c.alg = "reduce_scatterv_ring"   -> ReduceScattervRingScratch(c, r)
      [] c.alg = "allreduce_knomial"      -> AllreduceKnomialScratch(c, r)
      [] c.alg = "allreduce_dbt"          -> 3 * c.count
      [] c.alg = "alltoall_bruck"         -> AlltoallBruckScratch(c, r)
      [] OTHER -> 0

\* Elements of the scratch buffers of the tasks of a fragment
Work(c, r) ==
    CASE c.alg = "reduce_srg_knomial" -> FragScratch(c, r, "REDUCE", FALSE)
      [] c.alg = "allreduce_sra_knomial" -> FragScratch(c, r, "ALLREDUCE", c.inplace)
      [] OTHER -> 0

\* The buffers of the user
Source(c, r) ==
    CASE c.coll = "allgather"  -> Elems(c, r, c.block)
      [] c.coll = "allgatherv" -> Elems(c, r, Count(c.counts, r))
      [] c.coll = "gather"     -> Elems(c, r, c.block)
      [] c.coll = "bcast"      -> IF r = c.root THEN Elems(c, r, c.count) ELSE << >>
      [] c.coll \in {"reduce", "allreduce"} -> Elems(c, r, c.count)
      [] c.coll = "reduce_scatter"  -> Elems(c, r, c.n * c.block)
      [] c.coll = "reduce_scatterv" -> Elems(c, r, VectorOffset(c.counts, c.n))
      [] c.coll \in {"alltoall", "alltoallv"} -> Elems(c, r, SendDispl(c, r, c.n))
      [] c.coll = "gatherv"    -> Elems(c, r, Count(c.counts, r))
      [] c.coll = "scatterv"   -> IF r # c.root THEN << >>
                                  ELSE Elems(c, r, VectorOffset(c.counts, c.n))
      [] c.coll \in {"fanout", "fanin", "barrier"} -> << >>

Result(c, r) ==
    CASE c.coll = "allgather"  -> Blocks(c.n, LAMBDA b : Elems(c, b, c.block))
      [] c.coll = "allgatherv" -> Blocks(c.n, LAMBDA b : Elems(c, b, Count(c.counts, b)))
      [] c.coll = "gather"     -> IF r # c.root THEN << >>
                                  ELSE Blocks(c.n, LAMBDA b : Elems(c, b, c.block))
      [] c.coll = "bcast"      -> Elems(c, c.root, c.count)
      [] c.coll = "reduce"     -> IF r = c.root THEN Summed(c, c.count) ELSE << >>
      [] c.coll = "reduce_scatter" ->
            SubSeq(Summed(c, c.n * c.block), r * c.block + 1, (r + 1) * c.block)
      [] c.coll = "reduce_scatterv" ->
            SubSeq(Summed(c, VectorOffset(c.counts, c.n)), VectorOffset(c.counts, r) + 1,
                   VectorOffset(c.counts, r + 1))
      [] c.coll = "allreduce"  -> Summed(c, c.count)
      [] c.coll \in {"alltoall", "alltoallv"} ->
            Blocks(c.n, LAMBDA b : SubSeq(Source(c, b), SendDispl(c, b, r) + 1,
                                          SendDispl(c, b, r + 1)))
      [] c.coll = "gatherv"    -> IF r # c.root THEN << >>
                                  ELSE Blocks(c.n, LAMBDA b : Elems(c, b, Count(c.counts, b)))
      [] c.coll = "scatterv"   -> IF r = c.root /\ c.inplace THEN << >>
                                  ELSE SubSeq(Source(c, c.root), VectorOffset(c.counts, r) + 1,
                                              VectorOffset(c.counts, r + 1))
      [] c.coll \in {"fanout", "fanin", "barrier"} -> << >>

\* In place: the data of the rank is in the destination buffer.  The other ranks
\* of a rooted collective have no destination buffer.
IsInPlace(c, r) ==
    /\ c.inplace /\ c.coll # "scatterv"
    /\ c.coll \in {"reduce", "gather", "gatherv"} => r = c.root
InPlaceAt(c, r) ==
    CASE c.coll \in {"allgather", "gather"} -> r * c.block
      [] c.coll \in {"allgatherv", "gatherv"} -> Displ(c.counts, r)
      [] OTHER -> 0
\* Elements of the destination buffer, and the place of the result in it
Scattered(c) == c.coll \in {"reduce_scatter", "reduce_scatterv"}
DstLen(c, r) ==
    IF Scattered(c) /\ c.inplace THEN Len(Source(c, r)) ELSE Len(Result(c, r))
ResultAt(c, r) ==
    IF ~Scattered(c) \/ ~c.inplace THEN 0
    ELSE IF c.coll = "reduce_scatter" THEN r * c.block ELSE VectorOffset(c.counts, r)

Overwrite(m, off, vals) ==
    [i \in DOMAIN m |-> IF i > off /\ i <= off + Len(vals) THEN vals[i - off] ELSE m[i]]

MemoryOf(c, r) ==
    LET dst == Unwritten(DstLen(c, r))
        ip  == IsInPlace(c, r)
    IN  [src     |-> IF ip THEN << >> ELSE Source(c, r),
         dst     |-> IF ip THEN Overwrite(dst, InPlaceAt(c, r), Source(c, r)) ELSE dst,
         scratch |-> Unwritten(Scratch(c, r)),
         work1   |-> Unwritten(Work(c, r)),
         work2   |-> Unwritten(IF c.depth > 1 THEN Work(c, r) ELSE 0)]
Memory(c, r) == MemoryOf(WithRadix(c), r)
=============================================================================
