-------------------------------- MODULE MCUcp --------------------------------
(***************************************************************************)
(* The collectives of tl/ucp that are model-checked.  Teams of up to nine  *)
(* ranks run in lockstep, which covers the arithmetic of every algorithm   *)
(* on powers of the radix, below and above them; teams of two to four run  *)
(* in every order.                                                         *)
(***************************************************************************)
EXTENDS UcpTask

Defaults ==
    [n |-> 3, block |-> 1, count |-> 3, counts |-> << >>, radix |-> 2, root |-> 0,
     inplace |-> FALSE, host |-> TRUE, map |-> << >>, kind |-> "ALLGATHER",
     unit |-> 1, avg |-> 1, nreqs |-> 1, pre |-> FALSE, frags |-> 1, depth |-> 1,
     bidir |-> FALSE, eager |-> FALSE, sched |-> "any", fail |-> NoRank,
     flight |-> NoRank]

Make(alg, co, f) ==
    LET c == f @@ [alg |-> alg, coll |-> co] @@ Defaults
    IN  IF c.map = << >> THEN [c EXCEPT !.map = [i \in 1 .. c.n |-> i - 1]] ELSE c

One    == [sched |-> "one"]
Sizes  == 2 .. 9
Uneven(n) == [i \in 1 .. n |-> (i * 2) % 3]

-----------------------------------------------------------------------------
\* Lockstep

Allgathers ==
    {Make(a, "allgather", One @@ [n |-> n, inplace |-> ip, eager |-> ip, block |-> 2]) :
        a \in {"allgather_ring", "allgather_neighbor", "allgather_bruck",
               "allgather_sparbit", "allgather_knomial"},
        n \in Sizes, ip \in BOOLEAN}
    \cup {Make("allgather_knomial", "allgather", One @@ [n |-> n, radix |-> k]) :
            n \in {5, 7, 8, 9}, k \in 3 .. 4}
    \cup {Make("allgather_bruck", "allgather", One @@ [n |-> n, host |-> FALSE]) :
            n \in {3, 6, 8}}
    \cup {Make(a, "allgatherv", One @@ [n |-> n, kind |-> "ALLGATHERV", inplace |-> ip,
                                        counts |-> Uneven(n)]) :
            a \in {"allgatherv_ring", "allgather_knomial"}, n \in {2, 5, 8}, ip \in BOOLEAN}

Bcasts ==
    {Make(a, "bcast", One @@ [n |-> n, count |-> k, inplace |-> TRUE, radix |-> rx,
                              root |-> 1, host |-> (k = 5)]) :
        a \in {"bcast_knomial", "bcast_sag_knomial", "bcast_dbt"},
        n \in Sizes, k \in {1, 5, 9}, rx \in 2 .. 3}

Reduces ==
    {Make(a, "reduce", One @@ [n |-> n, count |-> k, inplace |-> ip, radix |-> rx, root |-> 1]) :
        a \in {"reduce_knomial", "reduce_dbt", "reduce_srg_knomial"},
        n \in Sizes, k \in {1, 5}, rx \in 2 .. 3, ip \in BOOLEAN}
    \cup {Make(a, "reduce", One @@ [n |-> n, count |-> 5, inplace |-> ip, unit |-> n,
                                    avg |-> n, pre |-> pr]) :
            a \in {"reduce_knomial", "reduce_dbt", "reduce_srg_knomial"},
            n \in {2, 5, 6}, ip \in BOOLEAN, pr \in BOOLEAN}
    \cup {Make("reduce_srg_knomial", "reduce",
               One @@ [n |-> n, count |-> 13, inplace |-> ip, frags |-> f, depth |-> 2]) :
            n \in {3, 6, 8}, ip \in BOOLEAN, f \in 2 .. 3}
    \cup {Make("gather_knomial", "gather",
               One @@ [n |-> n, block |-> 2, inplace |-> ip, radix |-> rx, root |-> 1]) :
            n \in Sizes, rx \in 2 .. 3, ip \in BOOLEAN}
    \cup {Make("reduce_scatter_knomial", "reduce_scatter",
               One @@ [n |-> n, block |-> b, inplace |-> ip, radix |-> rx]) :
            n \in Sizes, rx \in 2 .. 3, b \in 1 .. 2, ip \in BOOLEAN}
    \cup {Make("reduce_scatter_ring", "reduce_scatter",
               One @@ [n |-> n, block |-> b, inplace |-> ip, bidir |-> bi]) :
            n \in {2, 3, 6, 7}, b \in {1, 3}, ip \in BOOLEAN, bi \in BOOLEAN}
    \cup {Make("reduce_scatterv_ring", "reduce_scatterv",
               One @@ [n |-> n, counts |-> Uneven(n), inplace |-> ip, bidir |-> bi]) :
            n \in {2, 5, 8}, ip \in BOOLEAN, bi \in BOOLEAN}

Allreduces ==
    {Make(a, "allreduce", One @@ [n |-> n, count |-> k, inplace |-> ip, radix |-> rx]) :
        a \in {"allreduce_knomial", "allreduce_sra_knomial"},
        n \in Sizes, k \in {1, 9}, rx \in 2 .. 3, ip \in BOOLEAN}
    \cup {Make(a, "allreduce", One @@ [n |-> n, count |-> 5, inplace |-> ip, unit |-> n,
                                       avg |-> n, pre |-> pr]) :
            a \in {"allreduce_knomial", "allreduce_sra_knomial"},
            n \in {2, 5, 6}, ip \in BOOLEAN, pr \in BOOLEAN}
    \cup {Make("allreduce_sra_knomial", "allreduce",
               One @@ [n |-> n, count |-> 13, inplace |-> ip, frags |-> f, depth |-> 2]) :
            n \in {3, 6, 8}, ip \in BOOLEAN, f \in 2 .. 3}
    \cup {Make("allreduce_dbt", "allreduce", One @@ [n |-> n, count |-> k]) :
            n \in Sizes, k \in {1, 5}}

Alltoalls ==
    {Make("alltoall_pairwise", "alltoall", One @@ [n |-> n, block |-> 2, nreqs |-> q]) :
        n \in {2, 5, 8}, q \in 0 .. 2}
    \cup {Make("alltoall_bruck", "alltoall", One @@ [n |-> n, block |-> 2, host |-> h]) :
            n \in Sizes, h \in BOOLEAN}
    \cup {Make("alltoallv_pairwise", "alltoallv",
               One @@ [n |-> n, counts |-> [i \in 1 .. n * n |-> i % 3], nreqs |-> q]) :
            n \in {2, 5, 8}, q \in 0 .. 2}
    \cup {Make(a, co, One @@ [n |-> n, counts |-> Uneven(n), nreqs |-> q, inplace |-> ip,
                              root |-> 1]) :
            a \in {"gatherv_linear"}, co \in {"gatherv"}, n \in {2, 5, 8}, q \in 0 .. 2,
            ip \in BOOLEAN}
    \cup {Make(a, co, One @@ [n |-> n, counts |-> Uneven(n), nreqs |-> q, inplace |-> ip,
                              root |-> 1]) :
            a \in {"scatterv_linear"}, co \in {"scatterv"}, n \in {2, 5, 8}, q \in 0 .. 2,
            ip \in BOOLEAN}

-----------------------------------------------------------------------------
\* Every order

AnyOrder ==
    {Make(a, "allgather", [n |-> n, eager |-> (n = 3)]) :
        a \in {"allgather_ring", "allgather_bruck", "allgather_knomial"}, n \in 3 .. 4}
    \cup {Make(a, "bcast", [n |-> 4, count |-> 4, inplace |-> TRUE]) :
            a \in {"bcast_knomial", "bcast_sag_knomial", "bcast_dbt"}}
    \cup {Make(a, "reduce", [n |-> n, count |-> 2]) :
            a \in {"reduce_knomial", "reduce_dbt", "reduce_srg_knomial"}, n \in {3, 4}}
    \cup {Make(a, "allreduce", [n |-> 3, count |-> 2, inplace |-> ip]) :
            a \in {"allreduce_knomial", "allreduce_sra_knomial"}, ip \in BOOLEAN}
    \cup {Make("barrier", "barrier", [n |-> n, radix |-> rx]) : n \in {3, 4}, rx \in 2 .. 3}
    \cup {Make("fanin", "fanin", [n |-> 4]), Make("fanout", "fanout", [n |-> 4])}
    \cup {Make(a, "alltoall", [n |-> n]) :
            a \in {"alltoall_pairwise", "alltoall_onesided"}, n \in {2, 3}}
    \cup {Make("alltoallv_onesided", "alltoallv", [n |-> 2, counts |-> <<1, 0, 2, 1>>])}

\* A post fails on rank f, or an operation fails in flight
PostFails(f, e) ==
    LET Fail(a, co, n) == Make(a, co, [n |-> n, count |-> 2, fail |-> f, eager |-> e,
                                       inplace |-> co = "bcast"])
    IN  {Fail(a, "allgather", 3) :
            a \in {"allgather_ring", "allgather_bruck", "allgather_knomial"}}
        \cup {Fail(a, "allgather", 4) : a \in {"allgather_neighbor", "allgather_sparbit"}}
        \cup {Fail(a, "allreduce", 3) : a \in {"allreduce_knomial", "allreduce_sra_knomial"}}
        \cup {Fail(a, "reduce", 3) : a \in {"reduce_knomial", "reduce_dbt", "reduce_srg_knomial"}}
        \cup {Fail(a, "bcast", 4) : a \in {"bcast_knomial", "bcast_sag_knomial", "bcast_dbt"}}
        \cup {Fail(a, "reduce_scatter", 3) :
                a \in {"reduce_scatter_knomial", "reduce_scatter_ring"}}
        \cup {Fail("gather_knomial", "gather", 4), Fail("alltoall_pairwise", "alltoall", 2),
              Fail("barrier", "barrier", 3)}
Failures ==
    UNION {PostFails(f, e) : f \in {0, 1}, e \in BOOLEAN}
    \cup {Make("allreduce_knomial", "allreduce", [n |-> 3, count |-> 2, flight |-> f]) :
            f \in {0, 1}}

MCColls == Allgathers \cup Bcasts \cup Reduces \cup Allreduces \cup Alltoalls
           \cup AnyOrder \cup Failures
=============================================================================
