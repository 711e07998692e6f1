------------------------------ MODULE CudaTopo ------------------------------
(* The NVLink topology of a TL cuda team (components/tl/cuda/tl_cuda_topo.c   *)
(* and tl_cuda_team_topo.c): the graph NVML reports, the matrix of links      *)
(* between the ranks, the proxies of the pairs without a link, and the rings. *)
(* A fabric is a record: gpu[r] the device of rank r, links[d] the sequence   *)
(* of the devices the links of d lead to, switches the devices that are       *)
(* switches.  The links of the matrix are 32 bits wide and SAME_DEVICE is     *)
(* UINT32_MAX - 1; they are written here as the signed numbers the code reads *)
(* them as (int links), so SAME_DEVICE is -2.                                 *)
EXTENDS Integers, Sequences, FiniteSets, SequencesExt, FiniteSetsExt

SAME_DEVICE == -2

(* One node per device, one link per neighbour, as wide as the number of      *)
(* links NVML counts towards it.                                              *)
Width(fabric, d, e) ==
    Cardinality({i \in DOMAIN fabric.links[d] : fabric.links[d][i] = e})

(* Direct links, and the narrower of the two sides of every switch that       *)
(* connects both.                                                             *)
NumLinks(fabric, d, e) ==
    LET neighbours == ToSet(fabric.links[d])
    IN  MapThenSumSet(
            LAMBDA x : IF x = e THEN Width(fabric, d, x)
                       ELSE IF x \in fabric.switches
                            THEN Min({Width(fabric, d, x), Width(fabric, e, x)})
                            ELSE 0,
            neighbours)

(* The upper triangle is computed and copied to the lower one.                *)
Matrix(fabric) ==
    LET ranks == DOMAIN fabric.gpu
        Links(i, j) == IF fabric.gpu[i] = fabric.gpu[j] THEN SAME_DEVICE
                       ELSE NumLinks(fabric, fabric.gpu[i], fabric.gpu[j])
    IN  [i \in ranks |-> [j \in ranks |->
            IF i = j THEN SAME_DEVICE
            ELSE IF i < j THEN Links(i, j) ELSE Links(j, i)]]

IsDirect(m, i, j) == m[i][j] # 0

(* a/b < c/d for the scores (transfers over links); a link to the same device *)
(* is 2^32 - 2 wide, which makes its score smaller than that of any other.    *)
Smaller(x, y) == x[1] * y[2] < y[1] * x[2]
Score(load, links) == IF links = SAME_DEVICE THEN <<0, 1>> ELSE <<load + 1, links>>
Larger(x, y) == IF Smaller(x, y) THEN y ELSE x

(* The proxy with the smallest score, the first of several; the search runs   *)
(* over k upwards and skips a k whose score is not smaller.                   *)
MutBestProxy(m, data, i, j) ==
    LET can == {k \in DOMAIN m : IsDirect(m, i, k)}
    IN  IF can = {} THEN -1 ELSE Min(can)
BestProxy(m, data, i, j) ==
    LET can == {k \in DOMAIN m : IsDirect(m, i, k) /\ IsDirect(m, k, j)}
        S(k) == Larger(Score(data[i][k], m[i][k]), Score(data[k][j], m[k][j]))
    IN  IF can = {} THEN -1
        ELSE CHOOSE k \in can : \A l \in can :
                 \/ Smaller(S(k), S(l))
                 \/ ~Smaller(S(l), S(k)) /\ k <= l

(* Every pair without a link gets a proxy, in the order of the matrix; its    *)
(* transfers count as load on the links of the pairs that follow.  The result *)
(* is the sequence of [src, dst, proxy], or the empty one when some pair has  *)
(* none (the topology is not supported).                                      *)
RECURSIVE ProxiesFrom(_, _, _, _)
ProxiesFrom(m, data, pairs, found) ==
    IF pairs = <<>> THEN found
    ELSE LET i == Head(pairs)[1]
             j == Head(pairs)[2]
             k == BestProxy(m, data, i, j)
         IN  IF k = -1 THEN <<>>
             ELSE ProxiesFrom(m, [data EXCEPT ![i][k] = @ + 1, ![k][j] = @ + 1], Tail(pairs),
                              Append(found, [src |-> i, dst |-> j, proxy |-> k]))

Apart(m) ==
    LET n == Cardinality(DOMAIN m)
        all == [x \in 1 .. n * n |-> <<(x - 1) \div n, (x - 1) % n>>]
    IN  SelectSeq(all, LAMBDA p : ~IsDirect(m, p[1], p[2]))

InitProxies(m) ==
    ProxiesFrom(m, [i \in DOMAIN m |-> [j \in DOMAIN m |->
                        IF IsDirect(m, i, j) THEN 1 ELSE 0]], Apart(m), <<>>)

(* A link is usable at a width when it is that wide or stays on the device.   *)
Usable(graph, i, j, width) == graph[i][j] = SAME_DEVICE \/ graph[i][j] >= width

(* Depth first, lowest rank first: the ring grows by one rank at a time and   *)
(* must close.  The empty sequence stands for NOT_SUPPORTED.                  *)
RECURSIVE BuildRing(_, _, _)
BuildRing(graph, ring, width) ==
    LET n == Cardinality(DOMAIN graph)
        last == ring[Len(ring)]
    IN  IF Len(ring) = n
        THEN IF Usable(graph, last, ring[1], width) THEN ring ELSE <<>>
        ELSE LET next == {i \in DOMAIN graph : Usable(graph, last, i, width)
                                                /\ i \notin ToSet(ring)
                                                /\ BuildRing(graph, Append(ring, i), width) # <<>>}
             IN  IF next = {} THEN <<>>
                 ELSE BuildRing(graph, Append(ring, Min(next)), width)

(* The ring's links are taken away, once per direction for every hop of the   *)
(* ring: a ring of two ranks has two hops over the same link.                 *)
RECURSIVE RemoveRing(_, _, _, _)
RemoveRing(graph, ring, width, hop) ==
    IF hop > Len(ring) THEN graph
    ELSE LET i == ring[hop]
             j == ring[(hop % Len(ring)) + 1]
             less == [graph EXCEPT ![i][j] = @ - width, ![j][i] = @ - width]
         IN  RemoveRing(IF graph[i][j] = SAME_DEVICE THEN graph ELSE less, ring, width, hop + 1)

(* The rings found at the widths 4, 2 and 1, each with its width.             *)
RECURSIVE FindRings(_, _)
FindRings(graph, width) ==
    IF width = 0 THEN <<>>
    ELSE LET ring == BuildRing(graph, <<0>>, width)
         IN  IF ring = <<>> THEN FindRings(graph, width \div 2)
             ELSE <<[ring |-> ring, width |-> width]>>
                  \o FindRings(RemoveRing(graph, ring, width, 1), width \div 2)

(* width / min_width copies of each ring, and as many inverted ones if there
   are more than two ranks.                                                *)
InitRings(m) ==
    LET found == FindRings(m, 4)
        minWidth == Min({found[i].width : i \in DOMAIN found})
        Copies(f) == LET nr == f.width \div minWidth
                     IN  [i \in 1 .. nr |-> f.ring]
                         \o (IF Len(f.ring) > 2 THEN [i \in 1 .. nr |-> Reverse(f.ring)] ELSE <<>>)
    IN  FlattenSeq([i \in DOMAIN found |-> Copies(found[i])])

-----------------------------------------------------------------------------
(* A pair of ranks without a link of its own is served by one rank that has a *)
(* link to both, so an alltoallv can copy through it.                         *)
ProxiesComplete(m, proxies) ==
    \A i, j \in DOMAIN m : ~IsDirect(m, i, j) =>
        Cardinality({x \in DOMAIN proxies :
            /\ proxies[x].src = i /\ proxies[x].dst = j
            /\ IsDirect(m, i, proxies[x].proxy) /\ IsDirect(m, proxies[x].proxy, j)}) = 1

(* Every ring goes through each rank once and only over links; the rings that *)
(* pass over a link in one direction are no more than its links.              *)
RingsFit(m, rings) ==
    LET Hops(g) == {<<rings[g][k], rings[g][(k % Len(rings[g])) + 1]>> : k \in DOMAIN rings[g]}
    IN  /\ \A g \in DOMAIN rings : /\ Len(rings[g]) = Cardinality(DOMAIN m)
                                   /\ ToSet(rings[g]) = DOMAIN m
        /\ \A i, j \in DOMAIN m : (i # j /\ m[i][j] # SAME_DEVICE) =>
               Cardinality({g \in DOMAIN rings : <<i, j>> \in Hops(g)}) <= m[i][j]
=============================================================================
