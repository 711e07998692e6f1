----------------------------- MODULE MCOffload -----------------------------
(* Small teams for the transports that hand a collective to a device, to a   *)
(* library or to another processor: the alltoall of TL mlx5 (Mlx5Alltoall),  *)
(* TL cuda (Cuda), TL nccl (Nccl), TL rccl (Rccl), TL sharp (Sharp) and CL   *)
(* doca_urom with its DPU plugin (Urom).                                     *)
EXTENDS Nccl

G(type, cnt) == [type |-> type, cnt |-> cnt, root |-> 1, inplace |-> FALSE, set |-> <<>>,
                 trig |-> "no", dt |-> "native", alg |-> "p2p"]
In(op) == [op EXCEPT !.inplace = TRUE]
N(n, ops) == [kind |-> "nccl", n |-> n, len |-> 8, lazy |-> TRUE, blocking |-> TRUE,
              sync |-> "event", fail |-> {}, ops |-> ops]
(* A step that fails on every rank of two, or on one.                        *)
Both(what, i) == {<<0, what, i>>, <<1, what, i>>}
NcclScenarios ==
    { N(3, <<op>>) : op \in {G("alltoall", <<2>>), G("alltoallv", <<1, 0, 2>>), G("allreduce", <<2>>),
        In(G("allreduce", <<2>>)), G("allgather", <<2>>), In(G("allgather", <<2>>)), G("bcast", <<2>>),
        G("reducescatter", <<2>>), In(G("reducescatter", <<2>>)), G("reduce", <<2>>),
        In(G("reduce", <<2>>)), G("barrier", <<1>>), G("gather", <<2>>), In(G("gather", <<2>>)),
        G("scatter", <<2>>), In(G("scatter", <<2>>)), G("gatherv", <<1, 2, 0>>),
        In(G("gatherv", <<1, 2, 0>>)), G("scatterv", <<1, 2, 0>>), In(G("scatterv", <<1, 2, 0>>)) } }
  \cup { N(3, <<[op EXCEPT !.alg = a]>>) : op \in {G("allgatherv", <<1, 2, 0>>), In(G("allgatherv", <<1, 2, 0>>))},
         a \in {"p2p", "bcopy", "bcast"} }
  \cup { [N(2, <<G("allreduce", <<2>>), [G("bcast", <<2>>) EXCEPT !.dt = "wide"],
                 [G("alltoall", <<0>>) EXCEPT !.trig = "ee"]>>) EXCEPT !.lazy = FALSE, !.sync = "memops"],
         N(2, <<[G("allreduce", <<2>>) EXCEPT !.dt = "wide"], [G("reduce", <<2>>) EXCEPT !.dt = "complex"],
                [G("allgather", <<1>>) EXCEPT !.dt = "user"]>>),
         N(2, <<[G("allreduce", <<2>>) EXCEPT !.trig = "capture"], [G("gather", <<2>>) EXCEPT !.trig = "ee"]>>),
         N(3, <<[G("bcast", <<2>>) EXCEPT !.set = <<1, 2>>], G("barrier", <<1>>),
                [G("bcast", <<2>>) EXCEPT !.set = <<1, 2>>]>>),
         [N(2, <<G("allreduce", <<2>>)>>) EXCEPT !.fail = {<<0, "id", 0>>}],
         [N(2, <<G("barrier", <<1>>), G("gather", <<2>>), G("scatter", <<1>>)>>)
            EXCEPT !.fail = Both("event", 1) \cup Both("post", 2)],
         [N(2, <<[G("allgatherv", <<1, 2>>) EXCEPT !.alg = "bcopy"]>>) EXCEPT !.fail = Both("scratch", 1)],
         [N(2, <<G("alltoall", <<0>>), G("allreduce", <<1>>)>>) EXCEPT !.fail = {<<0, "event", 1>>}],
         [N(2, <<G("gather", <<1>>), G("gather", <<1>>)>>) EXCEPT !.fail = {<<0, "event", 1>>}],
         [N(3, <<G("barrier", <<1>>), [G("bcast", <<2>>) EXCEPT !.set = <<1, 2>>], G("gather", <<1>>)>>)
            EXCEPT !.fail = {<<2, "sync", 2>>}],
         [N(3, <<G("gatherv", <<1, 2, 0>>), G("gather", <<1>>)>>) EXCEPT !.fail = {<<0, "post", 1>>}],
         [N(2, <<G("allreduce", <<1>>), G("allreduce", <<2>>)>>) EXCEPT !.fail = {<<1, "async", 1>>}],
         [N(2, <<[G("scatter", <<1>>) EXCEPT !.trig = "ee"]>>) EXCEPT !.fail = Both("finalize", 0)] }
  \cup { [N(2, <<G("allreduce", <<2>>)>>) EXCEPT !.fail = f, !.lazy = l] : l \in BOOLEAN,
         f \in UNION {{Both(what, 0), {<<0, what, 0>>}} : what \in {"comm", "stream"}} }
  \cup { [N(2, <<G("barrier", <<1>>), G("gather", <<2>>)>>)
            EXCEPT !.fail = f, !.lazy = FALSE, !.blocking = FALSE, !.sync = y] : y \in {"event", "memops"},
         f \in {{}, {<<1, "async", 1>>}, Both("async", 2), {<<0, "comm", 0>>}} }

(* TL rccl: what the library does not know is refused; a failed creation.    *)
R(n, ops) == [kind |-> "rccl", n |-> n, len |-> 8, fail |-> {}, ops |-> ops]
RcclScenarios ==
    { R(3, <<op>>) : op \in {G("alltoall", <<2>>), G("alltoallv", <<1, 0, 2>>), In(G("allreduce", <<2>>)),
        G("allgather", <<2>>), In(G("allgather", <<2>>)), In(G("reducescatter", <<2>>)),
        In(G("reduce", <<2>>)), G("gather", <<2>>), In(G("gather", <<2>>)), G("scatter", <<2>>),
        In(G("scatter", <<2>>)), G("gatherv", <<1, 2, 0>>), G("scatterv", <<1, 2, 0>>),
        [G("bcast", <<2>>) EXCEPT !.root = 2]} }
  \cup { R(3, <<[G("allgatherv", <<1, 2, 0>>) EXCEPT !.alg = a]>>) : a \in {"p2p", "bcopy", "bcast"} }
  \cup { R(2, <<In(G("alltoall", <<1>>)), [G("bcast", <<1>>) EXCEPT !.set = <<1, 0>>], G("barrier", <<1>>),
                G("alltoall", <<0>>), [G("allreduce", <<2>>) EXCEPT !.dt = "wide"]>>),
         [R(2, <<G("barrier", <<1>>), G("scatter", <<1>>), G("gatherv", <<1, 2>>)>>)
            EXCEPT !.fail = Both("event", 1) \cup Both("post", 2)],
         [R(2, <<[G("allgatherv", <<1, 2>>) EXCEPT !.alg = "bcopy"]>>) EXCEPT !.fail = Both("scratch", 1)],
         [R(2, <<G("scatterv", <<1, 2>>)>>) EXCEPT !.fail = {<<0, "id", 0>>}],
         [R(2, <<G("allreduce", <<1>>)>>) EXCEPT !.fail = Both("post", 1)],
         [R(2, <<G("gatherv", <<1, 1>>), G("gatherv", <<1, 1>>)>>) EXCEPT !.fail = {<<0, "post", 1>>}],
         [R(2, <<G("barrier", <<1>>), G("allreduce", <<1>>)>>) EXCEPT !.fail = {<<1, "test", 1>>}] }
  \cup { [R(2, <<G("barrier", <<1>>)>>) EXCEPT !.fail = f] :
         f \in UNION {{Both(what, 0), {<<0, what, 0>>}} : what \in {"comm", "stream"}} }

(* TL sharp: contexts of the process and of the team, both kinds of OOB,     *)
(* collectives that share buffers, and what the code undoes after a failure. *)
H(type, cnt, sb, db) == [type |-> type, cnt |-> cnt, root |-> 1, inplace |-> FALSE, set |-> <<>>,
                         dt |-> "native", mem |-> "host", fn |-> "sum", sb |-> sb, db |-> db]
S(ops) == [kind |-> "sharp", n |-> 2, len |-> 4, per_team |-> FALSE, internal |-> "try", service |-> TRUE,
           rcache |-> TRUE, thresh |-> 0, ppn |-> 1, int8 |-> FALSE, sat |-> TRUE, window |-> 1,
           fail |-> {}, ops |-> ops]
SharpOps == <<H("allreduce", <<2>>, 1, 2), H("bcast", <<2>>, 3, 3), H("barrier", <<1>>, 1, 1)>>
SharpScenarios ==
    { [S(SharpOps) EXCEPT !.per_team = p, !.rcache = c] : p \in BOOLEAN, c \in BOOLEAN }
  \cup { [S(SharpOps) EXCEPT !.internal = "no", !.service = FALSE, !.thresh = 3],
         [S(<<H("allreduce", <<2>>, 1, 2), H("allreduce", <<1>>, 1, 3), H("allgather", <<2>>, 4, 5)>>)
            EXCEPT !.window = 2],
         [S(<<H("allgather", <<1>>, 1, 2), In(H("allgather", <<1>>, 1, 3)), H("reducescatter", <<1>>, 1, 4),
              In(H("allreduce", <<1>>, 1, 5))>>) EXCEPT !.n = 3],
         S(<<[H("bcast", <<1>>, 1, 1) EXCEPT !.dt = "int8"], [H("allreduce", <<1>>, 1, 2) EXCEPT !.fn = "avg"],
             [H("allreduce", <<1>>, 1, 2) EXCEPT !.mem = "managed"], [H("allgather", <<1>>, 1, 2) EXCEPT !.dt = "user"],
             H("alltoall", <<1>>, 1, 2)>>),
         [S(SharpOps) EXCEPT !.fail = Both("do", 1), !.int8 = TRUE],
         [S(<<H("allreduce", <<1>>, 1, 2), H("allreduce", <<1>>, 3, 4)>>) EXCEPT !.fail = {<<0, "do", 1>>}],
         [S(<<H("allgather", <<1>>, 1, 2)>>) EXCEPT !.fail = Both("reg", 1)],
         S(<<In(H("reducescatter", <<1>>, 1, 2)), H("barrier", <<1>>, 1, 1)>>),
         [S(SharpOps) EXCEPT !.per_team = TRUE, !.internal = "no", !.service = FALSE],
         [S(<<H("allgather", <<1>>, 1, 2)>>) EXCEPT !.sat = FALSE],
         [S(SharpOps) EXCEPT !.n = 1], [S(SharpOps) EXCEPT !.ppn = 2],
         [S(SharpOps) EXCEPT !.ppn = 2, !.per_team = TRUE] }
  \cup { [S(SharpOps) EXCEPT !.fail = f, !.per_team = p] : p \in BOOLEAN,
         f \in {Both(what, 0) : what \in {"mpool", "topo", "init", "caps", "rcache", "progress",
                                         "map", "ttopo", "comm"}} }
  \cup { [S(SharpOps) EXCEPT !.fail = {<<1, what, 0>>}] : what \in {"topo", "init", "comm"} }

(* CL doca_urom and the plugin on the DPU: hosts with one and with two       *)
(* threads per process, a failure of every step, two collectives at a time   *)
(* (Busy) and two hosts on the queue of one thread (Shared).                 *)
U(tpp, threads, ops) ==
    [kind |-> "urom", hosts |-> 1, tpp |-> tpp, threads |-> threads, list |-> 3, ppw |-> 2,
     ops |-> [h \in {0} |-> ops], window |-> 1, fail |-> {}, teardown |-> TRUE, ready |-> FALSE]
Busy(list, ops) == [U(1, 1, ops) EXCEPT !.window = 2, !.list = list, !.ready = TRUE]
Shared(a, b) ==
    [U(1, 1, a) EXCEPT !.hosts = 2, !.ops = [h \in 0 .. 1 |-> IF h = 0 THEN a ELSE b],
                       !.list = 4, !.ready = TRUE, !.teardown = FALSE]
UromScenarios ==
    { U(1, 1, <<"allreduce", "allreduce">>), U(1, 1, <<"alltoall", "alltoall">>),
      U(2, 2, <<>>), [U(2, 2, <<"allreduce">>) EXCEPT !.ready = TRUE] }
  \cup { [U(1, 1, <<"allreduce">>) EXCEPT !.fail = {<<0, f, 0>>}] :
         f \in {"dev", "pe", "service", "plugin", "worker", "buffer", "domain", "lib", "dc", "thread",
                "ctx", "submit"} }
  \cup { [U(1, 1, <<"allreduce", "allreduce">>) EXCEPT !.fail = {<<0, f, 1>>}] : f \in {"post", "run"} }
  \cup { [U(2, 2, <<>>) EXCEPT !.fail = {<<0, f, 0>>}] : f \in {"prepare", "run"} }
  \cup { Busy(4, <<"allreduce", "allreduce">>), Busy(3, <<"allreduce", "alltoall">>),
         [Busy(4, <<"allreduce", "allreduce">>) EXCEPT !.fail = {<<0, "submit", 1>>}],
         [U(1, 1, <<"allreduce", "alltoall">>) EXCEPT !.ready = TRUE],
         [U(2, 2, <<"allreduce">>) EXCEPT !.ready = TRUE, !.fail = {<<0, "part", 1>>}],
         [U(1, 1, <<"allreduce", "allreduce">>) EXCEPT !.ready = TRUE, !.fail = {<<0, "prepare", 1>>}],
         Shared(<<"allreduce">>, <<"allreduce">>),
         [Shared(<<"allreduce">>, <<"allreduce">>) EXCEPT !.fail = {<<0, "run", 1>>}] }

(* Alltoalls that reuse the slots, with buffers that stay, change or change  *)
(* size, batches and passages, a barrier per operation, and block sizes that *)
(* do not divide the number of processes per node.                           *)
B(s, r, z) == [send |-> s, recv |-> r, size |-> z]
Same(n) == [i \in 1 .. n |-> [l \in 0 .. 2 |-> B(1, 1, 8)]]
Changed == <<[l \in 0 .. 2 |-> B(1, 1, 8)],
             [l \in 0 .. 2 |-> IF l = 1 THEN B(2, 2, 8) ELSE B(1, 1, 8)]>>
Back == Changed \o <<Changed[1]>>
Resized == <<[l \in 0 .. 2 |-> B(1, 1, 8)], [l \in 0 .. 2 |-> B(1, 1, 16)]>>
A2(nodes, ppn, block, bufs) ==
  [kind |-> "alltoall", nodes |-> nodes, ppn |-> ppn, block |-> block, regular |-> TRUE,
   shape |-> "square", batch |-> 1, serial |-> 1, passages |-> 1, chunks |-> 2,
   barrier |-> FALSE, late |-> {<<0, 1>>}, bufs |-> bufs]

AlltoallScenarios ==
    { A2(2, 2, 0, Back), A2(2, 2, 0, Resized),
      [A2(2, 2, 1, Same(1)) EXCEPT !.batch = 2, !.serial = 2, !.chunks = 1],
      [A2(2, 2, 0, Same(2)) EXCEPT !.barrier = TRUE],
      [A2(2, 2, 3, Same(1)) EXCEPT !.regular = FALSE] }

(* All GPUs on one switch, or four in a square, whose diagonals need a proxy.*)
Switch(n, w) == [gpu |-> [r \in 0 .. n - 1 |-> r], switches |-> {n},
                 links |-> [d \in 0 .. n |-> IF d = n THEN <<>> ELSE [i \in 1 .. w |-> n]]]
Square == [gpu |-> [r \in 0 .. 3 |-> r], switches |-> {},
           links |-> [d \in 0 .. 3 |-> <<(d + 1) % 4, (d + 3) % 4>>]]
O(alg, counts) ==
  [alg |-> alg, counts |-> counts, chunks |-> 1, rings |-> 1, root |-> 0, inplace |-> FALSE,
   members |-> <<>>, tag |-> 0, buf |-> [i \in DOMAIN counts |-> [src |-> 1, dst |-> 2]]]
C(n, ops) ==
  [kind |-> "cuda", n |-> n, slots |-> 1, chunks |-> 1, create |-> FALSE, shm |-> TRUE,
   blocking |-> FALSE, fabric |-> Switch(n, 1), ops |-> ops]

CudaScenarios ==
    { C(3, <<O("aglinear", <<2, 1, 0>>)>>),
      C(3, <<O("rslinear", <<2, 1, 0>>)>>),
      C(3, <<[O("agring", <<2, 1, 1>>) EXCEPT !.rings = 2]>>),
      [C(4, <<[O("agring", <<2, 1, 1, 1>>) EXCEPT !.inplace = TRUE]>>) EXCEPT !.fabric = Square],
      C(3, <<O("rsring", <<2, 1, 1>>)>>),
      C(2, <<[O("aglinear", <<2, 1>>) EXCEPT !.inplace = TRUE], O("agring", <<2, 1>>)>>),
      C(2, <<O("bcast", <<3, 0>>), O("rslinear", <<1, 2>>)>>),
      C(2, <<O("alltoallv", <<1, 1>>), O("alltoallv", <<1, 1>>)>>),
      C(2, <<O("alltoallv", <<1, 1>>),
             [O("alltoallv", <<1, 1>>) EXCEPT !.buf = [i \in 1 .. 2 |-> [src |-> 3, dst |-> 2]]]>>),
      [C(2, <<[O("bcast", <<1, 0>>) EXCEPT !.root = 1], O("aglinear", <<1, 1>>), O("bcast", <<1, 0>>)>>)
          EXCEPT !.fabric = Switch(2, 1)],
      [C(4, <<O("alltoallv", <<1, 1, 1, 1>>)>>) EXCEPT !.fabric = Square],
      [C(2, <<[O("agring", <<1, 1>>) EXCEPT !.chunks = 2], O("agring", <<0, 0>>)>>)
          EXCEPT !.chunks = 2, !.fabric = Switch(2, 4)],
      [C(2, <<[O("bcast", <<2, 0>>) EXCEPT !.root = 1], O("bcast", <<1, 0>>),
              O("aglinear", <<1, 1>>)>>) EXCEPT !.blocking = TRUE, !.slots = 2],
      [C(4, <<[O("bcast", <<1, 0, 0, 0>>) EXCEPT !.members = <<0, 1>>],
              [O("bcast", <<1, 0, 0, 0>>) EXCEPT !.members = <<2, 3>>, !.root = 2]>>)
          EXCEPT !.slots = 2],
      [C(3, <<O("bcast", <<1, 0, 0>>)>>) EXCEPT !.create = TRUE],
      [C(3, <<O("bcast", <<1, 0, 0>>)>>) EXCEPT !.create = TRUE, !.shm = FALSE] }

RC == INSTANCE Rccl WITH Scenarios <- RcclScenarios
SH == INSTANCE Sharp WITH Scenarios <- SharpScenarios
UR == INSTANCE Urom WITH Scenarios <- UromScenarios
A2A == INSTANCE Mlx5Alltoall WITH Scenarios <- AlltoallScenarios
CU == INSTANCE Cuda WITH Scenarios <- CudaScenarios
OInit == Init \/ RC!Init \/ SH!Init \/ UR!Init \/ CU!Init \/ A2A!Init
ONext == Next \/ RC!Next \/ SH!Next \/ UR!Next \/ CU!Next \/ A2A!Next
OSpec == OInit /\ [][ONext]_vars /\ Fairness /\ RC!Fairness /\ SH!Fairness
           /\ UR!Fairness /\ CU!Fairness /\ A2A!Fairness

\* What a device, a library, the switches or the DPU report as complete is
\* complete: the buffers hold the result, although slots, scratch and cached
\* keys are used again, or every part of the collective is over on the DPU
\* (event_collective_progress, ucc_tl_sharp_collective_progress,
\* ucc_cl_doca_urom_coll_full_progress).  It holds as far as each transport can
\* promise it: not after a collective that failed or was refused on some
\* processes only, not for SHARP's reduce-scatter in place, not for an alltoall
\* that went by the buffers of an operation before the last, and on the DPU for
\* one collective at a time of each host, whose worker could prepare it and
\* whose queue element was filled before a thread took it.
AllDelivered ==
    /\ Delivered /\ RC!Delivered /\ SH!Delivered
    /\ UR!Delivered /\ CU!Delivered /\ A2A!Delivered

\* Every handle is released once, by the cleanup labels as by the destruction,
\* except for those each transport's Released and Unwound name: nccl's unique
\* id, the SHARP context and cache of a failed setup (twice) and of a team with
\* the user's OOB (never), the exported buffer of doca_urom; on the DPU
\* commands are answered once and queue elements are neither lost nor
\* duplicated (team_destroy, the epilogs and cleanups, find_qe_slot).
AllReleased ==
    /\ Released /\ RC!Released /\ SH!Released
    /\ UR!AnsweredOnce /\ UR!ElementsKept /\ UR!Unwound

\* No block is written before its receiver has entered the alltoall; the
\* assertions on TL cuda's slots, handles and events hold, unless two roots
\* claim a slot or other memory is published in one at a time when the code
\* lets them (Cuda's Asserted); no slot or handle stays in use and the topology
\* is usable (get_sync_root, unmap_memhandle, ucc_tl_cuda_team_topo_create).
ResourcesKept == A2A!NotEarly /\ CU!Asserted /\ CU!Released /\ CU!Topology

\* Teams, collectives and teardown all come to an end, unless a step failed on
\* some processes only and the others wait for them, a thread of the DPU ended
\* with elements of others in its queue, or an assertion of TL cuda failed
\* (Over, Settled, Failed).
AllComplete == <>(/\ (Ours => Over) /\ (RC!Ours => RC!Over)
                  /\ (SH!Ours => SH!Over) /\ (UR!Ours => UR!Settled)
                  /\ (CU!Ours => CU!AllDone \/ CU!Failed) /\ (A2A!Ours => A2A!Over))
=============================================================================
