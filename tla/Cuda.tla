-------------------------------- MODULE Cuda --------------------------------
(* TL cuda (components/tl/cuda): the collectives of one node over the GPUs'   *)
(* memory and a shared memory segment.  The segment holds, for every slot     *)
(* (coll_id), the sequence number of the collective that owns it              *)
(* (sync_state), a sense reversing barrier and, per rank, how many steps it   *)
(* has done and which memory it publishes.  Copies and reductions run on an   *)
(* executor and end at any time after they are posted.                        *)
(*                                                                            *)
(* A scenario: n ranks, slots = max_concurrent, fabric (CudaTopo), and the    *)
(* collectives in the order in which every member posts them (blocking: each  *)
(* after the one before is complete on the rank): alg; counts[b]              *)
(* the blocks in units of a scratch half, so a block of 2 takes two           *)
(* fragments; chunks and rings of the ring algorithms; root; inplace; members *)
(* and tag (active set); buf[r], the allocations the source and destination   *)
(* of rank r are in.  create: the team is created and destroyed too, shm:     *)
(* rank 0 gets the segment.                                                   *)
(*                                                                            *)
(* A value is the set of the contributions in it, <<collective, rank, piece>>;*)
(* a piece is <<block, fragment, chunk, ring>>.                               *)
EXTENDS CudaTopo, TLC

CONSTANT Scenarios

VARIABLES sc, rank, wire

vars == <<sc, rank, wire>>

Ours == sc.kind = "cuda"

Ranks == 0 .. sc.n - 1
Ops == DOMAIN sc.ops
Op(o) == sc.ops[o]
ActiveSet(o) == Op(o).members # <<>>
Members(o) == IF ActiveSet(o) THEN ToSet(Op(o).members) ELSE Ranks
Root(o) == IF Op(o).alg = "bcast" THEN Op(o).root ELSE 0
NumFrags(o) == Max(ToSet(Op(o).counts))
Frags(o, b) == 0 .. Op(o).counts[b + 1] - 1
Rings(o) == 0 .. Op(o).rings - 1
Task(r, o) == rank[r].task[o]

-----------------------------------------------------------------------------
(* Cells of the GPUs' memory and the values in them.  The source of a rank is *)
(* the user's again once its collective is complete.                          *)
Src(r, o, p) == <<"src", r, o, p>>
Dst(r, o, p) == <<"dst", r, o, p>>
Scratch(r, o, half, i, g) == <<"scratch", r, Task(r, o).slot, half, i, g>>

Contribution(r, o, p) == <<o, r, p>>
Value(cell) ==
    IF cell[1] = "src"
    THEN IF rank[cell[2]].task[cell[3]].stage = "done" THEN {"reused"}
         ELSE {Contribution(cell[2], cell[3], cell[4])}
    ELSE IF cell \in DOMAIN wire.mem THEN wire.mem[cell] ELSE {}

(* A copy or reduction: what ends up in cell to is everything in from.        *)
Move(to, from) == [to |-> to, from |-> from]
Moved(moves) == [c \in {m.to : m \in moves} |->
                    UNION {UNION {Value(f) : f \in m.from} : m \in {x \in moves : x.to = c}}]

Peers(r, o) == Members(o) \ {r}

(* tl_cuda_ring.h: rank r's neighbours and blocks on ring g.                  *)
RingOf(g) == wire.topo.rings[g + 1]
PosOn(r, g) == CHOOSE k \in 0 .. sc.n - 1 : RingOf(g)[k + 1] = r
At(g, k) == RingOf(g)[(k % sc.n) + 1]
SendTo(r, g) == At(g, PosOn(r, g) + 1)
RecvFrom(r, g) == At(g, PosOn(r, g) - 1 + sc.n)
SendBlock(r, g, step) == At(g, PosOn(r, g) + sc.n - step)
RecvBlock(r, g, step) == At(g, PosOn(r, g) + sc.n - step - 1)

StepOf(r, o, c) ==
    IF Op(o).alg = "alltoallv" THEN Task(r, o).step ELSE wire.step[r][Task(r, o).slot][c]
PeerStep(r, o, c, p) == wire.step[p][Task(r, o).slot][c]

-----------------------------------------------------------------------------
(* The work of a step: a sequence of executor tasks, each a set of moves.     *)

(* allgatherv_linear: fragment s to the scratch of every peer, fragment s - 1 *)
(* from the own scratch; the own block at once when not in place, from which  *)
(* the later fragments are sent.                                              *)
AllgathervLinear(r, o, s) ==
    LET Piece(b, f) == <<b, f, 0, 0>>
        own == IF s = 0 \/ Op(o).inplace THEN Src(r, o, Piece(r, s)) ELSE Dst(r, o, Piece(r, s))
        send == {Move(Scratch(p, o, s % 2, r, 0), {own}) :
                    p \in {q \in Peers(r, o) : s \in Frags(o, r)}}
        all == {Move(Dst(r, o, Piece(r, f)), {Src(r, o, Piece(r, f))}) : f \in Frags(o, r)}
        take == {Move(Dst(r, o, Piece(p, s - 1)), {Scratch(r, o, (s + 1) % 2, p, 0)}) :
                    p \in {q \in Peers(r, o) : s - 1 \in Frags(o, q)}}
    IN  IF s = 0 THEN <<send>> \o (IF Op(o).inplace THEN <<>> ELSE <<all>>)
        ELSE IF s = NumFrags(o) THEN <<take>> ELSE <<send, take>>

(* reduce_scatterv_linear: the peers' blocks to their scratch, one slot per   *)
(* other rank, and the own block of the step before reduced from all slots;   *)
(* work of size zero is not posted.                                           *)
ReduceScattervLinear(r, o, s) ==
    LET Piece(b, f) == <<b, f, 0, 0>>
        copy == {Move(Scratch(p, o, s % 2, IF r < p THEN r ELSE r - 1, 0), {Src(r, o, Piece(p, s))}) :
                    p \in {q \in Peers(r, o) : s \in Frags(o, q)}}
        reduce == IF s > 0 /\ s - 1 \in Frags(o, r)
                  THEN {Move(Dst(r, o, Piece(r, s - 1)),
                             {Src(r, o, Piece(r, s - 1))}
                             \cup {Scratch(r, o, (s + 1) % 2, i, 0) : i \in 0 .. sc.n - 2})}
                  ELSE {}
    IN  SelectSeq(<<IF s < NumFrags(o) THEN copy ELSE {}, reduce>>, LAMBDA w : w # {})

RingSteps == IF sc.n = 2 THEN 2 ELSE sc.n - 1

(* allgatherv_ring: every step hands a block to the next rank's scratch and   *)
(* keeps a copy; the last step takes the block before it directly from the    *)
(* scratch of the rank behind.                                                *)
AllgathervRing(r, o, c, s) ==
    LET f == s \div RingSteps
        fs == s % RingSteps
        Have(b) == f \in Frags(o, b)
        Rem(g) ==
            LET b == SendBlock(r, g, fs)
                last == RecvBlock(r, g, fs)
            IN  IF fs = RingSteps - 1
                THEN IF sc.n = 2 \/ ~Have(last) THEN {}
                     ELSE {Move(Dst(r, o, <<last, f, c, g>>),
                                {Scratch(RecvFrom(r, g), o, (s + 1) % 2, c, g)})}
                ELSE IF ~Have(b) THEN {}
                ELSE {Move(Scratch(SendTo(r, g), o, s % 2, c, g),
                           {IF fs = 0 THEN Src(r, o, <<b, f, c, g>>)
                            ELSE Scratch(r, o, (s + 1) % 2, c, g)})}
        Loc(g) ==
            LET b == SendBlock(r, g, fs)
            IN  IF ~Have(b) \/ (fs = 0 /\ Op(o).inplace) THEN {}
                ELSE {Move(Dst(r, o, <<b, f, c, g>>),
                           {IF fs = 0 THEN Src(r, o, <<b, f, c, g>>)
                            ELSE Scratch(r, o, (s + 1) % 2, c, g)})}
        rem == UNION {Rem(g) : g \in Rings(o)}
        loc == UNION {Loc(g) : g \in Rings(o)}
    IN  (IF fs = RingSteps - 1 /\ sc.n = 2 THEN <<>> ELSE <<rem>>)
        \o (IF fs = 0 /\ Op(o).inplace THEN <<>> ELSE <<loc>>)

(* reduce_scatterv_ring: the partial sum in the scratch of the rank behind    *)
(* plus the own contribution, to the own scratch and at last to the result.   *)
ReduceScattervRing(r, o, s) ==
    LET f == s \div sc.n
        fs == s % sc.n
        Work(g) ==
            LET b == RecvBlock(r, g, fs)
                p == <<b, f, 0, g>>
                mine == Scratch(r, o, s % 2, 0, g)
                theirs == Scratch(RecvFrom(r, g), o, (s + 1) % 2, 0, g)
            IN  IF f \notin Frags(o, b) THEN {}
                ELSE IF fs = 0 THEN {Move(mine, {Src(r, o, p)})}
                ELSE {Move(IF fs = sc.n - 1 THEN Dst(r, o, p) ELSE mine, {Src(r, o, p), theirs})}
        work == UNION {Work(g) : g \in Rings(o)}
    IN  IF work = {} THEN <<>> ELSE <<work>>

(* bcast_linear: the root fills its scratch, the others read it.              *)
Bcast(r, o, s) ==
    LET p == <<0, s, 0, 0>>
        shared == Scratch(Root(o), o, s % 2, 0, 0)
        some == s \in Frags(o, 0)
    IN  IF r = Root(o) THEN <<IF some THEN {Move(shared, {Src(r, o, p)})} ELSE {}>>
        ELSE <<IF some THEN {Move(Dst(r, o, p), {shared})} ELSE {}>>

(* alltoallv_ce: every block from the memory of its source, over the links    *)
(* the rank has, and the blocks it is the proxy of; one executor task per     *)
(* copy in the code, here one for each of the two groups.                     *)
Direct(i, j) == IsDirect(wire.topo.matrix, i, j)
Proxied(r) == {x \in ToSet(wire.topo.proxies) : x.proxy = r}
AlltoallvCe(r, o) ==
    LET Take(i, j) == {Move(Dst(j, o, <<i, f, 0, 0>>), {Src(i, o, <<j, f, 0, 0>>)}) : f \in Frags(o, i)}
        own == UNION {Take(i, r) : i \in {q \in Ranks : Direct(r, q)}}
        others == UNION {Take(x.src, x.dst) : x \in Proxied(r)}
    IN  SelectSeq(<<own, others>>, LAMBDA w : w # {})

NumSteps(o) ==
    CASE Op(o).alg \in {"aglinear", "rslinear"} -> NumFrags(o) + 1
      [] Op(o).alg = "agring" -> RingSteps * NumFrags(o)
      [] Op(o).alg = "rsring" -> sc.n * NumFrags(o)
      [] Op(o).alg = "bcast" -> Max({NumFrags(o), 1})
      [] OTHER -> 1

WorkOf(r, o, c, s) ==
    CASE Op(o).alg = "aglinear" -> AllgathervLinear(r, o, s)
      [] Op(o).alg = "rslinear" -> ReduceScattervLinear(r, o, s)
      [] Op(o).alg = "agring" -> AllgathervRing(r, o, c, s)
      [] Op(o).alg = "rsring" -> ReduceScattervRing(r, o, s)
      [] Op(o).alg = "bcast" -> Bcast(r, o, s)
      [] OTHER -> AlltoallvCe(r, o)

-----------------------------------------------------------------------------
(* Whose steps rank r must wait for before it starts step s of chunk c.       *)
Reached(r, o, c, s, peers) == \A p \in peers : PeerStep(r, o, c, p) >= s

(* The ring neighbours; before the first step of a fragment also the rank two *)
(* ahead, which reads the next one's scratch, before the last the rank two    *)
(* behind.                                                                    *)
AllgathervPeersReady(r, o, c, s) ==
    LET fs == s % RingSteps
    IN  \A g \in Rings(o) :
            /\ Reached(r, o, c, s, {SendTo(r, g), RecvFrom(r, g)})
            /\ fs = 0 => Reached(r, o, c, s, {SendTo(SendTo(r, g), g)})
            /\ fs # 0 /\ fs = RingSteps - 1 =>
                   Reached(r, o, c, s, {RecvFrom(RecvFrom(r, g), g)})

ReduceScattervPeersReady(r, o, s) ==
    \A g \in Rings(o) : Reached(r, o, 0, s, {SendTo(r, g), RecvFrom(r, g)})

(* The root may be one step ahead of the slowest reader (two halves); a       *)
(* reader waits for the root.                                                 *)
BcastReady(r, o, s) ==
    IF r = Root(o) THEN Reached(r, o, 0, s - 1, Members(o))
    ELSE Reached(r, o, 0, s + 1, {Root(o)})

PeersReady(r, o, c, s) ==
    CASE Op(o).alg \in {"aglinear", "rslinear"} -> Reached(r, o, 0, s, Ranks)
      [] Op(o).alg = "agring" -> AllgathervPeersReady(r, o, c, s)
      [] Op(o).alg = "rsring" -> ReduceScattervPeersReady(r, o, s)
      [] Op(o).alg = "bcast" -> BcastReady(r, o, s)
      [] OTHER -> TRUE

-----------------------------------------------------------------------------
(* The sense reversing barrier of a slot.                                     *)
BarrierStart(W, r, b) ==
    LET B == W.bar[b]
    IN  IF B.count = B.size - 1
        THEN [W EXCEPT !.bar[b] = [B EXCEPT !.state[r] = "started", !.count = 0,
                                            !.sense = B.local[r]]]
        ELSE [W EXCEPT !.bar[b] = [B EXCEPT !.state[r] = "started", !.count = @ + 1]]

BarrierOver(r, b) == wire.bar[b].sense = wire.bar[b].local[r]

BarrierPassed(W, r, b) ==
    [W EXCEPT !.bar[b].state[r] = "ok", !.bar[b].local[r] = 1 - @]

(* barrier_init_root: everything by the root, the own entry by a peer.        *)
BarrierInit(W, r, o, b) ==
    LET mine == [W.bar[b] EXCEPT !.state[r] = "ok", !.local[r] = 1]
    IN  [W EXCEPT !.bar[b] = IF r = Root(o)
                             THEN [mine EXCEPT !.size = Cardinality(Members(o)), !.count = 0, !.sense = 0]
                             ELSE mine]

(* The root that sees the slot free claims it in a second step, before it does *)
(* anything else; everybody waits for the claim, and for the own part of the   *)
(* barrier to be over.                                                         *)
Claiming(r) == \E o \in Ops : Task(r, o).stage = "claim"
SeesFree(r, o) == r = Root(o) /\ Task(r, o).stage = "sync" /\ wire.state[Task(r, o).slot] = 0

GetSync(W, r, o) ==
    /\ W.state[Task(r, o).slot] = Task(r, o).seq
    /\ W.bar[Task(r, o).slot].state[r] = "ok"

(* The root gives the slot back; ucc_assert(state == seq_num).                *)
PutSync(W, r, o) ==
    LET t == Task(r, o)
    IN  IF r # Root(o) THEN W
        ELSE [W EXCEPT !.state[t.slot] = 0,
                       !.bad = IF W.state[t.slot] = t.seq THEN @ ELSE @ \cup {"slot"},
                       !.bar[t.slot].tag = IF Op(o).alg = "bcast" THEN <<>> ELSE @]

-----------------------------------------------------------------------------
(* The cache of opened memory handles, one per peer: reference counts by      *)
(* allocation.                                                                *)
DirectPeers(r) == {p \in Ranks \ {r} : Direct(r, p)}
ProxyDsts(r) == {x.dst : x \in Proxied(r)}

MapMemhandle(W, r, p, buf) == [W EXCEPT !.refs[r][p][buf] = @ + 1]

(* unmap looks the region up by the address it is given and asserts that it   *)
(* is there and in use.                                                       *)
UnmapMemhandle(W, r, p, buf) ==
    IF W.refs[r][p][buf] >= 1 THEN [W EXCEPT !.refs[r][p][buf] = @ - 1]
    ELSE [W EXCEPT !.bad = @ \cup {"unmap"}]

(* What the peers published in the slot: for the sources of all direct peers  *)
(* and the destinations of the ranks r is a proxy for.                        *)
ForPublished(W, r, o, F(_, _, _, _)) ==
    LET slot == Task(r, o).slot
        srcs == FoldSet(LAMBDA p, V : F(V, r, p, V.pub[p][slot].src), W, DirectPeers(r))
    IN  FoldSet(LAMBDA p, V : F(V, r, p, V.pub[p][slot].dst), srcs, ProxyDsts(r))

ScratchBuf == 0

SetupStart(W, r, o) ==
    LET slot == Task(r, o).slot
        reset == IF Op(o).alg = "alltoallv"
                 THEN [W EXCEPT !.pub[r][slot] = Op(o).buf[r + 1]]
                 ELSE [W EXCEPT !.step[r][slot] = [c \in DOMAIN @ |-> 0]]
    IN  BarrierStart(reset, r, slot)

-----------------------------------------------------------------------------
(* A team that exists used barrier 0 once, at its creation.                   *)
InitState(s) ==
    LET R == 0 .. s.n - 1
        S == 0 .. 2 * s.slots - 1
        m == Matrix(s.fabric)
        used(i) == i = 0 /\ ~s.create
        buffers == {ScratchBuf} \cup UNION {UNION {{s.ops[o].buf[r + 1].src, s.ops[o].buf[r + 1].dst} : r \in R} :
                          o \in DOMAIN s.ops}
        idle == [slot |-> 0, seq |-> 0, stage |-> "idle", step |-> 0,
                 exec |-> [c \in 0 .. s.chunks - 1 |-> <<>>]]
    IN  /\ rank = [r \in R |-> [task |-> [o \in DOMAIN s.ops |-> idle], seq |-> 1, active |-> 1,
                                team |-> IF s.create THEN "new" ELSE "ready"]]
        /\ wire = [topo |-> [matrix |-> m, proxies |-> InitProxies(m), rings |-> InitRings(m)],
                   state |-> [i \in S |-> 0],
                   bar |-> [i \in S |-> [size |-> s.n, count |-> 0, tag |-> <<>>,
                                         sense |-> IF used(i) THEN 1 ELSE 0,
                                         state |-> [r \in R |-> "ok"],
                                         local |-> [r \in R |-> IF used(i) THEN 0 ELSE 1]]],
                   step |-> [r \in R |-> [i \in S |-> [c \in 0 .. s.chunks - 1 |-> 0]]],
                   pub |-> [r \in R |-> [i \in S |-> [src |-> 0, dst |-> 0]]],
                   refs |-> [r \in R |-> [p \in R |-> [b \in buffers |-> 0]]],
                   ids |-> [r \in R |-> IF s.create THEN "none" ELSE "in"],
                   events |-> [r \in R |-> ~s.create],
                   mem |-> <<>>, bad |-> {}]

(* The class constructor: rank 0 creates the segment with its barriers; the   *)
(* ids and the failure to create it are exchanged out of band.                *)
TeamInit(r) ==
    /\ rank[r].team = "new"
    /\ rank' = [rank EXCEPT ![r].team = "oob"]
    /\ wire' = [wire EXCEPT !.ids[r] = IF r = 0 /\ ~sc.shm THEN "failed" ELSE "in"]
    /\ UNCHANGED sc

(* create_test: once the ids are there, the scratch of the direct peers is
   mapped and the segment attached; the event handles are published before the
   barrier, behind which the peers' are opened.                             *)
CreateTest(r) ==
    /\ \/ /\ rank[r].team = "oob"
          /\ \A p \in Ranks : wire.ids[p] # "none"
          /\ LET mapped == FoldSet(LAMBDA p, W : MapMemhandle(W, r, p, ScratchBuf),
                                   wire, DirectPeers(r))
             IN  IF wire.ids[0] = "failed"
                 THEN /\ rank' = [rank EXCEPT ![r].team = "failed"]
                      /\ wire' = mapped
                 ELSE /\ rank' = [rank EXCEPT ![r].team = "barrier"]
                      /\ wire' = BarrierStart([mapped EXCEPT !.events[r] = TRUE], r, 0)
       \/ /\ rank[r].team = "barrier"
          /\ BarrierOver(r, 0)
          /\ rank' = [rank EXCEPT ![r].team = "ready"]
          /\ wire' = [BarrierPassed(wire, r, 0) EXCEPT
                        !.bad = IF \A p \in Ranks : wire.events[p] THEN @ ELSE @ \cup {"event"}]
    /\ UNCHANGED sc

Mine(r) == {o \in Ops : r \in Members(o)}

Destroy(r) ==
    /\ sc.create
    /\ rank[r].team \in {"ready", "failed"}
    /\ rank[r].team = "ready" => \A o \in Mine(r) : Task(r, o).stage = "done"
    /\ rank' = [rank EXCEPT ![r].team = "destroyed"]
    /\ wire' = FoldSet(LAMBDA p, W : UnmapMemhandle(W, r, p, ScratchBuf), wire, DirectPeers(r))
    /\ UNCHANGED sc

Chunks(o) == IF Op(o).alg = "agring" THEN 0 .. Op(o).chunks - 1 ELSE {0}

(* ucc_tl_cuda_task_init and the start of the algorithm.  Every rank counts   *)
(* the collectives it takes part in, those of active sets apart.  An          *)
(* allgather or reduce scatter of nothing is complete at once.                *)
Post(r, o) ==
    LET active == ActiveSet(o)
        seq == IF active THEN rank[r].active ELSE rank[r].seq
        none == NumFrags(o) = 0 /\ Op(o).alg \notin {"bcast", "alltoallv"}
        stage == IF none THEN "done" ELSE IF active THEN "find" ELSE "sync"
    IN  /\ r \in Members(o)
        /\ rank[r].team = "ready"
        /\ Task(r, o).stage = "idle" /\ ~Claiming(r)
        /\ sc.blocking => \A e \in 1 .. o - 1 : r \in Members(e) => Task(r, e).stage = "done"
        /\ \A e \in 1 .. o - 1 : r \in Members(e) => Task(r, e).stage # "idle"
        /\ rank' = [rank EXCEPT ![r].task[o].seq = seq,
                                ![r].task[o].slot = IF active THEN 0 ELSE seq % sc.slots,
                                ![r].task[o].stage = stage,
                                ![r].active = IF active THEN @ + 1 ELSE @,
                                ![r].seq = IF active THEN @ ELSE @ + 1]
        /\ UNCHANGED <<sc, wire>>

Key(o) == <<Op(o).tag, Op(o).members>>
Pool == sc.slots .. 2 * sc.slots - 1

(* An active set uses a barrier of the second half: the root takes the first  *)
(* free one by its tag, the peer looks for the tag.                           *)
FindBarrier(r, o) ==
    LET tag == IF r = Root(o) THEN <<>> ELSE Key(o)
        found == {b \in Pool : wire.bar[b].tag = tag}
    IN  /\ Task(r, o).stage = "find"
        /\ found # {}
        /\ LET b == Min(found)
           IN  /\ rank' = [rank EXCEPT ![r].task[o].slot = b, ![r].task[o].stage = "sync"]
               /\ wire' = BarrierInit([wire EXCEPT !.bar[b].tag = Key(o)], r, o, b)
        /\ UNCHANGED sc

(* A root may find the slot free for a later collective first, when another   *)
(* rank gives it back between two of its polls or several threads poll.       *)
Sync(r, o) ==
    LET t == Task(r, o)
        W == IF t.stage = "sync" THEN wire
             ELSE [wire EXCEPT !.state[t.slot] = t.seq,
                               !.bad = IF wire.state[t.slot] = 0 THEN @ ELSE @ \cup {"claimed"}]
    IN  /\ t.stage \in {"sync", "claim"}
        /\ \/ /\ SeesFree(r, o)
              /\ rank' = [rank EXCEPT ![r].task[o].stage = "claim"]
              /\ UNCHANGED wire
           \/ /\ ~SeesFree(r, o) /\ GetSync(W, r, o)
              /\ rank' = [rank EXCEPT ![r].task[o].stage = "setup"]
              /\ wire' = SetupStart(W, r, o)
           \/ /\ t.stage = "claim" /\ ~GetSync(W, r, o)
              /\ rank' = [rank EXCEPT ![r].task[o].stage = "sync"]
              /\ wire' = W
        /\ UNCHANGED sc

Setup(r, o) ==
    LET t == Task(r, o)
        passed == BarrierPassed(wire, r, t.slot)
    IN  /\ t.stage = "setup"
        /\ BarrierOver(r, t.slot)
        /\ wire' = IF Op(o).alg = "alltoallv" THEN ForPublished(passed, r, o, MapMemhandle) ELSE passed
        /\ rank' = [rank EXCEPT ![r].task[o].stage = "run"]
        /\ UNCHANGED sc

(* A step without work is over at once, the work of another is posted.        *)
StepDone(r, o, c, R, W) ==
    IF Op(o).alg = "alltoallv" THEN /\ rank' = [R EXCEPT ![r].task[o].step = @ + 1]
                                    /\ wire' = W
    ELSE /\ rank' = R
         /\ wire' = [W EXCEPT !.step[r][Task(r, o).slot][c] = @ + 1]

StartStep(r, o, c) ==
    LET s == StepOf(r, o, c)
        work == WorkOf(r, o, c, s)
    IN  /\ Task(r, o).stage = "run"
        /\ Task(r, o).exec[c] = <<>>
        /\ s < NumSteps(o)
        /\ PeersReady(r, o, c, s)
        /\ IF work = <<>> THEN StepDone(r, o, c, rank, wire)
           ELSE /\ rank' = [rank EXCEPT ![r].task[o].exec[c] =
                                [i \in DOMAIN work |-> [moves |-> work[i], done |-> FALSE]]]
                /\ UNCHANGED wire
        /\ UNCHANGED sc

(* The executor runs a posted task.                                           *)
Exec(r, o, c, i) ==
    LET e == Task(r, o).exec[c]
    IN  /\ i \in DOMAIN e /\ ~e[i].done
        /\ rank' = [rank EXCEPT ![r].task[o].exec[c][i] = [moves |-> {}, done |-> TRUE]]
        /\ wire' = [wire EXCEPT !.mem = Moved(e[i].moves) @@ @]
        /\ UNCHANGED sc

ExecOver(r, o, c) == \A i \in DOMAIN Task(r, o).exec[c] : Task(r, o).exec[c][i].done

EndStep(r, o, c) ==
    /\ Task(r, o).exec[c] # <<>>
    /\ ExecOver(r, o, c)
    /\ StepDone(r, o, c, [rank EXCEPT ![r].task[o].exec[c] = <<>>], wire)
    /\ UNCHANGED sc

(* All steps are done: the second barrier.  The root of a broadcast waits for *)
(* the step before the last one first.                                        *)
Barrier(r, o) ==
    /\ Task(r, o).stage = "run"
    /\ \A c \in Chunks(o) : StepOf(r, o, c) = NumSteps(o) /\ Task(r, o).exec[c] = <<>>
    /\ Op(o).alg = "bcast" /\ r = Root(o) => Reached(r, o, 0, NumSteps(o) - 1, Members(o))
    /\ rank' = [rank EXCEPT ![r].task[o].stage = "barrier"]
    /\ wire' = BarrierStart(wire, r, Task(r, o).slot)
    /\ UNCHANGED sc

Finish(r, o) ==
    LET slot == Task(r, o).slot
        passed == BarrierPassed(wire, r, slot)
        unmapped == IF Op(o).alg = "alltoallv" THEN ForPublished(passed, r, o, UnmapMemhandle)
                    ELSE passed
    IN  /\ Task(r, o).stage = "barrier"
        /\ BarrierOver(r, slot)
        /\ wire' = PutSync(unmapped, r, o)
        /\ rank' = [rank EXCEPT ![r].task[o].stage = "done"]
        /\ UNCHANGED sc

Progress(r, o) ==
    /\ Claiming(r) => Task(r, o).stage = "claim"
    /\ \/ FindBarrier(r, o) \/ Sync(r, o) \/ Setup(r, o)
       \/ \E c \in Chunks(o) : StartStep(r, o, c) \/ EndStep(r, o, c)
       \/ Barrier(r, o) \/ Finish(r, o)

AllDone ==
    /\ \A r \in Ranks : rank[r].team = IF sc.create THEN "destroyed" ELSE "ready"
    /\ sc.shm => \A o \in Ops : \A r \in Members(o) : Task(r, o).stage = "done"
(* A rank that fails an assertion aborts: nothing is followed after that.     *)
Failed == wire.bad # {}
Done == (AllDone \/ Failed) /\ UNCHANGED vars

Init == sc \in Scenarios /\ InitState(sc)
Next ==
    /\ Ours
    /\ \/ /\ ~Failed
          /\ \E o \in Ops : \E r \in Members(o) :
              \/ Post(r, o) \/ Progress(r, o)
              \/ \E c \in Chunks(o) : \E i \in DOMAIN Task(r, o).exec[c] : Exec(r, o, c, i)
       \/ ~Failed /\ \E r \in Ranks : TeamInit(r) \/ CreateTest(r) \/ Destroy(r)
       \/ Done

Spec == Init /\ [][Next]_vars

(* Every rank polls its tasks, the executors run.                             *)
Fairness ==
    \A r \in 0 .. 3 :
        WF_vars(/\ Ours /\ ~Failed /\ r \in Ranks
                /\ \/ TeamInit(r) \/ CreateTest(r) \/ Destroy(r)
                   \/ \E o \in Ops :
                        /\ r \in Members(o)
                        /\ \/ Post(r, o) \/ Progress(r, o)
                           \/ \E c \in Chunks(o) : \E i \in DOMAIN Task(r, o).exec[c] :
                                 Exec(r, o, c, i))

FairSpec == Spec /\ Fairness

-----------------------------------------------------------------------------
Pieces(o, b) ==
    {<<b, f, c, g>> : f \in Frags(o, b), c \in Chunks(o),
                      g \in IF Op(o).alg \in {"agring", "rsring"} THEN Rings(o) ELSE {0}}

(* What the destination of rank r must hold.                                  *)
Expected(r, o) ==
    LET In(p, from) == <<Dst(r, o, p), {Contribution(q, o, p) : q \in from}>>
    IN  CASE Op(o).alg \in {"aglinear", "agring"} ->
                 UNION {{In(p, {b}) : p \in Pieces(o, b)} :
                        b \in IF Op(o).inplace THEN Ranks \ {r} ELSE Ranks}
          [] Op(o).alg \in {"rslinear", "rsring"} -> {In(p, Ranks) : p \in Pieces(o, r)}
          [] Op(o).alg = "bcast" ->
                 IF r = Root(o) THEN {} ELSE {In(p, {Root(o)}) : p \in Pieces(o, 0)}
          [] OTHER ->
                 UNION {{<<Dst(r, o, p), {Contribution(q, o, [p EXCEPT ![1] = r])}>> :
                         p \in Pieces(o, q)} : q \in Ranks}

(* A collective that is complete on a rank has delivered: every piece of the  *)
(* destination holds the contributions it must, none of another collective,   *)
(* another fragment or a source the user already got back, although the two   *)
(* halves of the scratch and the slots are used again and again.              *)
Delivered ==
    Ours => \A o \in Ops : \A r \in Members(o) :
        Task(r, o).stage = "done" => \A x \in Expected(r, o) : Value(x[1]) = x[2]

(* Two alltoallv share a slot and some rank publishes other memory in the     *)
(* second: a rank that has not unmapped the first when the root claims the    *)
(* slot again looks for the new handles, which it has not mapped.             *)
Republished ==
    \E o, e \in Ops : o < e /\ Op(o).alg = "alltoallv" /\ Op(e).alg = "alltoallv"
                      /\ (e - o) % sc.slots = 0 /\ Op(o).buf # Op(e).buf

(* Collectives of two roots share a slot: both roots may see it free before    *)
(* one of them claims it (get_sync_root compares and assigns).                 *)
TwoRoots == \E o, e \in Ops : (e - o) % sc.slots = 0 /\ Root(o) # Root(e)
                              /\ ~ActiveSet(o) /\ ~ActiveSet(e) /\ ~sc.blocking

(* The assertions of the code hold: the root that gives a slot back is its    *)
(* owner; a memory handle that is unmapped is mapped and in use, unless other *)
(* memory was published in the slot; an event handle is opened only after its *)
(* owner has published it; and no root claims the slot of another one, unless *)
(* two roots share it.                                                        *)
Asserted ==
    Ours => /\ wire.bad \subseteq {"unmap", "claimed"}
            /\ "unmap" \in wire.bad => Republished
            /\ "claimed" \in wire.bad => TwoRoots

(* When everything is done, every slot is free and no handle is in use.       *)
Released ==
    Ours /\ AllDone =>
        /\ \A i \in DOMAIN wire.state : wire.state[i] = 0 /\ wire.bar[i].count = 0
                                         /\ wire.bar[i].tag = <<>>
        /\ \A r, p \in Ranks : \A b \in DOMAIN wire.refs[r][p] : wire.refs[r][p][b] = 0

(* The team's topology: a proxy for every pair that needs one, rings over     *)
(* links that exist, each used once.                                          *)
Topology ==
    Ours => /\ ProxiesComplete(wire.topo.matrix, wire.topo.proxies)
            /\ RingsFit(wire.topo.matrix, wire.topo.rings)

(* Every collective that every member posts completes on all of them.         *)
Completes == <>(Ours => AllDone \/ Failed)
=============================================================================
