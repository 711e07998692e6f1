-------------------------------- MODULE Rccl --------------------------------
(* TL rccl.  The communicator is built with the team and goes with it;       *)
(* gather, scatter and alltoall are primitives of the library; completion is *)
(* an event only; a rank refuses the types and the in-place forms that the   *)
(* library does not know.                                                    *)
EXTENDS CommLib

CONSTANT Scenarios   \* [kind, n, len, fail, ops]

VARIABLES sc, rank, wire
vars == <<sc, rank, wire>>

Ours == sc.kind = "rccl"
Team == Ranks(sc.n)
Op(i) == sc.ops[i]
(* A step of one rank fails.                                                 *)
Fails(r, what, i) == <<r, what, i>> \in sc.fail

-----------------------------------------------------------------------------
(* The collectives.                                                          *)
alltoall_start(op, r) ==
  <<{Prim("alltoall", 0, "src", 0, "dst", 0, Block(op))}>>
alltoallv_start(op, r) ==
  <<{Send(q, "src", PairAt(op, r, q, LAMBDA a, k : Pair(op, a, k)), Pair(op, r, q)) :
        q \in {q2 \in Team : Pair(op, r, q2) # 0}}
      \cup {Recv(q, "dst", PairAt(op, r, q, LAMBDA a, k : Pair(op, k, a)), Pair(op, q, r)) :
               q \in {q2 \in Team : Pair(op, q2, r) # 0}}>>
allreduce_start(op, r) ==
  <<{Prim("allreduce", 0, IF op.inplace THEN "dst" ELSE "src", 0, "dst", 0, Block(op))}>>
allgather_start(op, r) ==
  <<{Prim("allgather", 0, IF op.inplace THEN "dst" ELSE "src",
          IF op.inplace THEN r * Block(op) ELSE 0, "dst", 0, Block(op))}>>
bcast_start(op, r) ==
  IF op.set = <<>> THEN <<{Prim("broadcast", op.root, "src", 0, "src", 0, Block(op))}>>
  ELSE IF r = op.root
       THEN <<{Send(op.set[k], "src", 0, Block(op)) : k \in {k2 \in DOMAIN op.set : op.set[k2] # r}}>>
       ELSE <<{Recv(op.root, "src", 0, Block(op))}>>
reduce_scatter_start(op, r) ==
  <<{Prim("reducescatter", 0, IF op.inplace THEN "dst" ELSE "src", 0,
          "dst", IF op.inplace THEN r * Block(op) ELSE 0, Block(op))}>>
reduce_start(op, r) ==
  <<{Prim("reduce", op.root, IF op.inplace /\ r = op.root THEN "dst" ELSE "src", 0,
          "dst", 0, Block(op))}>>
barrier_init(op, r) == <<{Prim("allreduce", 0, "bar", 0, "bar", 0, 1)}>>

(* In place, the root's own block is where it belongs in the other buffer.   *)
InRoot(op, r) == op.inplace /\ r = op.root
gather_start(op, r) ==
  <<{Prim("gather", op.root, IF InRoot(op, r) THEN "dst" ELSE "src",
          IF InRoot(op, r) THEN r * Block(op) ELSE 0, "dst", 0, Block(op))}>>
scatter_start(op, r) ==
  <<{Prim("scatter", op.root, "src", 0, IF InRoot(op, r) THEN "src" ELSE "dst",
          IF InRoot(op, r) THEN r * Block(op) ELSE 0, Block(op))}>>

Kept(op, group, copy) == IF op.inplace THEN <<group>> ELSE <<{copy}, group>>
Others(op) == Team \ {op.root}
gatherv_start(op, r) ==
  IF r # op.root THEN <<{Send(op.root, "src", 0, Count(op, r))}>>
  ELSE Kept(op, {Recv(q, "dst", Displ(op, q), Count(op, q)) : q \in Others(op)},
            Copy("src", 0, "dst", Displ(op, r), Count(op, r)))
scatterv_start(op, r) ==
  IF r # op.root THEN <<{Recv(op.root, "dst", 0, Count(op, r))}>>
  ELSE Kept(op, {Send(q, "src", Displ(op, q), Count(op, q)) : q \in Others(op)},
            Copy("src", Displ(op, r), "dst", 0, Count(op, r)))

allgatherv_p2p_start(op, r) ==
  <<(IF Count(op, r) # 0 THEN {Send(q, "src", 0, Count(op, r)) : q \in Team} ELSE {})
      \cup {Recv(q, "dst", Displ(op, q), Count(op, q)) : q \in {q2 \in Team : Count(op, q2) # 0}}>>
MaxCount(op) == CHOOSE m \in {Count(op, q) : q \in Team} : \A q \in Team : m >= Count(op, q)
allgatherv_bcopy_start(op, r) ==
  LET m     == MaxCount(op)
      short == m > Count(op, r)
  IN  (IF short THEN <<{Copy("src", 0, "tmp", m * sc.n, Count(op, r))}>> ELSE <<>>)
        \o <<{Prim("allgather", 0, IF short THEN "tmp" ELSE "src",
                   IF short THEN m * sc.n ELSE 0, "tmp", 0, m)}>>
        \o [k \in 1 .. sc.n |-> {Copy("tmp", (k - 1) * m, "dst", Displ(op, k - 1), Count(op, k - 1))}]
allgatherv_bcast_start(op, r) ==
  <<{Prim("broadcast", q, "src", 0, "dst", Displ(op, q), Count(op, q)) : q \in Team}>>
alg_id_to_init(op, r) ==
  CASE op.alg = "p2p"   -> allgatherv_p2p_start(op, r)
    [] op.alg = "bcopy" -> allgatherv_bcopy_start(op, r)
    [] op.alg = "bcast" -> allgatherv_bcast_start(op, r)
NeedsScratch(op) == op.type = "allgatherv" /\ op.alg = "bcopy"

coll_init(op, r) ==
  CASE op.type = "alltoall"      -> alltoall_start(op, r)
    [] op.type = "alltoallv"     -> alltoallv_start(op, r)
    [] op.type = "allreduce"     -> allreduce_start(op, r)
    [] op.type = "allgather"     -> allgather_start(op, r)
    [] op.type = "allgatherv"    -> alg_id_to_init(op, r)
    [] op.type = "bcast"         -> bcast_start(op, r)
    [] op.type = "reducescatter" -> reduce_scatter_start(op, r)
    [] op.type = "reduce"        -> reduce_start(op, r)
    [] op.type = "barrier"       -> barrier_init(op, r)
    [] op.type = "gather"        -> gather_start(op, r)
    [] op.type = "gatherv"       -> gatherv_start(op, r)
    [] op.type = "scatter"       -> scatter_start(op, r)
    [] op.type = "scatterv"      -> scatterv_start(op, r)

rccl_check_dt_supported(op) == op.dt = "native"
CHECK_INPLACE(op) == ~op.inplace
Supported(op) ==
    /\ op.type \in {"alltoall", "alltoallv", "allgatherv"} => CHECK_INPLACE(op)
    /\ op.type = "allgatherv" => op.dt # "user"
    /\ op.type \notin {"barrier", "allgatherv"} => rccl_check_dt_supported(op)

(* The start functions that make the request in progress, as the user sees   *)
(* it, before they call the library.                                         *)
MarksRequest(op) == op.type \notin {"gatherv", "scatter", "scatterv"}
-----------------------------------------------------------------------------
TeamInit(r) ==
    /\ rank[r].pc = "start"
    /\ wire' = [wire EXCEPT !.oob = @ \cup {r}]
    /\ rank' = [rank EXCEPT ![r].pc = "oob", ![r].held = {"id"}]
    /\ UNCHANGED sc

(* A zero id ends the test with the status of the exchange.                  *)
team_create_test(r) ==
    /\ rank[r].pc = "oob"
    /\ wire.oob = Team
    /\ IF Fails(0, "id", 0) \/ Fails(r, "stream", 0)
       THEN /\ rank' = [rank EXCEPT ![r].pc = IF Fails(0, "id", 0) THEN "idle" ELSE "end",
                                    ![r].held = {}]
            /\ UNCHANGED wire
       ELSE /\ rank' = [rank EXCEPT ![r].pc = "comm", ![r].held = @ \cup {"stream"}]
            /\ wire' = [wire EXCEPT !.init = @ \cup {r}]
    /\ UNCHANGED sc

NoComm(held) == held \ {"stream", "id"}
CommInitRank(r) ==
    /\ rank[r].pc = "comm" /\ wire.init = Team
    /\ rank' = [rank EXCEPT ![r].pc = IF Fails(r, "comm", 0) THEN "end" ELSE "idle",
                            ![r].held = IF Fails(r, "comm", 0) THEN NoComm(@)
                                        ELSE (@ \ {"id"}) \cup {"comm"}]
    /\ UNCHANGED <<sc, wire>>

init_task(r) ==
  LET me == rank[r]
      op == Op(me.i)
      no == Fails(r, "event", me.i) \/ ~Supported(op) \/ (NeedsScratch(op) /\ Fails(r, "scratch", me.i))
  IN  /\ me.pc = "idle" /\ me.i <= Len(sc.ops)
      /\ IF no
         THEN /\ rank' = [rank EXCEPT ![r].i = @ + 1, ![r].res = Append(@, "refused")]
              /\ UNCHANGED wire
         ELSE /\ rank' = [rank EXCEPT ![r].pc = "ready",
                            ![r].held = @ \cup {"task", "event"}
                                          \cup (IF NeedsScratch(op) THEN {"scratch"} ELSE {})]
              /\ wire' = [wire EXCEPT !.mem[r] = Memory(op, sc.len, me.i, r)]
      /\ UNCHANGED sc

collective_sync(i, items) == items \o <<{Mark(i)}>>
Before(items) == SelectSeq(<<items[1]>>, LAMBDA g : \A p \in g : p.k = "copy")
Broken(r) == "comm" \notin rank[r].held \/ Fails(r, "post", rank[r].i)
Empty(op) == op.type = "alltoall" /\ Block(op) = 0

(* A failed post leaves the request with the status the start function gave  *)
(* it; one in progress stays so and cannot be finalized                      *)
(* (ucc_collective_finalize).                                                *)
Post(r) ==
  LET me == rank[r]
      op == Op(me.i)
      go == coll_init(op, r)
  IN  /\ me.pc = "ready"
      /\ \/ /\ Empty(op)
            /\ rank' = [rank EXCEPT ![r].pc = "final", ![r].res = Append(@, "ok")]
            /\ UNCHANGED wire
         \/ /\ ~Empty(op) /\ Broken(r)
            /\ rank' = [rank EXCEPT ![r].pc = IF MarksRequest(op) THEN "stuck" ELSE "final",
                                    ![r].res = Append(@, "failed")]
            /\ wire' = [wire EXCEPT !.stream[r] = @ \o Before(go)]
         \/ /\ ~Empty(op) /\ ~Broken(r)
            /\ rank' = [rank EXCEPT ![r].pc = "posted"]
            /\ wire' = [wire EXCEPT !.stream[r] = @ \o collective_sync(me.i, go)]
      /\ UNCHANGED sc

event_collective_progress(r, i) ==
    IF Fails(r, "test", i) THEN {"failed"} ELSE IF <<r, i>> \in wire.done THEN {"ok"} ELSE {}
Progress(r) ==
    /\ rank[r].pc = "posted"
    /\ \E st \in event_collective_progress(r, rank[r].i) :
         rank' = [rank EXCEPT ![r].pc = "final", ![r].res = Append(@, st)]
    /\ UNCHANGED <<sc, wire>>

Stream ==
    /\ CanAdvance(wire)
    /\ wire' = Advance(wire)
    /\ UNCHANGED <<sc, rank>>

free_task(held) == held \ {"task", "event", "scratch"}
coll_finalize(r) ==
    /\ rank[r].pc = "final"
    /\ rank' = [rank EXCEPT ![r].pc = "idle", ![r].i = @ + 1, ![r].held = free_task(@)]
    /\ UNCHANGED <<sc, wire>>

team_destroy(r) ==
  LET me == rank[r]
  IN  /\ me.pc = "end" \/ (me.pc = "idle" /\ me.i > Len(sc.ops))
      /\ rank' = [rank EXCEPT ![r].pc = "gone",
                    ![r].held = IF "comm" \in me.held THEN @ \ {"stream", "comm"} ELSE @]
      /\ UNCHANGED <<sc, wire>>

-----------------------------------------------------------------------------
Init ==
    /\ sc \in Scenarios
    /\ rank = [r \in Team |-> [pc |-> "start", i |-> 1, held |-> {}, res |-> <<>>]]
    /\ wire = [oob |-> {}, init |-> {}, stream |-> [r \in Team |-> <<>>], done |-> {},
               mem |-> [r \in Team |-> Memory(sc.ops[1], sc.len, 1, r)]]

(* A request that stays in progress, and a rank that waits for one that      *)
(* failed alone.                                                             *)
Apart ==
  \E f \in sc.fail, q \in Team : f[2] # "id" /\ <<q, f[2], f[3]>> \notin sc.fail
Over ==
  \A r \in Team :
    \/ rank[r].pc \in {"gone", "stuck"}
    \/ Apart /\ rank[r].pc \in {"comm", "posted"}
Step(r) == \/ TeamInit(r) \/ team_create_test(r) \/ CommInitRank(r) \/ init_task(r) \/ Post(r)
           \/ Progress(r) \/ coll_finalize(r) \/ team_destroy(r)
Next == Ours /\ ((\E r \in Team : Step(r)) \/ Stream \/ (Over /\ UNCHANGED vars))
Fairness ==
    /\ \A r \in 0 .. 2 : WF_vars(Ours /\ r \in Team /\ Step(r))
    /\ WF_vars(Ours /\ Stream)
Spec == Init /\ [][Next]_vars /\ Fairness

-----------------------------------------------------------------------------
\* A collective that is complete has left in the buffers of the rank what it
\* promises, and nothing else has changed, as long as no collective failed or
\* was refused on some ranks only (the *_start functions of TL rccl).
Delivered ==
  Ours => \A r \in Team :
    /\ rank[r].pc = "final"
    /\ rank[r].res[rank[r].i] = "ok"
    /\ InStep(rank, rank[r].i)
    => LET e == Expected(Op(rank[r].i), sc.n, sc.len, rank[r].i, r)
       IN  wire.mem[r].src = e.src /\ wire.mem[r].dst = e.dst

\* A team that is gone holds no id, stream, communicator, task, event or
\* scratch (ucc_tl_rccl_team_create_test, ucc_tl_rccl_free_task).
Released == Ours => \A r \in Team : rank[r].pc = "gone" => rank[r].held = {}

\* Every rank creates the team, ends every collective and destroys the team,
\* but for one whose request stays in progress after a failed post and one
\* that waits for a rank on which a step failed alone.
Completes == <>(Ours => Over)
=============================================================================
