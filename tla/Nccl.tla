-------------------------------- MODULE Nccl --------------------------------
(* TL nccl: the creation of a team, its communicator (built with the team or *)
(* by the first collective), the thirteen collectives as groups of           *)
(* primitives on a stream, their completion by an event or by a word the     *)
(* stream writes, the triggered post, and the end of the team.               *)
EXTENDS CommLib

CONSTANT Scenarios   \* [kind, n, len, lazy, blocking, sync, fail, ops]

VARIABLES sc, rank, wire
vars == <<sc, rank, wire>>

ASSUME NcclAssumption ==
  \A s \in Scenarios :
    /\ s.n \in Nat \ {0}
    /\ s.ops \in Seq({s.ops[i] : i \in DOMAIN s.ops})

Ours == sc.kind = "nccl"
Team == Ranks(sc.n)
Op(i) == sc.ops[i]
(* A step of one rank fails: GetUniqueId (of rank 0), the stream, the        *)
(* communicator, its end, or a step of the i-th collective.                  *)
Fails(r, what, i) == <<r, what, i>> \in sc.fail
(* A communicator built by the first collective is always built blocking.    *)
Blocking == sc.blocking \/ sc.lazy
Member(op, r) == op.set = <<>> \/ \E k \in DOMAIN op.set : op.set[k] = r

-----------------------------------------------------------------------------
(* The collectives: the groups a rank puts on the stream.                    *)
alltoall_start(op, r) ==
  <<{Send(q, "src", q * Block(op), Block(op)) : q \in Team}
      \cup {Recv(q, "dst", q * Block(op), Block(op)) : q \in Team}>>

alltoallv_start(op, r) ==
  <<{Send(q, "src", PairAt(op, r, q, LAMBDA a, k : Pair(op, a, k)), Pair(op, r, q)) :
        q \in {q2 \in Team : Pair(op, r, q2) # 0}}
      \cup {Recv(q, "dst", PairAt(op, r, q, LAMBDA a, k : Pair(op, k, a)), Pair(op, q, r)) :
               q \in {q2 \in Team : Pair(op, q2, r) # 0}}>>

allreduce_start(op, r) ==
  <<{Prim("allreduce", 0, IF op.inplace THEN "dst" ELSE "src", 0, "dst", 0, Block(op))}>>

allgather_start(op, r) ==
  <<{Prim("allgather", 0, IF op.inplace THEN "dst" ELSE "src",
          IF op.inplace THEN r * Block(op) ELSE 0, "dst", 0, Block(op))}>>

MutBcastStart(op, r) ==
  IF op.set = <<>> THEN <<{Prim("broadcast", op.root, "src", 0, "src", 0, Block(op))}>>
  ELSE IF r = op.root
       THEN <<{Send(op.set[k], "src", 0, Block(op)) : k \in DOMAIN op.set}>>
       ELSE <<{Recv(op.root, "src", 0, Block(op))}>>
bcast_start(op, r) ==
  IF op.set = <<>> THEN <<{Prim("broadcast", op.root, "src", 0, "src", 0, Block(op))}>>
  ELSE IF r = op.root
       THEN <<{Send(op.set[k], "src", 0, Block(op)) : k \in {k2 \in DOMAIN op.set : op.set[k2] # r}}>>
       ELSE <<{Recv(op.root, "src", 0, Block(op))}>>

reduce_scatter_start(op, r) ==
  <<{Prim("reducescatter", 0, IF op.inplace THEN "dst" ELSE "src", 0,
          "dst", IF op.inplace THEN r * Block(op) ELSE 0, Block(op))}>>

reduce_start(op, r) ==
  <<{Prim("reduce", op.root, IF op.inplace /\ r = op.root THEN "dst" ELSE "src", 0,
          "dst", 0, Block(op))}>>

(* A barrier is an allreduce of one cell in place in the context's scratch.  *)
barrier_init(op, r) == <<{Prim("allreduce", 0, "bar", 0, "bar", 0, 1)}>>

(* gather and scatter: the root copies its own block, then one group.        *)
Kept(op, group, copy) == IF op.inplace THEN <<group>> ELSE <<{copy}, group>>
Others(op) == Team \ {op.root}
gather_start(op, r) ==
  IF r # op.root THEN <<{Send(op.root, "src", 0, Block(op))}>>
  ELSE Kept(op, {Recv(q, "dst", q * Block(op), Block(op)) : q \in Others(op)},
            Copy("src", 0, "dst", r * Block(op), Block(op)))
gatherv_start(op, r) ==
  IF r # op.root THEN <<{Send(op.root, "src", 0, Count(op, r))}>>
  ELSE Kept(op, {Recv(q, "dst", Displ(op, q), Count(op, q)) : q \in Others(op)},
            Copy("src", 0, "dst", Displ(op, r), Count(op, r)))
scatter_start(op, r) ==
  IF r # op.root THEN <<{Recv(op.root, "dst", 0, Block(op))}>>
  ELSE Kept(op, {Send(q, "src", q * Block(op), Block(op)) : q \in Others(op)},
            Copy("src", r * Block(op), "dst", 0, Block(op)))
scatterv_start(op, r) ==
  IF r # op.root THEN <<{Recv(op.root, "dst", 0, Count(op, r))}>>
  ELSE Kept(op, {Send(q, "src", Displ(op, q), Count(op, q)) : q \in Others(op)},
            Copy("src", Displ(op, r), "dst", 0, Count(op, r)))

allgatherv_p2p_start(op, r) ==
  LET from == IF op.inplace THEN "dst" ELSE "src"
      off  == IF op.inplace THEN Displ(op, r) ELSE 0
  IN  <<(IF Count(op, r) # 0 THEN {Send(q, from, off, Count(op, r)) : q \in Team} ELSE {})
          \cup {Recv(q, "dst", Displ(op, q), Count(op, q)) :
                   q \in {q2 \in Team : Count(op, q2) # 0}}>>

(* Through a scratch with one slot of the largest block per rank, and one    *)
(* more where a shorter block is copied first.                               *)
MaxCount(op) == CHOOSE m \in {Count(op, q) : q \in Team} : \A q \in Team : m >= Count(op, q)
allgatherv_bcopy_start(op, r) ==
  LET m     == MaxCount(op)
      short == m > Count(op, r)
  IN  (IF short THEN <<{Copy("src", 0, "tmp", m * sc.n, Count(op, r))}>> ELSE <<>>)
        \o <<{Prim("allgather", 0, IF short THEN "tmp" ELSE "src",
                   IF short THEN m * sc.n ELSE 0, "tmp", 0, m)}>>
        \o [k \in 1 .. sc.n |-> {Copy("tmp", (k - 1) * m, "dst", Displ(op, k - 1), Count(op, k - 1))}]

allgatherv_bcast_start(op, r) ==
  <<{Prim("broadcast", q, IF op.inplace THEN "dst" ELSE "src",
          IF op.inplace THEN Displ(op, q) ELSE 0, "dst", Displ(op, q), Count(op, q)) : q \in Team}>>

(* bcopy cannot run in place.                                                *)
allgatherv_bcopy_init(op) == IF op.inplace THEN "bcast" ELSE op.alg
alg_id_to_init(op, r) ==
  LET alg == IF op.alg = "bcopy" THEN allgatherv_bcopy_init(op) ELSE op.alg
  IN  CASE alg = "p2p"   -> allgatherv_p2p_start(op, r)
        [] alg = "bcopy" -> allgatherv_bcopy_start(op, r)
        [] alg = "bcast" -> allgatherv_bcast_start(op, r)
NeedsScratch(op) == op.type = "allgatherv" /\ op.alg = "bcopy" /\ ~op.inplace

coll_init(op, r) ==
  CASE op.type = "alltoall"      -> alltoall_start(op, r)
    [] op.type = "alltoallv"     -> alltoallv_start(op, r)
    [] op.type = "allreduce"     -> allreduce_start(op, r)
    [] op.type = "allgather"     -> allgather_start(op, r)
    [] op.type = "allgatherv"    -> alg_id_to_init(op, r)
    [] op.type = "bcast"         -> bcast_start(op, r)
    [] op.type = "reducescatter" -> reduce_scatter_start(op, r)
    [] op.type = "reduce"        -> reduce_start(op, r)
    [] op.type = "barrier"       -> barrier_init(op, r)
    [] op.type = "gather"        -> gather_start(op, r)
    [] op.type = "gatherv"       -> gatherv_start(op, r)
    [] op.type = "scatter"       -> scatter_start(op, r)
    [] op.type = "scatterv"      -> scatterv_start(op, r)

(* A reduction is on the library's own types, or a sum of complex numbers as *)
(* pairs; other collectives move any predefined type as smaller ones.        *)
check_and_convert_buffer_reduction(op) ==
    op.dt = "native" \/ op.dt = "complex"
Supported(op) ==
  op.type \in {"allreduce", "reduce", "reducescatter"} => check_and_convert_buffer_reduction(op)
-----------------------------------------------------------------------------
(* The team.                                                                 *)
TeamInit(r) ==
    /\ rank[r].pc = "start"
    /\ wire' = [wire EXCEPT !.oob = @ \cup {r}]
    /\ rank' = [rank EXCEPT ![r].pc = "oob", ![r].comm = "OOB",
                            ![r].held = {"team", "unique_id"}]
    /\ UNCHANGED sc

(* A failed creation destroys the TL team (ucc_tl_team_create_multiple).     *)
Created(r, me, status) ==
    /\ rank' = [rank EXCEPT ![r] = [me EXCEPT !.pc = IF status = "OK" THEN "idle" ELSE "end"]]
    /\ UNCHANGED wire

(* The task of the next collective: the pool, the event, the algorithm's     *)
(* scratch.  A refused one leaves nothing behind.                            *)
MutRefused(r, me) ==
    /\ rank' = [rank EXCEPT ![r] = [me EXCEPT !.pc = "idle", !.i = @ + 1, !.comm = "ERROR",
                                              !.res = Append(@, "refused")]]
    /\ UNCHANGED wire
Refused(r, me) ==
    /\ rank' = [rank EXCEPT ![r] = [me EXCEPT !.pc = "idle", !.i = @ + 1,
                                              !.res = Append(@, "refused")]]
    /\ UNCHANGED wire
Event == IF sc.sync = "event" THEN {"event"} ELSE {}
Task(r, me) ==
  LET op == Op(me.i)
      needs == {"task"} \cup Event \cup (IF NeedsScratch(op) THEN {"scratch"} ELSE {})
  IN  IF (sc.sync = "event" /\ Fails(r, "event", me.i)) \/ ~Supported(op)
           \/ (NeedsScratch(op) /\ Fails(r, "scratch", me.i))
      THEN Refused(r, me)
      ELSE /\ rank' = [rank EXCEPT ![r] = [me EXCEPT !.pc = "ready", !.held = @ \cup needs]]
           /\ wire' = [wire EXCEPT !.mem[r] = Memory(op, sc.len, me.i, r)]
TaskIf(r, me, status) == IF status = "OK" THEN Task(r, me) ELSE Refused(r, me)

(* comm_init of a rank on its way to pc: what it answers at once, or the     *)
(* stream and the call of the library.                                       *)
Answer(r, me, ret, status) ==
    IF ret = "create" THEN Created(r, me, status) ELSE TaskIf(r, me, status)
comm_init(r, me, ret) ==
  CASE me.comm = "READY" -> Answer(r, me, ret, "OK")
    [] me.comm = "ERROR" -> Answer(r, me, ret, "NOT_SUPPORTED")
    [] OTHER ->
         IF Fails(r, "stream", 0) THEN Answer(r, me, ret, "NO_MESSAGE")
         ELSE /\ rank' = [rank EXCEPT ![r] = [me EXCEPT !.pc = "comm", !.ret = ret,
                                                        !.held = @ \cup {"stream"}]]
              /\ wire' = [wire EXCEPT !.init = @ \cup {r}]

team_create_test(r) ==
    /\ rank[r].pc = "oob"
    /\ wire.oob = Team
    /\ IF Fails(0, "id", 0) THEN Created(r, rank[r], "OK")
       ELSE LET me == [rank[r] EXCEPT !.comm = "INIT_TEAM"]
            IN  IF sc.lazy THEN Created(r, me, "OK")
                ELSE comm_init(r, me, "create")
    /\ UNCHANGED sc

NotReady(op) == IF op.set # <<>> THEN "NOT_SUPPORTED" ELSE "comm_init"
init_task(r) ==
  LET me == rank[r]
      op == Op(me.i)
  IN  /\ me.pc = "idle" /\ me.i <= Len(sc.ops) /\ Member(op, r)
      /\ IF op.dt = "user" THEN Refused(r, me)
         ELSE IF me.comm = "READY" THEN Task(r, me)
         ELSE IF NotReady(op) = "NOT_SUPPORTED" THEN Refused(r, me)
         ELSE comm_init(r, me, "coll")
      /\ UNCHANGED sc
Skip(r) ==
    /\ rank[r].pc = "idle" /\ rank[r].i <= Len(sc.ops) /\ ~Member(Op(rank[r].i), r)
    /\ rank' = [rank EXCEPT ![r].i = @ + 1, ![r].res = Append(@, "skipped")]
    /\ UNCHANGED <<sc, wire>>

(* The library (external) answers a blocking call once every rank has made   *)
(* it, any other at once; each rank has an answer of its own.                *)
CommInitRank(r) ==
    /\ rank[r].pc = "comm" /\ (Blocking => wire.init = Team)
    /\ LET ok == ~Fails(r, "comm", 0) /\ ~Fails(0, "id", 0)
           me == [rank[r] EXCEPT !.comm = IF ok THEN "READY" ELSE "ERROR",
                                 !.held = IF ok THEN @ \cup {"comm"} ELSE @]
           st == IF ok THEN "OK" ELSE "NO_RESOURCE"
       IN  IF me.ret = "create" THEN Created(r, me, st) ELSE TaskIf(r, me, st)
    /\ UNCHANGED sc

-----------------------------------------------------------------------------
(* Post: what goes to the stream, and the sign of its end.                   *)
collective_sync(i, items) == items \o <<{Mark(i)}>>

(* The first call of the library fails: copies before it are on the stream.  *)
Before(items) == SelectSeq(<<items[1]>>, LAMBDA g : \A p \in g : p.k = "copy")

Empty(op) == op.type = "alltoall" /\ Block(op) = 0
Post(r) ==
  LET me  == rank[r]
      op  == Op(me.i)
      go  == coll_init(op, r)
      end == [me EXCEPT !.pc = "final"]
      ok  == IF op.trig = "no" THEN me.evs ELSE me.evs + 1
      To(items) == wire' = [wire EXCEPT !.stream[r] = @ \o items]
  IN  /\ me.pc = "ready"
      /\ \/ /\ Empty(op)
            /\ rank' = [rank EXCEPT ![r] = [end EXCEPT !.res = Append(@, "ok"), !.evs = ok]]
            /\ UNCHANGED wire
         \/ /\ ~Empty(op) /\ Fails(r, "post", me.i)
            /\ rank' = [rank EXCEPT ![r] = [end EXCEPT !.res = Append(@, "failed")]]
            /\ To(Before(go))
         \/ /\ ~Empty(op) /\ ~Fails(r, "post", me.i) /\ op.trig = "capture"
            /\ rank' = [rank EXCEPT ![r] = [end EXCEPT !.res = Append(@, "captured"), !.evs = ok]]
            /\ UNCHANGED wire
         \/ /\ ~Empty(op) /\ ~Fails(r, "post", me.i) /\ op.trig # "capture"
            /\ Fails(r, "sync", me.i)
            /\ rank' = [rank EXCEPT ![r] = [end EXCEPT !.res = Append(@, "failed")]]
            /\ To(go)
         \/ /\ ~Empty(op) /\ ~Fails(r, "post", me.i) /\ op.trig # "capture"
            /\ ~Fails(r, "sync", me.i)
            /\ rank' = [rank EXCEPT ![r] = [me EXCEPT !.pc = "posted", !.evs = ok]]
            /\ To(collective_sync(me.i, go))
      /\ UNCHANGED sc

(* The event of the task, or the word the stream wrote; the test of the      *)
(* event or, of a communicator that does not block, the library fails.       *)
event_collective_progress(r, i) == <<r, i>> \in wire.done
nb_progress(r, i) == Fails(r, "async", i) /\ (~Blocking \/ sc.sync = "event")
Progress(r) ==
    /\ rank[r].pc = "posted"
    /\ \/ /\ ~nb_progress(r, rank[r].i)
          /\ event_collective_progress(r, rank[r].i)
          /\ rank' = [rank EXCEPT ![r].pc = "final", ![r].res = Append(@, "ok")]
       \/ /\ nb_progress(r, rank[r].i)
          /\ rank' = [rank EXCEPT ![r].pc = "final", ![r].res = Append(@, "failed")]
    /\ UNCHANGED <<sc, wire>>

(* Nothing moves before every rank has called the library.                   *)
Stream ==
    /\ CanAdvance(wire) /\ wire.init = Team
    /\ wire' = Advance(wire)
    /\ UNCHANGED <<sc, rank>>

free_task(held) == held \ {"task", "event", "scratch"}
FinalComm(me) == IF me.res[me.i] = "failed" THEN "ERROR" ELSE me.comm
coll_finalize(r) ==
  LET me == rank[r]
  IN  /\ me.pc = "final"
      /\ rank' = [rank EXCEPT ![r] = [me EXCEPT !.pc = "idle", !.i = @ + 1,
                    !.held = free_task(@),
                    !.comm = FinalComm(me)]]
      /\ UNCHANGED <<sc, wire>>

(* The end: the stream, then the communicator, aborted after an error and    *)
(* after a finalization that failed or, of a communicator that does not      *)
(* block, is still in progress; the team then stays.                         *)
team_destroy(r) ==
  LET me    == rank[r]
      abort == "comm" \in me.held /\ me.comm = "ERROR"
      final == "comm" \in me.held /\ me.comm # "ERROR"
      Gone(S, ab, pc) ==
        /\ rank' = [rank EXCEPT ![r].pc = pc, ![r].held = @ \ S, ![r].aborted = ab]
        /\ wire' = IF ab THEN [wire EXCEPT !.stream[r] = <<>>] ELSE wire
  IN  /\ \/ me.pc = "end"
         \/ me.pc = "idle" /\ me.i > Len(sc.ops)
      /\ \/ ~(final /\ Fails(r, "finalize", 0)) /\ Gone({"stream", "comm", "team"}, abort, "gone")
         \/ final /\ (Fails(r, "finalize", 0) \/ ~Blocking) /\ Gone({"stream", "comm"}, TRUE, "kept")
      /\ UNCHANGED sc

-----------------------------------------------------------------------------
Init ==
    /\ sc \in Scenarios
    /\ rank = [r \in Team |-> [pc |-> "start", comm |-> "none", ret |-> "none", i |-> 1,
                               held |-> {}, res |-> <<>>, evs |-> 0, aborted |-> FALSE]]
    /\ wire = [oob |-> {}, init |-> {}, stream |-> [r \in Team |-> <<>>], done |-> {},
               mem |-> [r \in Team |-> Memory(sc.ops[1], sc.len, 1, r)]]

(* A rank that fails alone leaves the others waiting for it, in the call of  *)
(* the library or for the end of a collective.                               *)
Apart ==
  \E f \in sc.fail, q \in Team :
    f[2] \notin {"id", "finalize"} /\ <<q, f[2], f[3]>> \notin sc.fail
Over ==
  \A r \in Team :
    \/ rank[r].pc \in {"gone", "kept"}
    \/ Apart /\ rank[r].pc \in {"comm", "posted"}
Next ==
    /\ Ours
    /\ \/ \E r \in Team : \/ TeamInit(r) \/ team_create_test(r) \/ CommInitRank(r)
                          \/ init_task(r) \/ Skip(r) \/ Post(r) \/ Progress(r)
                          \/ coll_finalize(r) \/ team_destroy(r)
       \/ Stream
       \/ Over /\ UNCHANGED vars

(* Ranks and devices make progress.                                          *)
Fairness ==
    /\ \A r \in 0 .. 3 :
         WF_vars(/\ Ours /\ r \in Team
                 /\ (\/ TeamInit(r) \/ team_create_test(r) \/ CommInitRank(r) \/ init_task(r)
                     \/ Skip(r) \/ Post(r) \/ Progress(r) \/ coll_finalize(r) \/ team_destroy(r)))
    /\ WF_vars(Ours /\ Stream)
Spec == Init /\ [][Next]_vars /\ Fairness

-----------------------------------------------------------------------------
\* A collective that is complete has left in the buffers of the rank what it
\* promises, and nothing else has changed, as long as no collective failed or
\* was refused on some ranks only (the *_start functions with
\* ucc_tl_nccl_collective_sync and the progress functions).
Delivered ==
  Ours => \A r \in Team :
    /\ rank[r].pc = "final"
    /\ rank[r].res[rank[r].i] = "ok"
    /\ InStep(rank, rank[r].i)
    => LET e == Expected(Op(rank[r].i), sc.n, sc.len, rank[r].i, r)
       IN  wire.mem[r].src = e.src /\ wire.mem[r].dst = e.dst

RunsHere(me, i) ==
    \/ i \in DOMAIN me.res /\ me.res[i] \notin {"refused", "skipped"}
    \/ i = me.i /\ me.pc \in {"ready", "posted"}
(* A step failed on rank r and not on rank q: a collective before the i-th,  *)
(* the stream, the communicator, or the task of the i-th.                    *)
FailedAlone(r, q, i) ==
    \/ \E k \in 1 .. i - 1 : rank[r].res[k] = "failed" /\ rank[q].res[k] # "failed"
    \/ \E what \in {"stream", "comm"} : Fails(r, what, 0) /\ ~Fails(q, what, 0)
    \/ \E what \in {"event", "scratch"} : Fails(r, what, i) /\ ~Fails(q, what, i)

\* A rank gives a collective to another transport while another rank runs it
\* here only if a step failed on it that did not fail there: a collective that
\* was refused, or is of some ranks only, or came before the communicator,
\* never drives the ranks apart later (ucc_tl_nccl_init_task,
\* ucc_tl_nccl_comm_init, ucc_tl_nccl_coll_finalize).
OneTransport ==
  Ours => \A r, q \in Team : \A i \in DOMAIN rank[r].res :
    rank[r].res[i] = "refused" /\ RunsHere(rank[q], i) => FailedAlone(r, q, i)

\* A team that is gone holds neither tasks, events, scratch, stream nor
\* communicator, only the array of ids, which no code frees; one whose
\* communicator could not be finalized holds itself too; the communicator was
\* aborted if a collective failed (ucc_tl_nccl_free_task,
\* ucc_tl_nccl_team_destroy).
Released ==
  Ours => \A r \in Team :
    /\ rank[r].pc = "gone" => rank[r].held = {"unique_id"}
    /\ rank[r].pc = "kept" => rank[r].held = {"team", "unique_id"}
    /\ rank[r].pc \in {"gone", "kept"} /\ (\E i \in DOMAIN rank[r].res : rank[r].res[i] = "failed") =>
         rank[r].aborted

\* Every rank creates the team, ends every collective and destroys the team;
\* only where a step failed on some ranks do others wait, for the communicator
\* or for a collective.
Completes == <>(Ours => Over)
=============================================================================
