------------------------------- MODULE Sharp -------------------------------
(* TL sharp: collectives the switches run (components/tl/sharp).  The SHARP  *)
(* context belongs to the UCC context or, with CONTEXT_PER_TEAM, to every    *)
(* team.  It is created by all the processes together: the ids of rank 0 go  *)
(* round, and the library calls back into the gather and the barrier of the  *)
(* transport.  A collective registers its buffers, hands them to the library *)
(* and releases them when its request is complete.                           *)
(*                                                                           *)
(* A scenario: n processes, len cells in a buffer, per_team                  *)
(* (CONTEXT_PER_TEAM), internal (USE_INTERNAL_OOB), service (there is a      *)
(* service team), rcache (USE_RCACHE), thresh (REG_THRESH, in cells), ppn,   *)
(* int8 and sat (capabilities), window (collectives posted at a time), fail  *)
(* (<<process, step, collective>> that fails), ops.  An op has the buffers   *)
(* sb and db.                                                                *)
EXTENDS CommLib, TLC

CONSTANT Scenarios

VARIABLES sc, rank, wire
vars == <<sc, rank, wire>>

Ours == sc.kind = "sharp"
Team == Ranks(sc.n)
Fails(r, what, i) == <<r, what, i>> \in sc.fail
Op(i) == sc.ops[i]

Names == <<"b1", "b2", "b3", "b4", "b5", "b6">>
Src(op) == Names[op.sb]
Dst(op) == Names[op.db]

Resources == {"mpool", "ctx", "rcache", "progress", "map", "topo", "comm", "task"}
Got(me, x) == [me EXCEPT !.held[x] = @ + 1]
Freed(me, x) == [me EXCEPT !.held[x] = @ - 1]

-----------------------------------------------------------------------------
(* The out-of-band collectives.  A process that enters one waits until all   *)
(* have entered; a broadcast is an allgather of which the part of the root   *)
(* is copied out, by the OOB of the user as by the service team.             *)
Enter(r, me, phase) ==
    /\ rank' = [rank EXCEPT ![r] = [me EXCEPT !.pc = phase]]
    /\ wire' = [wire EXCEPT !.at[phase] = @ \cup {r}, !.job[r] = me.job]
AllIn(phase) == wire.at[phase] = Team
Go(r, me, pc) ==
    /\ rank' = [rank EXCEPT ![r] = [me EXCEPT !.pc = pc]]
    /\ UNCHANGED wire

(* The functions and their argument go together: a subset for the service    *)
(* team, a pointer for the OOB of the user.                                  *)
ContextOob == IF sc.internal # "no" /\ sc.service THEN "subset" ELSE "oob"
TeamOob == IF sc.internal # "no" THEN "subset" ELSE "oob"

oob_bcast(me) == [me EXCEPT !.job = wire.job[0]]
oob_gather == {wire.job[q] : q \in Team}

-----------------------------------------------------------------------------
(* The context of the transport, and the SHARP context in it.                *)
ContextInit(r) ==
    /\ rank[r].pc = "start"
    /\ IF sc.n < 2 \/ Fails(r, "mpool", 0) THEN Go(r, rank[r], "gone")
       ELSE Go(r, Got(rank[r], "mpool"), "epilog")
    /\ UNCHANGED sc

(* The class cleanup: rcache and SHARP context if their pointers are set.    *)
ContextCleanup(me) ==
  LET a == IF ~sc.per_team /\ me.cache THEN Freed(me, "rcache") ELSE me
      b == IF ~sc.per_team /\ me.sharp THEN Freed([a EXCEPT !.held["progress"] = 0], "ctx") ELSE a
  IN  Freed(b, "mpool")

create_epilog(r) ==
    /\ rank[r].pc = "epilog"
    /\ IF sc.per_team THEN Go(r, rank[r], "team")
       ELSE IF Fails(r, "topo", 0) THEN Go(r, ContextCleanup(rank[r]), "gone")
       ELSE Enter(r, rank[r], "bcast")
    /\ UNCHANGED sc

(* What is undone when the cache or the progress function cannot be had.     *)
EpilogUndo(me, what) ==
    LET a == IF what = "progress" /\ me.cache THEN Freed(me, "rcache") ELSE me
    IN  Freed(a, "ctx")
TeamUndo(me) ==
    LET a == IF sc.per_team /\ me.cache THEN Freed(me, "rcache") ELSE me
        b == IF sc.per_team /\ me.sharp THEN Freed([a EXCEPT !.held["progress"] = 0], "ctx") ELSE a
        c == Freed(b, "topo")
    IN  IF TeamOob = "subset" THEN Freed(c, "map") ELSE c

Undo(me, what) ==
    IF sc.per_team THEN TeamUndo(me)
    ELSE IF what \in {"cache", "progress"} THEN EpilogUndo(me, what) ELSE me

(* The job id arrives; the library starts, gathers and meets; then cache and *)
(* progress function.                                                        *)
JobId(r) ==
    /\ rank[r].pc = "bcast" /\ AllIn("bcast")
    /\ Enter(r, oob_bcast(rank[r]), "gather")
    /\ UNCHANGED sc
Gather(r) ==
    /\ rank[r].pc = "gather" /\ AllIn("gather")
    /\ Enter(r, [rank[r] EXCEPT !.one = oob_gather = {rank[r].job}], "barrier")
    /\ UNCHANGED sc

context_init(r, me) ==
    IF Fails(r, "init", 0) \/ ~me.one THEN [st |-> "NO_RESOURCE", me |-> me]
    ELSE IF Fails(r, "caps", 0) THEN [st |-> "NO_RESOURCE", me |-> [me EXCEPT !.sharp = TRUE]]
    ELSE [st |-> "OK", me |-> Got([me EXCEPT !.sharp = TRUE], "ctx")]
rcache_create(me) == IF sc.rcache THEN Got([me EXCEPT !.cache = TRUE], "rcache") ELSE me

After(r, me, st) ==
    IF st # "OK" THEN Go(r, ContextCleanup(me), "gone")
    ELSE Go(r, me, "team")
JoinGroup(r, me) == Enter(r, me, "comm")
Setup(r) ==
    /\ rank[r].pc = "barrier" /\ AllIn("barrier")
    /\ LET got  == context_init(r, rank[r])
           full == rcache_create(got.me)
           lost == CASE got.st # "OK" -> Undo(got.me, "init")
                     [] got.st = "OK" /\ sc.rcache /\ Fails(r, "rcache", 0) -> Undo(got.me, "cache")
                     [] OTHER -> Undo(full, "progress")
           bad  == got.st # "OK" \/ (sc.rcache /\ Fails(r, "rcache", 0)) \/ Fails(r, "progress", 0)
           done == Got(full, "progress")
       IN  IF ~sc.per_team
           THEN After(r, IF bad THEN lost ELSE done, IF bad THEN "error" ELSE "OK")
           ELSE IF bad THEN Go(r, [lost EXCEPT !.sharp = FALSE, !.cache = FALSE], "over")
           ELSE JoinGroup(r, done)
    /\ UNCHANGED sc

-----------------------------------------------------------------------------
(* The team: its map, its topology, a SHARP context of its own if the        *)
(* context has none, then the SHARP group.                                   *)
TeamInit(r) ==
    /\ rank[r].pc = "team"
    /\ LET mapped == IF TeamOob = "subset" THEN Got(rank[r], "map") ELSE rank[r]
           me     == Got(mapped, "topo")
       IN  IF TeamOob = "subset" /\ Fails(r, "map", 0) THEN Go(r, rank[r], "over")
           ELSE IF Fails(r, "ttopo", 0) THEN Go(r, rank[r], "over")
           ELSE IF sc.ppn > 1 THEN Go(r, TeamUndo(me), "over")
           ELSE IF sc.per_team THEN Enter(r, me, "bcast")
           ELSE JoinGroup(r, me)
    /\ UNCHANGED sc
CommInit(r) ==
    /\ rank[r].pc = "comm" /\ AllIn("comm")
    /\ IF Fails(r, "comm", 0)
       THEN Go(r, LET u == TeamUndo(rank[r])
                  IN  IF sc.per_team THEN [u EXCEPT !.sharp = FALSE, !.cache = FALSE] ELSE u, "over")
       ELSE Go(r, Got(rank[r], "comm"), "idle")
    /\ UNCHANGED sc

-----------------------------------------------------------------------------
(* Registration: a user of a region of the cache, or an object of its own.   *)
Large(cells) == cells >= sc.thresh
mem_register(me, i, b, cells) ==
    IF ~Large(cells) THEN me
    ELSE [me EXCEPT !.regs = @ \cup {<<i, b>>}]
mem_deregister(me, i, b) == [me EXCEPT !.regs = @ \ {<<i, b>>}]

-----------------------------------------------------------------------------
(* What each collective registers and hands to the library; count is what    *)
(* the user put in dst.info.count (src.info.count for bcast).                *)
Given(op) == CASE op.type = "allgather" -> sc.n * Block(op)
               [] op.type = "reducescatter" /\ op.inplace -> sc.n * Block(op)
               [] OTHER -> Block(op)
barrier_start(op, r) == [reg |-> <<>>, prim |-> Prim("barrier", 0, "none", 0, "none", 0, 0)]
allreduce_start(op, r) ==
  LET n == Given(op)
      d == <<Dst(op), n>>
  IN  [reg |-> IF op.inplace THEN <<d>> ELSE <<<<Src(op), n>>, d>>,
       prim |-> Prim("allreduce", 0, IF op.inplace THEN Dst(op) ELSE Src(op), 0, Dst(op), 0, n)]
bcast_start(op, r) ==
  [reg |-> <<<<Src(op), Given(op)>>>>,
   prim |-> Prim("broadcast", op.root, Src(op), 0, Src(op), 0, Given(op))]
reduce_scatter_start(op, r) ==
  LET n == Given(op)
      d == <<Dst(op), n>>
  IN  [reg |-> IF op.inplace THEN <<d>> ELSE <<<<Src(op), n * sc.n>>, d>>,
       prim |-> Prim("reducescatter", 0, IF op.inplace THEN Dst(op) ELSE Src(op), 0, Dst(op), 0, n)]
allgather_start(op, r) ==
  LET n == Given(op) \div sc.n
      d == <<Dst(op), Given(op)>>
  IN  [reg |-> IF op.inplace THEN <<d>> ELSE <<d, <<Src(op), n>>>>,
       prim |-> Prim("allgather", 0, IF op.inplace THEN Dst(op) ELSE Src(op),
                     IF op.inplace THEN r * n ELSE 0, Dst(op), 0, n)]

Start(op, r) ==
    CASE op.type = "barrier" -> barrier_start(op, r)
      [] op.type = "allreduce" -> allreduce_start(op, r)
      [] op.type = "bcast" -> bcast_start(op, r)
      [] op.type = "reducescatter" -> reduce_scatter_start(op, r)
      [] op.type = "allgather" -> allgather_start(op, r)

(* The library knows no AVG, no managed memory and, before 3.0, no int8.     *)
Known(dt) == dt = "native" \/ (dt = "int8" /\ sc.int8)
allreduce_init(op) == op.dt # "user" /\ op.mem # "managed" /\ Known(op.dt) /\ op.fn # "avg"
reduce_scatter_init(op) == sc.sat /\ allreduce_init(op)
bcast_init(op) == op.mem # "managed" /\ op.dt # "user" /\ (op.cnt[1] % 2 = 0 \/ op.dt # "int8" \/ sc.int8)
allgather_init(op) == sc.sat /\ op.dt # "user" /\ op.mem # "managed" /\ Known(op.dt)
coll_init(op) ==
    CASE op.type = "barrier" -> TRUE
      [] op.type = "allreduce" -> allreduce_init(op)
      [] op.type = "bcast" -> bcast_init(op)
      [] op.type = "reducescatter" -> reduce_scatter_init(op)
      [] op.type = "allgather" -> allgather_init(op)
      [] OTHER -> FALSE

(* Registration of the buffers in order; the allgather looks at the result,  *)
(* and then leaves the first one behind.                                     *)
Registered(r, me, i, reg) ==
  LET a == IF reg = <<>> THEN me ELSE mem_register(me, i, reg[1][1], reg[1][2])
  IN  IF Len(reg) < 2 \/ Fails(r, "reg", i) THEN a ELSE mem_register(a, i, reg[2][1], reg[2][2])

Outstanding(me) == DOMAIN me.reg
Post(r) ==
  LET me == rank[r]
      i  == me.i
      op == Op(i)
      go == Start(op, r)
      m  == Registered(r, [me EXCEPT !.i = @ + 1], i, go.reg)
  IN  /\ me.pc = "idle" /\ i <= Len(sc.ops)
      /\ Cardinality(Outstanding(me)) < sc.window
      /\ IF ~coll_init(op)
         THEN Go(r, [me EXCEPT !.i = @ + 1, !.res = @ @@ (i :> "refused")], "idle")
         ELSE IF Fails(r, "reg", i) \/ Fails(r, "do", i)
         THEN Go(r, [m EXCEPT !.res = @ @@ (i :> "failed")], "idle")
         ELSE /\ rank' = [rank EXCEPT ![r] = Got([m EXCEPT !.reg = @ @@ (i :> go.reg)], "task")]
              /\ wire' = [wire EXCEPT !.stream[r] = @ \o <<{go.prim}, {Mark(i)}>>]
      /\ UNCHANGED sc

(* The request is complete: the buffers are released, then the user          *)
(* finalizes the collective.                                                 *)
req_test(r, i) == <<r, i>> \in wire.done
collective_progress(r, i) ==
  LET me == rank[r]
      op == Op(i)
      Drop(m, b) == mem_deregister(m, i, b)
      s  == IF op.type = "bcast" \/ ~op.inplace THEN Drop(me, Src(op)) ELSE me
      d  == IF op.type \in {"bcast", "barrier"} THEN s ELSE Drop(s, Dst(op))
  IN  /\ i \in Outstanding(me) /\ req_test(r, i)
      /\ rank' = [rank EXCEPT ![r] =
                    Freed([d EXCEPT !.reg = [x \in DOMAIN @ \ {i} |-> @[x]],
                                    !.res = @ @@ (i :> "ok")], "task")]
      /\ UNCHANGED <<sc, wire>>

Stream ==
    /\ CanAdvance(wire)
    /\ wire' = Advance(wire)
    /\ UNCHANGED <<sc, rank>>

-----------------------------------------------------------------------------
(* The end of the team and of the context.  A SHARP context of the team is   *)
(* only finalized when the internal OOB is used.                             *)
MutTeamCleanup(me) ==
  LET a == Freed(Freed(me, "comm"), "topo")
      b == IF TeamOob = "subset" /\ a.cache THEN Freed([a EXCEPT !.cache = FALSE], "rcache") ELSE a
  IN  IF TeamOob = "subset" THEN Freed(b, "map") ELSE b
TeamCleanup(me) ==
  LET a == Freed(Freed(me, "comm"), "topo")
      own == sc.per_team /\ TeamOob = "subset"
      b == IF own /\ a.cache THEN Freed([a EXCEPT !.cache = FALSE], "rcache") ELSE a
      c == IF own /\ b.sharp
           THEN Freed([b EXCEPT !.sharp = FALSE, !.held["progress"] = 0], "ctx") ELSE b
  IN  IF TeamOob = "subset" THEN Freed(c, "map") ELSE c
team_destroy(r) ==
    /\ rank[r].pc = "idle" /\ rank[r].i > Len(sc.ops) /\ Outstanding(rank[r]) = {}
    /\ Go(r, TeamCleanup(rank[r]), "over")
    /\ UNCHANGED sc
context_destroy(r) ==
    /\ rank[r].pc = "over"
    /\ Go(r, ContextCleanup(rank[r]), "gone")
    /\ UNCHANGED sc

-----------------------------------------------------------------------------
Tag(op) == IF op.inplace THEN op.db ELSE op.sb
Filled(b) == \E i \in DOMAIN sc.ops : b = (IF sc.ops[i].inplace THEN sc.ops[i].db ELSE sc.ops[i].sb)
Init ==
    /\ sc \in Scenarios
    /\ rank = [r \in Team |-> [pc |-> "start", i |-> 1, res |-> <<>>, reg |-> <<>>, regs |-> {},
                               sharp |-> FALSE, cache |-> FALSE, job |-> r,
                               one |-> FALSE, held |-> [x \in Resources |-> 0]]]
    /\ wire = [at |-> [p \in {"bcast", "gather", "barrier", "comm"} |-> {}],
               job |-> [r \in Team |-> r], done |-> {},
               stream |-> [r \in Team |-> <<>>],
               mem |-> [r \in Team |->
                  [b \in {Names[j] : j \in 1 .. 6} |->
                     [j \in 1 .. sc.len |-> IF \E k \in 1 .. 6 : Names[k] = b /\ Filled(k)
                        THEN {<<CHOOSE k \in 1 .. 6 : Names[k] = b, r, j>>} ELSE {}]]]]

(* A process that fails alone leaves the others waiting for it, in the       *)
(* exchanges of the setup or for the end of a collective.                    *)
Apart == \E f \in sc.fail, q \in Team : <<q, f[2], f[3]>> \notin sc.fail
Over ==
  \A r \in Team :
    \/ rank[r].pc = "gone"
    \/ /\ Apart
       /\ \/ rank[r].pc \in DOMAIN wire.at
          \/ rank[r].pc = "idle" /\ Outstanding(rank[r]) # {}
Step(r) ==
    \/ ContextInit(r) \/ create_epilog(r) \/ JobId(r) \/ Gather(r) \/ Setup(r)
    \/ TeamInit(r) \/ CommInit(r) \/ Post(r)
    \/ \E i \in Outstanding(rank[r]) : collective_progress(r, i)
    \/ team_destroy(r) \/ context_destroy(r)
Next == Ours /\ ((\E r \in Team : Step(r)) \/ Stream \/ (Over /\ UNCHANGED vars))
(* The processes run and the switches make progress.                         *)
Fairness ==
    /\ \A r \in 0 .. 2 : WF_vars(Ours /\ r \in Team /\ Step(r))
    /\ WF_vars(Ours /\ Stream)
Spec == Init /\ [][Next]_vars /\ Fairness

-----------------------------------------------------------------------------
\* A collective that is complete has left what it promises in the buffers, as
\* long as none failed or was refused on some processes only (the *_start
\* functions and ucc_tl_sharp_collective_progress).  The reduce-scatter in
\* place does not: it hands the library the count of the whole buffer as the
\* count of a block.
Delivered ==
  Ours => \A r \in Team : \A i \in DOMAIN rank[r].res :
    /\ rank[r].res[i] = "ok" /\ InStep(rank, i)
    /\ ~(Op(i).type = "reducescatter" /\ Op(i).inplace)
    => LET op == Op(i)
           e  == Expected(op, sc.n, sc.len, Tag(op), r)
       IN  IF op.type = "bcast" THEN wire.mem[r][Src(op)] = e.src
           ELSE op.type = "barrier" \/ wire.mem[r][Dst(op)] = e.dst

(* What a failure undoes and the class cleanup, or the label of the team,    *)
(* undoes again, since the pointer stays set; and what a team with a SHARP   *)
(* context of its own leaves behind if it uses the OOB of the user.          *)
Twice(r) ==
    IF Fails(r, "init", 0) THEN {}
    ELSE IF Fails(r, "caps", 0) THEN {"ctx"}
    ELSE IF sc.per_team THEN {}
    ELSE IF sc.rcache /\ Fails(r, "rcache", 0) THEN {"ctx"}
    ELSE IF Fails(r, "progress", 0) THEN {"ctx"} \cup (IF sc.rcache THEN {"rcache"} ELSE {})
    ELSE {}
LeftBehind == IF sc.per_team /\ TeamOob = "oob" THEN {"ctx", "progress", "rcache"} ELSE {}

\* Nothing is released twice, and when the context is gone nothing is left but
\* the registrations of collectives the library refused, with two exceptions:
\* a SHARP context and a cache whose setup failed half way are finalized a
\* second time (Twice), those of a team without the internal OOB never
\* (LeftBehind) (the cleanup labels of the team and of the epilog, and the
\* class cleanups).
Released ==
  Ours => \A r \in Team :
    /\ \A x \in Resources : rank[r].held[x] >= (IF x \in Twice(r) THEN -1 ELSE 0)
    /\ rank[r].pc = "gone" =>
         /\ \A x \in Resources : rank[r].held[x] > 0 => x \in LeftBehind
         /\ \A p \in rank[r].regs : rank[r].res[p[1]] = "failed"

\* Every process sets the transport up, ends its collectives and takes it down,
\* unless a step failed on some processes only: then others wait for them.
Completes == <>(Ours => Over)
=============================================================================
