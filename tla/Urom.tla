-------------------------------- MODULE Urom --------------------------------
(* Collectives offloaded to a DPU: the host side (components/cl/doca_urom)    *)
(* and the worker plugin that runs UCC on the DPU                             *)
(* (contrib/doca_urom_ucc_plugin).  A host submits commands to its worker and *)
(* learns the outcome when it polls its progress engine.  The main thread of  *)
(* the worker takes the commands; teams and collectives become elements of    *)
(* the ring queue of a progress thread, which tests the element at the front  *)
(* and puts it back at the tail while it is in progress.  With several        *)
(* threads per process (tpp) a collective is split into tpp elements that     *)
(* meet at a barrier before the one that holds the notification reports.      *)
(*                                                                            *)
(* A scenario: hosts on one worker, tpp, threads (num_progress_threads), list *)
(* (list_size), ppw, ops[h] the collectives of host h, window the number it   *)
(* keeps outstanding, fail the set of <<host, step, collective>> that fail,   *)
(* ready: contexts and teams are there already, teardown: the hosts destroy   *)
(* their contexts.  The UCC instance on the DPU is abstract: an element that  *)
(* was posted is over at some later time.                                     *)
EXTENDS Naturals, Sequences, FiniteSets, SequencesExt, TLC

CONSTANT Scenarios

VARIABLES sc, rank, wire

vars == <<sc, rank, wire>>

Ours == sc.kind = "urom"

Hosts == 0 .. sc.hosts - 1
Threads == 0 .. sc.threads - 1
Slots == 0 .. sc.list - 1
Fails(h, what, k) == <<h, what, k>> \in sc.fail

Cmd(h, op, k) == [h |-> h, op |-> op, k |-> k]
NoCmd == Cmd(0, "none", 0)
Element(c, i) == [cmd |-> c, i |-> i]
Parts(c) == IF c.op = "alltoall" THEN {0} ELSE 0 .. sc.tpp - 1

CollCmds == UNION {{Cmd(h, sc.ops[h][k], k) : k \in DOMAIN sc.ops[h]} : h \in Hosts}
TeamCmds == {Cmd(h, "team", 0) : h \in Hosts}
Cmds == CollCmds \cup TeamCmds
           \cup {Cmd(h, op, 0) : h \in Hosts, op \in {"lib", "dc", "ctx", "destroy"}}
Elements == UNION {{Element(c, i) : i \in Parts(c)} : c \in CollCmds \cup TeamCmds}

-----------------------------------------------------------------------------
(* The queue of a progress thread: the slots from front to tail, one of which *)
(* always stays free.                                                         *)
FreeSlot == [in_use |-> FALSE, el |-> Element(NoCmd, 0), posted |-> FALSE,
             barrier |-> NoCmd, nd |-> NoCmd, keys |-> NoCmd]

thread_of(w, el) == (w.ids[el.cmd.h] * sc.tpp + el.i) % sc.threads

find_qe_slot(w, t) ==
    IF (w.tail[t] + 1) % sc.list = w.front[t] THEN "full"
    ELSE IF w.slot[t][w.tail[t]].in_use THEN "bad" ELSE "ok"

Claimed(w, t) == [w EXCEPT !.tail[t] = (@ + 1) % sc.list]

(* A notification goes to the list of completed requests; the worker's        *)
(* progress function moves all of them to the hosts' progress engines.        *)
push_notification(w, c, result, status) ==
    [w EXCEPT !.completed = Append(@, [cmd |-> c, result |-> result, status |-> status]),
              !.told[c] = @ + 1]

dest_lookup(w, h) ==
    IF h \in DOMAIN w.ids THEN w
    ELSE [w EXCEPT !.ids = @ @@ (h :> w.ctx_id), !.ctx_id = @ + 1]

dest_remove(w, h) ==
    [w EXCEPT !.ids = [x \in DOMAIN @ \ {h} |-> @[x]], !.ctx_id = @ - 1]

-----------------------------------------------------------------------------
(* The commands of the worker that end in the main thread.                    *)
lib_create(w, c) ==
    LET known == [dest_lookup(w, c.h) EXCEPT !.nr_connections = @ + 1] IN
    IF known.nr_connections > sc.ppw
    THEN push_notification(dest_remove(known, c.h), c, "full", "ok")
    ELSE IF Fails(c.h, "lib", 0)
         THEN push_notification(
                dest_remove([known EXCEPT !.nr_connections = @ - 1], c.h), c, "error", "ok")
         ELSE push_notification([known EXCEPT !.lib = @ \cup {c.h}], c, "ok", "ok")

pass_dc_create(w, c) ==
    push_notification(w, c, IF Fails(c.h, "dc", 0) THEN "error" ELSE "ok", "ok")

context_create(w, c) ==
    IF Fails(c.h, "thread", 0) THEN push_notification(w, c, "error", "ok")
    ELSE [w EXCEPT !.building = @ \cup {c.h}]

(* The thread that creates the contexts of one host: an exchange with the     *)
(* other workers, and for the first host the progress threads.                *)
ctx_progress_thread(w, h) ==
    LET c == Cmd(h, "ctx", 0)
        built == [w EXCEPT !.building = @ \ {h}] IN
    IF h \notin w.lib \/ Fails(h, "ctx", 0)
    THEN push_notification(built, c, "error", "ok")
    ELSE push_notification(
           [built EXCEPT !.ctx = @ \cup {h},
                         !.thread = [t \in Threads |->
                            IF w.ids[h] = 0 THEN [@[t] EXCEPT !.at = "top"] ELSE @[t]]],
           c, "ok", "ok")

(* Destroying the library stops the progress threads first.                   *)
join_threads(w) == \A t \in Threads : w.thread[t].at \in {"off", "exited"}

lib_destroy(w, c) ==
    push_notification([w EXCEPT !.lib = {}, !.ctx = {}, !.main.at = "idle"], c, "ok", "ok")

-----------------------------------------------------------------------------
(* Teams and collectives: for every part a slot is claimed, filled and        *)
(* counted; in_use is set before posted, barrier and nd are.                  *)
Working(w, c) == [w EXCEPT !.main = [at |-> "claim", cmd |-> c, i |-> 0, slot |-> 0]]

team_create(w, c) ==
    IF c.h \notin w.ctx THEN push_notification(w, c, "invalid", "ok") ELSE Working(w, c)

coll_init(w, c) ==
    IF c.h \notin w.lib \cap w.ctx THEN push_notification(w, c, "error", "ok")
    ELSE Working(w, c)

Current(w) == Element(w.main.cmd, w.main.i)

(* ucc_team_create_post, or ucc_collective_init and for an alltoall           *)
(* ucc_collective_post; then find_qe_slot under the queue lock.               *)
ClaimSlot(w) ==
    LET c == w.main.cmd
        t == thread_of(w, Current(w))
        made == [w EXCEPT !.sub[Current(w)] = IF c.op = "allreduce" THEN "init" ELSE "posted"] IN
    IF Fails(c.h, "prepare", c.k) \/ find_qe_slot(w, t) # "ok"
    THEN push_notification([w EXCEPT !.main.at = "idle"], c, "error", "ok")
    ELSE [Claimed(made, t) EXCEPT !.main.at = "fill", !.main.slot = w.tail[t]]

FillSlot(w) ==
    LET t == thread_of(w, Current(w)) IN
    [w EXCEPT !.slot[t][w.main.slot].in_use = TRUE,
              !.slot[t][w.main.slot].el = Current(w),
              !.main.at = "finish"]

nd_of(w) == IF w.main.i = 0 THEN w.main.cmd ELSE NoCmd

FinishSlot(w) ==
    LET t == thread_of(w, Current(w))
        c == w.main.cmd IN
    [w EXCEPT !.slot[t][w.main.slot] =
                 [@ EXCEPT !.posted = IF c.op = "team" THEN @ ELSE c.op = "alltoall",
                           !.barrier = IF c.op = "alltoall" THEN NoCmd ELSE c,
                           !.keys = IF c.op = "allreduce" THEN c ELSE @,
                           !.nd = nd_of(w)],
              !.size[t] = @ + 1,
              !.main.at = IF w.main.i + 1 \in Parts(c) THEN "claim" ELSE "idle",
              !.main.i = IF w.main.i + 1 \in Parts(c) THEN @ + 1 ELSE @]

-----------------------------------------------------------------------------
(* A progress thread: how many elements are left in this round, the element   *)
(* it works on (qe), and the writes it still has to do for it.                *)
Idle == [at |-> "off", left |-> 0, qe |-> 0, barrier |-> NoCmd, todo |-> <<>>,
         result |-> "ok", status |-> "ok"]

Qe(w, t) == w.slot[t][w.thread[t].qe]

Over(w, t, result, status) ==
    [w EXCEPT !.thread[t] = [@ EXCEPT !.at = "write", !.result = result, !.status = status,
                                      !.todo = <<"notify", "advance", "drop">>]]

(* The element is still in progress: it moves to the tail of the queue.       *)
PutBack(w, t) ==
    LET team == Qe(w, t).el.cmd.op = "team" IN
    IF find_qe_slot(w, t) # "ok"
    THEN Over([w EXCEPT !.bad = @ \/ find_qe_slot(w, t) = "bad"], t,
              "error", IF team THEN "ok" ELSE "noresource")
    ELSE [Claimed(w, t) EXCEPT
            !.thread[t].at = "write",
            !.slot[t][w.tail[t]] = Qe(w, t),
            !.thread[t].todo = IF team THEN <<"advance", "release">>
                               ELSE <<"release", "advance">>]

(* The element is over: its parts meet at the barrier, then the keys are      *)
(* freed.                                                                     *)
MutMet(w, c) == TRUE

barrier_met(w, c) == w.arrived[c] = 0 .. sc.tpp - 1

(* The part that reports frees the barrier all of them have passed.           *)
Passed(w, t) ==
    IF Qe(w, t).nd = NoCmd THEN w ELSE [w EXCEPT !.slot[t][w.thread[t].qe].barrier = NoCmd]

FreeKeys(w, t) ==
    LET keys == Qe(w, t).keys IN
    IF Qe(w, t).el.cmd.op = "team" \/ keys = NoCmd THEN w
    ELSE [w EXCEPT !.freed[keys] = @ + 1, !.slot[t][w.thread[t].qe].keys = NoCmd]

Arrive(w, t) ==
    IF Qe(w, t).barrier = NoCmd THEN Over(FreeKeys(w, t), t, "ok", "ok")
    ELSE [w EXCEPT !.arrived[Qe(w, t).barrier] = @ \cup {Qe(w, t).el.i},
                   !.thread[t].at = "barrier", !.thread[t].barrier = Qe(w, t).barrier]

coll_element(w, t) ==
    LET qe == Qe(w, t)
        e == qe.el IN
    CASE ~qe.posted /\ Fails(e.cmd.h, "post", e.cmd.k) -> Over(w, t, "error", "error")
      [] ~qe.posted /\ ~Fails(e.cmd.h, "post", e.cmd.k) ->
            [w EXCEPT !.slot[t][w.thread[t].qe].posted = TRUE, !.sub[e] = "posted"]
      [] qe.posted /\ w.sub[e] = "posted" -> PutBack(w, t)
      [] qe.posted /\ w.sub[e] = "over" -> Arrive(w, t)
      [] OTHER -> Over(w, t, "error", "error")

team_element(w, t) ==
    LET e == Qe(w, t).el IN
    CASE w.sub[e] = "posted" -> PutBack(w, t)
      [] w.sub[e] = "over" -> Arrive(w, t)
      [] OTHER -> Over(w, t, "error", "ok")

handle_element(w, t) ==
    IF Qe(w, t).el.cmd.op = "team" THEN team_element(w, t) ELSE coll_element(w, t)

(* One write of a step the other thread can see.                              *)
Released(w, t) == [w EXCEPT !.slot[t][w.thread[t].qe].in_use = FALSE,
                            !.slot[t][w.thread[t].qe].el = Element(NoCmd, 0)]

Written(w, t) ==
    LET th == w.thread[t]
        rest == [w EXCEPT !.thread[t].todo = Tail(@)] IN
    CASE Head(th.todo) = "release" -> Released(rest, t)
      [] Head(th.todo) = "advance" -> [rest EXCEPT !.front[t] = (@ + 1) % sc.list]
      [] Head(th.todo) = "notify" ->
            IF Qe(w, t).nd = NoCmd THEN rest
            ELSE push_notification(rest, Qe(w, t).nd, th.result, th.status)
      [] Head(th.todo) = "drop" -> [Released(rest, t) EXCEPT !.size[t] = @ - 1]

(* A thread whose element failed ends, whatever else is in its queue (broken  *)
(* remembers it).                                                             *)
Looked(w, t, on) == [w EXCEPT !.broken = @ \/ on = "exited",
                              !.thread[t].at = on, !.thread[t].left = @ - 1,
                              !.thread[t].qe = 0, !.thread[t].barrier = NoCmd,
                              !.thread[t].result = "ok", !.thread[t].status = "ok"]

(* The element at the front is in use but not filled yet: the thread works    *)
(* with the fields of the slot's former use (early remembers it).             *)
HalfFilled(w, t) ==
    w.main.at = "finish" /\ thread_of(w, Current(w)) = t /\ w.main.slot = w.front[t]

progress_thread(w, t) ==
    LET th == w.thread[t] IN
    CASE th.at = "top" ->
            IF w.enabled THEN [w EXCEPT !.thread[t].at = "look", !.thread[t].left = w.size[t]]
            ELSE [w EXCEPT !.thread[t].at = "exited"]
      [] th.at = "look" ->
            IF th.left = 0 THEN [w EXCEPT !.thread[t].at = "top"]
            ELSE IF w.slot[t][w.front[t]].in_use
                 THEN handle_element([w EXCEPT !.thread[t].qe = w.front[t],
                                               !.early = @ \/ HalfFilled(w, t)], t)
                 ELSE Looked(w, t, "look")
      [] th.at = "barrier" -> Over(FreeKeys(Passed(w, t), t), t, "ok", "ok")
      [] th.at = "write" /\ th.todo # <<>> -> Written(w, t)
      [] th.at = "write" /\ th.todo = <<>> ->
            Looked(w, t, IF th.result = "ok" THEN "look" ELSE "exited")

ThreadCanRun(w, t) ==
    LET th == w.thread[t] IN
    /\ th.at \notin {"off", "exited"}
    /\ th.at = "top" => (~w.enabled \/ w.size[t] # 0)
    /\ th.at = "barrier" => barrier_met(w, th.barrier)

-----------------------------------------------------------------------------
(* The host.  Its context holds what was opened so far; a failed step of the  *)
(* initialisation jumps to the label that closes what the steps before it     *)
(* opened.                                                                    *)
Opening == <<"dev", "pe", "service", "plugin", "worker", "buffer", "domain">>
Requests == <<"lib", "dc", "ctx">>

Closed(step) ==
    CASE step = "dev" -> {}
      [] step = "pe" -> {"dev"}
      [] step = "service" -> {"dev", "pe"}
      [] step = "plugin" -> {"dev", "pe", "service"}
      [] step \in {"worker", "buffer"} -> {"dev", "pe", "service", "worker"}
      [] step = "domain" -> {"dev", "pe", "service", "worker", "buffer"}
      [] OTHER -> {"dev", "pe", "service", "worker", "buffer", "domain"}

(* What a step has opened when it fails; a plugin is only looked up.          *)
HalfOpen(step) == IF step \in {"worker", "buffer"} THEN {step} ELSE {}

(* The object of a collective comes from a memory pool, last freed first, and *)
(* keeps the result of its former use.                                        *)
NewHost == [at |-> IF sc.ready THEN "coll" ELSE "dev", waiting |-> FALSE, failed |-> FALSE,
            held |-> IF sc.ready THEN ToSet(Opening) \ {"plugin"} ELSE {}, res |-> "ok",
            next |-> 1, free |-> [j \in 1 .. sc.window |-> sc.window + 1 - j],
            mixed |-> FALSE, obj |-> <<>>, result |-> [j \in 1 .. sc.window |-> "ok"],
            status |-> [j \in 1 .. sc.window |-> "ok"], seen |-> <<>>]

Outstanding(h) == DOMAIN rank[h].obj
Submitted(c) == [wire EXCEPT !.cmds = Append(@, c)]

(* doca_pe_progress runs the callback of at most one completion, whichever    *)
(* task it belongs to; it returns whether there was one.                      *)
Arrived(h) == wire.events[h] # <<>>
Polled(h) == IF Arrived(h) THEN [wire EXCEPT !.events[h] = Tail(@)] ELSE wire
Completion(host, h) ==
    IF ~Arrived(h) THEN host
    ELSE LET n == Head(wire.events[h]) IN
         IF n.cmd \in CollCmds
         THEN IF n.cmd.k \in DOMAIN host.obj
              THEN [host EXCEPT !.result[host.obj[n.cmd.k]] = n.result,
                                !.status[host.obj[n.cmd.k]] = n.status]
              ELSE host
         ELSE [host EXCEPT !.res = n.result]

Open(h) ==
    /\ rank[h].at \in ToSet(Opening)
    /\ LET step == rank[h].at
           i == CHOOSE j \in DOMAIN Opening : Opening[j] = step IN
       rank' = [rank EXCEPT ![h] =
           IF Fails(h, step, 0)
           THEN [@ EXCEPT !.at = "failed",
                          !.held = (@ \cup HalfOpen(step)) \ Closed(step)]
           ELSE [@ EXCEPT !.held = IF step = "plugin" THEN @ ELSE @ \cup {step},
                          !.at = IF i < Len(Opening) THEN Opening[i + 1] ELSE "lib"]]
    /\ UNCHANGED <<sc, wire>>

(* Library, data channel and context are requested one after the other; each  *)
(* is waited for while nothing completes and the result is still success.     *)
Request(h) ==
    /\ rank[h].at \in ToSet(Requests) /\ ~rank[h].waiting
    /\ IF Fails(h, "submit", 0) /\ rank[h].at = "ctx"
       THEN /\ rank' = [rank EXCEPT ![h].at = "destroy", ![h].failed = TRUE]
            /\ wire' = wire
       ELSE /\ rank' = [rank EXCEPT ![h].waiting = TRUE]
            /\ wire' = Submitted(Cmd(h, rank[h].at, 0))
    /\ UNCHANGED sc

LoopEnds(host, h) == Arrived(h) \/ host.res # "ok"

AwaitRequest(h) ==
    /\ rank[h].at \in ToSet(Requests) /\ rank[h].waiting
    /\ LoopEnds(rank[h], h)
    /\ LET host == [Completion(rank[h], h) EXCEPT !.waiting = FALSE] IN
       rank' = [rank EXCEPT ![h] =
           IF host.res # "ok"
           THEN IF host.at = "lib" THEN [host EXCEPT !.at = "failed", !.held = @ \ Closed("lib")]
                ELSE [host EXCEPT !.at = "destroy", !.failed = TRUE]
           ELSE [host EXCEPT !.at = CASE @ = "lib" -> "dc" [] @ = "dc" -> "ctx"
                                      [] @ = "ctx" -> "team"]]
    /\ wire' = Polled(h)
    /\ UNCHANGED sc

CreateTeam(h) ==
    /\ rank[h].at = "team" /\ ~rank[h].waiting
    /\ rank' = [rank EXCEPT ![h].waiting = TRUE, ![h].res = "inprogress"]
    /\ wire' = Submitted(Cmd(h, "team", 0))
    /\ UNCHANGED sc

TeamCreateTest(h) ==
    /\ rank[h].at = "team" /\ rank[h].waiting
    /\ Arrived(h) \/ rank[h].res # "inprogress"
    /\ LET host == [Completion(rank[h], h) EXCEPT !.waiting = FALSE] IN
       rank' = [rank EXCEPT ![h] =
           [host EXCEPT !.at = IF host.res = "ok" /\ sc.ops[h] # <<>> THEN "coll" ELSE "over"]]
    /\ wire' = Polled(h)
    /\ UNCHANGED sc

(* Only an allreduce is sent by this CL; other clients of the plugin send     *)
(* alltoall too.  A command that could not be submitted is waited for all the *)
(* same; mixed remembers that two collectives were outstanding at a time.     *)
CollStart(h) ==
    /\ rank[h].at = "coll"
    /\ rank[h].next \in DOMAIN sc.ops[h]
    /\ rank[h].free # <<>>
    /\ LET k == rank[h].next IN
       /\ rank' = [rank EXCEPT ![h].obj = @ @@ (k :> Last(rank[h].free)),
                               ![h].free = Front(@), ![h].next = k + 1,
                               ![h].mixed = @ \/ Outstanding(h) # {}]
       /\ wire' = IF Fails(h, "submit", k) THEN wire ELSE Submitted(Cmd(h, sc.ops[h][k], k))
    /\ UNCHANGED sc

(* ucc_cl_doca_urom_coll_full_progress, and the user's finalize once the      *)
(* collective is no longer in progress.                                       *)
StillInProgress(host, h, k) == ~Arrived(h) /\ host.result[host.obj[k]] = "ok"

CollProgress(h, k) ==
    /\ k \in Outstanding(h)
    /\ ~StillInProgress(rank[h], h, k)
    /\ LET host == Completion(rank[h], h)
           j == host.obj[k] IN
       rank' = [rank EXCEPT ![h] =
           [host EXCEPT !.seen = @ @@ (k :> [status |-> host.status[j], result |-> host.result[j]]),
                        !.obj = [x \in DOMAIN @ \ {k} |-> @[x]],
                        !.free = Append(@, j),
                        !.at = IF DOMAIN host.obj = {k} /\ host.next \notin DOMAIN sc.ops[h]
                               THEN "over" ELSE @]]
    /\ wire' = Polled(h)
    /\ UNCHANGED sc

(* The context is destroyed: the library on the DPU first, then the rest.     *)
Destroy(h) ==
    /\ \/ rank[h].at = "over" /\ sc.teardown
       \/ rank[h].at = "destroy" /\ ~rank[h].waiting
    /\ rank' = [rank EXCEPT ![h].at = "destroy", ![h].waiting = TRUE,
                            ![h].res = IF rank[h].at = "over" THEN "ok" ELSE @]
    /\ wire' = Submitted(Cmd(h, "destroy", 0))
    /\ UNCHANGED sc

AwaitDestroy(h) ==
    /\ rank[h].at = "destroy" /\ rank[h].waiting
    /\ LoopEnds(rank[h], h)
    /\ rank' = [rank EXCEPT ![h] =
           [Completion(@, h) EXCEPT
              !.at = IF @ = "destroy" /\ rank[h].failed THEN "failed" ELSE "done",
              !.held = IF rank[h].failed THEN @ \ Closed("ctx")
                       ELSE @ \ {"dev", "pe", "service", "domain"}]]
    /\ wire' = Polled(h)
    /\ UNCHANGED sc

Host(h) == Open(h) \/ Request(h) \/ AwaitRequest(h) \/ CreateTeam(h) \/ TeamCreateTest(h)
              \/ CollStart(h) \/ (\E k \in Outstanding(h) : CollProgress(h, k))
              \/ Destroy(h) \/ AwaitDestroy(h)

-----------------------------------------------------------------------------
(* The steps of the worker.                                                   *)
WorkerCmd ==
    /\ wire.main.at = "idle" /\ wire.cmds # <<>>
    /\ LET c == Head(wire.cmds)
           w == [wire EXCEPT !.cmds = Tail(@)] IN
       wire' = CASE c.op = "lib" -> lib_create(w, c)
                 [] c.op = "dc" -> pass_dc_create(w, c)
                 [] c.op = "ctx" -> context_create(w, c)
                 [] c.op = "team" -> team_create(w, c)
                 [] c.op = "destroy" -> [w EXCEPT !.enabled = FALSE, !.main.at = "join",
                                                  !.main.cmd = c]
                 [] OTHER -> coll_init(w, c)
    /\ UNCHANGED <<sc, rank>>

MainStep ==
    /\ \/ wire.main.at = "claim" /\ wire' = ClaimSlot(wire)
       \/ wire.main.at = "fill" /\ wire' = FillSlot(wire)
       \/ wire.main.at = "finish" /\ wire' = FinishSlot(wire)
       \/ wire.main.at = "join" /\ join_threads(wire) /\ wire' = lib_destroy(wire, wire.main.cmd)
    /\ UNCHANGED <<sc, rank>>

BuildContext(h) ==
    /\ h \in wire.building
    /\ wire' = ctx_progress_thread(wire, h)
    /\ UNCHANGED <<sc, rank>>

ThreadStep(t) ==
    /\ ThreadCanRun(wire, t)
    /\ wire' = progress_thread(wire, t)
    /\ UNCHANGED <<sc, rank>>

(* The team or collective on the DPU completes; it may fail on one thread     *)
(* only ("part").                                                             *)
Complete(e) ==
    /\ wire.sub[e] = "posted"
    /\ wire' = [wire EXCEPT !.sub[e] =
                  IF \/ Fails(e.cmd.h, "run", e.cmd.k)
                     \/ Fails(e.cmd.h, "part", e.cmd.k) /\ e.i = 0
                  THEN "error" ELSE "over"]
    /\ UNCHANGED <<sc, rank>>

WorkerProgress ==
    /\ wire.completed # <<>>
    /\ wire' = [wire EXCEPT
          !.completed = <<>>,
          !.events = [h \in Hosts |->
             @[h] \o SelectSeq(wire.completed, LAMBDA n : n.cmd.h = h)]]
    /\ UNCHANGED <<sc, rank>>

-----------------------------------------------------------------------------
(* With contexts and teams made before, the element of the last team has been *)
(* in every slot.                                                             *)
Ready == IF sc.ready THEN Hosts ELSE {}

UsedSlot(t) ==
    LET c == Cmd(sc.hosts - 1, "team", 0) IN
    IF sc.ready THEN [FreeSlot EXCEPT !.barrier = c, !.nd = IF t = 0 THEN c ELSE NoCmd]
    ELSE FreeSlot

InitWorker ==
    [cmds |-> <<>>, ids |-> IF sc.ready THEN [h \in Hosts |-> h] ELSE <<>>,
     ctx_id |-> Cardinality(Ready), nr_connections |-> Cardinality(Ready),
     lib |-> Ready, ctx |-> Ready,
     building |-> {}, enabled |-> TRUE, completed |-> <<>>, bad |-> FALSE,
     early |-> FALSE, broken |-> FALSE,
     main |-> [at |-> "idle", cmd |-> NoCmd, i |-> 0, slot |-> 0],
     thread |-> [t \in Threads |-> IF sc.ready THEN [Idle EXCEPT !.at = "top"] ELSE Idle],
     slot |-> [t \in Threads |-> [s \in Slots |-> UsedSlot(t)]],
     front |-> [t \in Threads |-> 0], tail |-> [t \in Threads |-> 0],
     size |-> [t \in Threads |-> 0],
     sub |-> [e \in Elements |-> "none"],
     arrived |-> [c \in CollCmds \cup TeamCmds |->
                     IF c.h \in Ready /\ c.op = "team" THEN 0 .. sc.tpp - 1 ELSE {}],
     freed |-> [c \in CollCmds |-> 0],
     events |-> [h \in Hosts |-> <<>>],
     told |-> [c \in Cmds |-> IF c.h \in Ready /\ c.op = "team" THEN 1 ELSE 0]]

Init ==
    /\ sc \in Scenarios
    /\ rank = [h \in Hosts |-> NewHost]
    /\ wire = InitWorker

AllAnswered == \A h \in Hosts :
    rank[h].at \in {"failed", "done"} \/ (~sc.teardown /\ rank[h].at = "over")

(* What may leave a host waiting: a command that was not submitted, a thread  *)
(* that ended while elements of others are in its queue or at a barrier, and  *)
(* an element that was taken before it was filled.                            *)
Unsent == \E f \in sc.fail : f[2] = "submit" /\ f[3] > 0
Settled ==
    \/ AllAnswered \/ Unsent \/ wire.early
    \/ wire.broken /\ (sc.hosts > 1 \/ sc.tpp > 1 \/ \E h \in Hosts : rank[h].mixed)

Next ==
    /\ Ours
    /\ \/ \E h \in Hosts : Host(h) \/ BuildContext(h)
       \/ WorkerCmd \/ MainStep \/ WorkerProgress
       \/ \E t \in Threads : ThreadStep(t)
       \/ \E e \in Elements : Complete(e)
       \/ Settled /\ UNCHANGED vars

(* Processes and threads keep running, and what was posted on the DPU ends.   *)
Fairness ==
    /\ \A h \in 0 .. 1 : WF_vars(Ours /\ h \in Hosts /\ (Host(h) \/ BuildContext(h)))
    /\ WF_vars(Ours /\ (WorkerCmd \/ MainStep))
    /\ WF_vars(Ours /\ WorkerProgress)
    /\ \A t \in 0 .. 1 : WF_vars(Ours /\ t \in Threads /\ ThreadStep(t))
    /\ WF_vars(Ours /\ \E e \in Elements : Complete(e))

Spec == Init /\ [][Next]_vars /\ Fairness

-----------------------------------------------------------------------------
\* What a host reports as successful is over on the DPU, on every thread that
\* runs a part of it, as long as the host keeps one collective outstanding;
\* with several, any answer ends any of them, and all that is left is that no
\* more are reported than were answered (coll_full_progress,
\* pthread_barrier_wait).  The host goes by the status of the collective alone;
\* that is success, too, for one the worker could not prepare, of which only
\* the result tells.  Nothing is said once a thread took an element before it
\* was filled.
IsOver(h, k) == LET c == Cmd(h, sc.ops[h][k], k) IN
    \A i \in Parts(c) : wire.sub[Element(c, i)] = "over"
IsAnswered(h, k) == wire.told[Cmd(h, sc.ops[h][k], k)] > 0
Succeeded(h) == {k \in DOMAIN rank[h].seen : rank[h].seen[k] = [status |-> "ok", result |-> "ok"]}
Delivered == Ours /\ ~wire.early =>
    \A h \in Hosts :
       /\ ~rank[h].mixed => \A k \in Succeeded(h) : IsOver(h, k)
       /\ Cardinality(Succeeded(h)) <= Cardinality({k \in DOMAIN sc.ops[h] : IsAnswered(h, k)})

\* A command is answered at most once, unless a thread took an element before
\* it was filled (ucc_worker_safe_push_notification, nd).  Keys are freed at
\* most once when a process has one thread and its collectives are of one kind:
\* an alltoall does not set the keys of its slot, and frees those an allreduce
\* left there when it moved on.
AnsweredOnce == Ours /\ ~wire.early =>
    /\ \A c \in Cmds : wire.told[c] <= 1
    /\ sc.tpp = 1 /\ Cardinality({c.op : c \in CollCmds}) <= 1 => \A c \in CollCmds : wire.freed[c] <= 1

\* Claiming a slot never meets one that is still in use, and an element that is
\* posted and not answered is in exactly one slot unless it is being moved
\* (find_qe_slot).  One for which the full ring has no slot to move to is
\* answered with an error while its collective runs on.
Held(t, e) == {s \in Slots : wire.slot[t][s].in_use /\ wire.slot[t][s].el = e}
ElementsKept == Ours =>
    /\ ~wire.bad
    /\ \A e \in Elements :
          (wire.sub[e] = "posted" /\ wire.told[e.cmd] = 0 /\ wire.main.at \notin {"fill"}) =>
             LET t == thread_of(wire, e) IN
             wire.thread[t].at # "write" => Cardinality(Held(t, e)) = 1

\* A context that could not be created leaves no DOCA object open on the host
\* but the exported buffer of the workers' addresses, which some failures leave
\* registered (the labels of UCC_CLASS_INIT_FUNC(ucc_cl_doca_urom_context_t)).
Unwound == Ours => \A h \in Hosts : rank[h].at = "failed" => rank[h].held \subseteq {"buffer"}

\* Every host gets an answer to each of its requests and collectives: it ends
\* with its context destroyed or not created, or has all its results, with the
\* exceptions of Settled.
Completes == <>(Ours => Settled)
=============================================================================
