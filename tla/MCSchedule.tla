---------------------------- MODULE MCSchedule ----------------------------
(***************************************************************************)
(* Requests over the graphs that the layers build, for TLC.                *)
(***************************************************************************)
EXTENDS SchedulePipelined

CONSTANTS t1, t2

MCThreads == {t1, t2}
MCTasks   == {"request", "f1", "f2", "a", "b", "c", "d"}
Single    == EmptyGraph(MCTasks)       \* one task of a TL

Chain(n) == SubSeq(<<"a", "b", "c", "d">>, 1, n)

\* cl/hier: reduce, allreduce, bcast; or the four steps of its allgatherv
Rab(n) == RabSchedule(Single, "request", Chain(n), 1)

\* the same with counted dependencies, as cl/hier's bcast and reduce in two steps
Counted(n) == RabSchedule(Single, "request", Chain(n), 2)

\* cl/hier's alltoallv: within the node and across nodes
Split == NodeSplitSchedule(Single, "request", "a", "b")

\* total fragments over two fragment schedules of two tasks, or over one
Pipe(total, order) ==
    PipelinedInit(RabSchedule(RabSchedule(Single, "f1", <<"a", "b">>, total),
                              "f2", <<"c", "d">>, total),
                  "request", <<"f1", "f2">>, total, order)

Depth1 == PipelinedInit(RabSchedule(Single, "f1", <<"a", "b">>, 3),
                        "request", <<"f1">>, 3, "sequential")

MCRequest(graph, outcomes, callers) ==
    [graph |-> graph, executor |-> {}, outcomes |-> outcomes,
     persistent |-> FALSE, callers |-> callers]

Persistent(r) == [r EXCEPT !.persistent = TRUE]
Executor(r)   == [r EXCEPT !.executor = {"request"}]

\* One schedule on two threads, with failures, longer without, or posted twice;
\* the executor of a request is stopped at its end.
Plain ==
    {MCRequest(g, {"OK", "ERR"}, MCThreads) :
        g \in {Single, Rab(3), Counted(2), Split}}
    \cup {MCRequest(g, {"OK"}, MCThreads) : g \in {Rab(4), Counted(3), Split}}
    \cup {Persistent(MCRequest(Rab(3), {"OK"}, MCThreads)),
          Executor(MCRequest(Single, {"OK"}, {t1})),
          Executor(MCRequest(Rab(3), {"OK"}, {t1}))}

\* Three fragments in the three orders on one thread; with failures; two threads
\* on one fragment schedule, and on two, where they meet at the dependencies.
Pipelines ==
    {MCRequest(Pipe(3, order), {"OK"}, {t1}) :
        order \in {"parallel", "ordered", "sequential"}}
    \cup {MCRequest(Pipe(3, "sequential"), {"OK", "ERR"}, {t1}),
          MCRequest(Depth1, {"OK"}, MCThreads)}
    \cup {MCRequest(Pipe(2, order), {"OK"}, MCThreads) :
            order \in {"ordered", "sequential"}}

MCRequests == Plain \cup Pipelines

\* the graphs of one schedule are of the shape the proofs are about
ASSUME OneScheduleEach ==
    \A r \in Plain : OneSchedule(r.graph, MCTasks, "request")

TimesOut == {MCRequest(Split, {"OK", "TIMED_OUT"}, {t1})}
Failing  == {MCRequest(Pipe(3, "sequential"), {"OK", "ERR"}, {t1})}
Released == {MCRequest(Rab(3), {"OK"}, MCThreads)}
=============================================================================
