----------------------------- MODULE TaskGraph -----------------------------
(***************************************************************************)
(* How the init functions build a graph of tasks and schedules.  A graph   *)
(* is a record: the listeners of every task in the order the event         *)
(* managers visit them, the schedule a task belongs to, the tasks of a     *)
(* schedule, and the dependency counters the init functions leave.         *)
(***************************************************************************)
EXTENDS Naturals, Sequences, FiniteSets

CONSTANTS NULL

\* ucc_coll_task_init of every task, schedules included
EmptyGraph(Tasks) ==
    [listeners   |-> [x \in Tasks |-> << >>],
     schedule    |-> [x \in Tasks |-> NULL],
     tasks       |-> [x \in Tasks |-> << >>],
     frags       |-> [x \in Tasks |-> << >>],
     n_tasks     |-> [x \in Tasks |-> 0],
     order       |-> [x \in Tasks |-> NULL],
     n_deps      |-> [x \in Tasks |-> 0],
     n_deps_base |-> [x \in Tasks |-> 0]]

\* ucc_event_manager_subscribe: the listener is added behind the others, in a
\* new event manager when the last one is full.
Subscribe(g, parent, event, x, handler) ==
    [g EXCEPT !.listeners[parent] =
        Append(@, [task |-> x, event |-> event, handler |-> handler])]

\* ucc_task_subscribe_dep
SubscribeDep(g, target, subscriber, event) ==
    [Subscribe(g, target, event, subscriber, "dependency")
        EXCEPT !.n_deps[subscriber] = @ + 1]

\* ucc_schedule_add_task
AddTask(g, s, x) ==
    [Subscribe(g, x, "COMPLETED_SCHEDULE", s, "schedule_completed")
        EXCEPT !.schedule[x] = s, !.tasks[s] = Append(@, x),
               !.n_tasks[s] = @ + 1]

\* cl/hier's reduce-allreduce-bcast: one task after the other.  With one
\* fragment the tasks are started by events, with more they count dependencies
\* so that the pipeline can add its own.
RabSchedule(g, s, xs, n_frags) ==
    LET Start(h, parent, event, x) ==
            IF n_frags > 1 THEN SubscribeDep(h, parent, x, event)
                           ELSE Subscribe(h, parent, event, x, "start")
        Build[i \in 0 .. Len(xs)] ==
            IF i = 0 THEN g
            ELSE IF i = 1
            THEN Start(AddTask(g, s, xs[1]), s, "SCHEDULE_STARTED", xs[1])
            ELSE LET h == Build[i - 1] IN
                 IF n_frags > 1
                 THEN Start(AddTask(h, s, xs[i]), xs[i - 1], "COMPLETED", xs[i])
                 ELSE AddTask(Start(h, xs[i - 1], "COMPLETED", xs[i]), s, xs[i])
    IN  Build[Len(xs)]

\* cl/hier's alltoallv: the task within the node and the one across nodes start
\* with the schedule, through the dependency handler.
NodeSplitSchedule(g, s, node, full) ==
    LET h == SubscribeDep(AddTask(g, s, node), s, node, "SCHEDULE_STARTED")
    IN  SubscribeDep(AddTask(h, s, full), s, full, "SCHEDULE_STARTED")

\* Defect: the tasks of sequential fragments are ordered by their starts.
MutDependencyEvent(order) == IF order = "parallel" THEN NULL ELSE "TASK_STARTED"

\* What orders the tasks of different fragments.
DependencyEvent(order) ==
    CASE order = "parallel"   -> NULL
      [] order = "ordered"    -> "TASK_STARTED"
      [] order = "sequential" -> "COMPLETED"

\* ucc_schedule_pipelined_init, over fragments that frag_init has built: task j
\* of a fragment also waits for task j of the fragment before it in the ring.
PipelinedInit(g, p, frags, total, order) ==
    LET n     == Len(frags)
        event == IF n > 1 THEN DependencyEvent(order) ELSE NULL
        FragTask(h, i, j) ==
            LET x    == g.tasks[frags[i]][j]
                prev == g.tasks[frags[((i + n - 2) % n) + 1]][j]
            IN  IF event = NULL
                THEN [h EXCEPT !.n_deps_base[x] = g.n_deps[x]]
                ELSE [Subscribe(h, prev, event, x, "dependency")
                        EXCEPT !.n_deps_base[x] = g.n_deps[x] + 1]
        FragTasks(h, i) ==
            LET T[j \in 0 .. Len(g.tasks[frags[i]])] ==
                    IF j = 0 THEN h ELSE FragTask(T[j - 1], i, j)
            IN  T[Len(g.tasks[frags[i]])]
        Frags[i \in 0 .. n] ==
            IF i = 0
            THEN [g EXCEPT !.frags[p] = frags, !.n_tasks[p] = total,
                           !.order[p] = order]
            ELSE LET h == FragTasks([Frags[i - 1]
                                       EXCEPT !.schedule[frags[i]] = p], i)
                     k == Subscribe(h, p, "SCHEDULE_STARTED", frags[i],
                                    "frag_start")
                 IN  Subscribe(k, frags[i], "COMPLETED_SCHEDULE", p,
                               "pipelined_completed")
    IN  Frags[n]

-----------------------------------------------------------------------------
(* What the init functions build                                           *)

Events == {"COMPLETED", "COMPLETED_SCHEDULE", "SCHEDULE_STARTED",
           "TASK_STARTED", "ERROR"}

Handlers == {"start", "dependency", "schedule_completed", "frag_start",
             "pipelined_completed"}

IsGraph(g, Tasks) ==
    /\ g.listeners \in
         [Tasks -> Seq([task : Tasks, event : Events, handler : Handlers])]
    /\ g.schedule \in [Tasks -> Tasks \cup {NULL}]
    /\ g.tasks \in [Tasks -> Seq(Tasks)]
    /\ g.frags \in [Tasks -> Seq(Tasks)]
    /\ g.n_deps \in [Tasks -> Nat]

Members(g, Tasks, s) == {x \in Tasks : g.schedule[x] = s}

\* A listener of p in a graph whose only schedule is s: s counts the completions
\* of its tasks, and its tasks start with s, or when a task has completed.
IsListener(g, s, p, l) ==
    \/ /\ l.handler = "schedule_completed"
       /\ l.event = "COMPLETED_SCHEDULE"
       /\ l.task = s
       /\ g.schedule[p] = s
    \/ /\ l.handler \in {"start", "dependency"}
       /\ g.schedule[l.task] = s
       /\ \/ p = s /\ l.event = "SCHEDULE_STARTED"
          \/ g.schedule[p] = s /\ l.event = "COMPLETED"

\* One schedule over leaf tasks, each added once, started by one event or by
\* counted dependencies: what cl/hier builds when there is one fragment.
OneSchedule(g, Tasks, s) ==
    /\ g.schedule[s] = NULL
    /\ \A x \in Tasks :
          /\ g.schedule[x] \in {NULL, s}
          /\ g.frags[x] = << >>
          /\ x # s => g.tasks[x] = << >>
    /\ Members(g, Tasks, s) = {g.tasks[s][i] : i \in 1 .. Len(g.tasks[s])}
    /\ IsFiniteSet(Members(g, Tasks, s))
    /\ Cardinality(Members(g, Tasks, s)) = Len(g.tasks[s])
    /\ \A p \in Tasks : \A i \in 1 .. Len(g.listeners[p]) :
          /\ IsListener(g, s, p, g.listeners[p][i])
          /\ \A q \in Tasks : \A j \in 1 .. Len(g.listeners[q]) :
                LET l == g.listeners[p][i]
                    m == g.listeners[q][j]
                IN  /\ (/\ l.handler = "start"
                        /\ m.handler \in {"start", "dependency"}
                        /\ l.task = m.task) => p = q /\ i = j
                    /\ (/\ l.handler = "schedule_completed"
                        /\ m.handler = "schedule_completed"
                        /\ p = q) => i = j
=============================================================================
