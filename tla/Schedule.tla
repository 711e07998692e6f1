------------------------------ MODULE Schedule ------------------------------
(***************************************************************************)
(* Tasks, event managers and schedules (schedule/ucc_schedule.[ch], the    *)
(* dependency handler) driven by the progress queue and by a user that     *)
(* posts, tests, posts again and finalizes one request.                    *)
(*                                                                         *)
(* Completing a task notifies its listeners, whose handlers post and       *)
(* complete further tasks: the calls nest.  Each thread has a stack of     *)
(* frames, so that other threads run between any two accesses to shared    *)
(* fields.  The progress queue is the abstract TaskPool: a thread takes a  *)
(* queued task, and progress either leaves it queued (no step) or ends it. *)
(***************************************************************************)
EXTENDS TaskGraph

CONSTANTS Threads,
          Tasks,        \* ucc_coll_task_t, the schedules included
          Root,         \* the request of the user
          Requests,     \* the kinds of requests that are considered
          MaxPosts      \* bound: posts of the request

VARIABLE req   \* the request: what the init functions built, and its user
               \*   graph       the tasks (TaskGraph)
               \*   executor    tasks with an executor to stop at the end
               \*   outcomes    what progress may end a task with
               \*   persistent  UCC_COLL_ARGS_FLAG_PERSISTENT is set
               \*   callers     the threads that call the library

ASSUME ScheduleAssumption ==
    /\ IsFiniteSet(Threads)
    /\ Root \in Tasks
    /\ NULL \notin Tasks
    /\ \A r \in Requests :
          /\ IsGraph(r.graph, Tasks)
          /\ r.executor \subseteq Tasks
          /\ r.outcomes \subseteq {"OK", "ERR", "TIMED_OUT"}
          /\ r.persistent \in BOOLEAN
          /\ r.callers \subseteq Threads
    /\ MaxPosts \in Nat \ {0}

Graph     == req.graph
Outcomes  == req.outcomes
MT        == Cardinality(req.callers) > 1   \* UCC_THREAD_MULTIPLE

Status == {"INITIALIZED", "INPROGRESS", "OK", "ERR", "TIMED_OUT"}
Failed == {"ERR", "TIMED_OUT"}

IsSchedule(x)  == Graph.tasks[x] # << >>
IsPipelined(x) == Graph.frags[x] # << >>
IsLeaf(x)      == ~IsSchedule(x) /\ ~IsPipelined(x)
Listeners(x)   == Graph.listeners[x]

VARIABLES
    status,       \* task->status
    ustatus,      \* task->super.status, what the user sees
    n_deps,
    n_satisfied,  \* task->n_deps_satisfied
    n_completed,  \* schedule->n_completed_tasks
    queued,       \* tasks in the progress queue
    stack,        \* stack[t]: frames of thread t, innermost first
    ret,          \* ret[t]: status the last call of thread t returned
    user,         \* what the user does with the request
    n_posts,
    n_runs,       \* n_runs[x]: times x was posted since the request was
    released      \* tasks that were finalized

taskvars == <<status, ustatus, n_deps, n_satisfied, n_completed>>
uservars == <<user, n_posts, released, req>>
vars == <<taskvars, queued, stack, ret, n_runs, uservars>>

Init ==
    /\ req \in Requests
    /\ status = [x \in Tasks |-> "INITIALIZED"]
    /\ ustatus = [x \in Tasks |-> "INITIALIZED"]
    /\ n_deps = Graph.n_deps
    /\ n_satisfied = [x \in Tasks |-> 0]
    /\ n_completed = [x \in Tasks |-> 0]
    /\ queued = {}
    /\ stack = [t \in Threads |-> << >>]
    /\ ret = [t \in Threads |-> "OK"]
    /\ user = "idle"
    /\ n_posts = 0
    /\ n_runs = [x \in Tasks |-> 0]
    /\ released = {}

-----------------------------------------------------------------------------
(* Frames and calls                                                        *)

\* A frame: the function, the task it works on, its other argument, the point
\* it has reached, a status or task and the counters it keeps in its locals.
Frame(fn, x, arg) == [fn |-> fn, task |-> x, arg |-> arg, at |-> 1,
                      local |-> NULL, n |-> << >>]

NotifyFrame(x, event) == Frame("notify", x, event)
CompleteFrame(x)      == Frame("complete", x, NULL)
ErrorFrame(parent, x) == [Frame("error", x, parent) EXCEPT !.at = 0]
ReturnFrame(x, st)    == [Frame("return", x, NULL) EXCEPT !.local = st]

Running(t, fn) == stack[t] # << >> /\ Head(stack[t]).fn = fn
Top(t) == Head(stack[t])

Jump(t, f) ==      \* go on with f in place of the running frame
    /\ stack' = [stack EXCEPT ![t] = <<f>> \o Tail(@)]
    /\ ret' = [ret EXCEPT ![t] = "OK"]

Call(t, f, g) ==   \* call g; f is the running frame as g returns to it
    /\ stack' = [stack EXCEPT ![t] = <<g, f>> \o Tail(@)]
    /\ ret' = [ret EXCEPT ![t] = "OK"]

Return(t, st) ==
    /\ stack' = [stack EXCEPT ![t] = Tail(@)]
    /\ ret' = [ret EXCEPT ![t] = st]

-----------------------------------------------------------------------------
(* ucc_event_manager_notify                                                *)

\* the listeners an event is for
Matches(l, event) == event = "ERROR" \/ l.event = event

NextListener(x, event, i) ==
    {k \in i .. Len(Listeners(x)) :
        /\ Matches(Listeners(x)[k], event)
        /\ \A j \in i .. k - 1 : ~Matches(Listeners(x)[j], event)}

\* The frame of the handler of listener l of task x.
HandlerFrame(x, event, l) ==
    IF event = "ERROR" THEN ErrorFrame(x, l.task)
    ELSE IF l.handler = "start" THEN Frame("post", l.task, x)
    ELSE Frame(l.handler, l.task, x)

\* One turn of the loops over event managers and listeners: the next matching
\* listener is called; a handler that failed ends the notification.
Notify(t) ==
    /\ Running(t, "notify")
    /\ LET f == Top(t) IN
       IF ret[t] # "OK" THEN Return(t, ret[t])
       ELSE IF NextListener(f.task, f.arg, f.at) = {} THEN Return(t, "OK")
       ELSE \E k \in NextListener(f.task, f.arg, f.at) :
              Call(t, [f EXCEPT !.at = k + 1],
                   HandlerFrame(f.task, f.arg, Listeners(f.task)[k]))
    /\ UNCHANGED <<taskvars, queued, n_runs, uservars>>

\* the listeners of p that do not have its status yet
NextBehind(p, i) ==
    {k \in i .. Len(Listeners(p)) :
        /\ ustatus[Listeners(p)[k].task] # ustatus[p]
        /\ \A j \in i .. k - 1 : ustatus[Listeners(p)[j].task] = ustatus[p]}

\* ucc_task_error_handler(parent, task): the status of the parent is copied to
\* the task, then handed on to listeners of the parent that do not have it.
ErrorHandler(t) ==
    /\ Running(t, "error")
    /\ LET f == Top(t)
           p == f.arg
       IN
       IF f.at = 0
       THEN /\ ustatus' = [ustatus EXCEPT ![f.task] = ustatus[p]]
            /\ Jump(t, [f EXCEPT !.at = 1])
       ELSE /\ IF NextBehind(p, f.at) = {}
               THEN Return(t, "OK")
               ELSE \E k \in NextBehind(p, f.at) :
                        Call(t, [f EXCEPT !.at = k + 1],
                             ErrorFrame(f.task, Listeners(p)[k].task))
            /\ UNCHANGED ustatus
    /\ UNCHANGED <<status, n_deps, n_satisfied, n_completed, queued, n_runs,
                   uservars>>

-----------------------------------------------------------------------------
(* ucc_task_complete                                                       *)

\* Defect: the listeners of a failed task are told that it completed.
MutCompletionEvent(st) == "COMPLETED"

CompletionEvent(st) == IF st = "OK" THEN "COMPLETED" ELSE "ERROR"

\* The listeners are notified first.  (An asymmetric buffer is copied out just
\* before; the status of the copy is overwritten by that of the notification.)
CompleteNotify(t) ==
    /\ Running(t, "complete")
    /\ Top(t).at = 1
    /\ LET x == Top(t).task IN
         Call(t, [Top(t) EXCEPT !.at = 2, !.local = status[x]],
              NotifyFrame(x, CompletionEvent(status[x])))
    /\ UNCHANGED <<taskvars, queued, n_runs, uservars>>

\* What the user will see: the status of the notification of COMPLETED, the
\* status of the task if it failed, that of the executor if there is one.
FinalStatus(x, st, notified) ==
    IF x \in req.executor THEN "OK"
    ELSE IF st = "OK" THEN notified ELSE st

\* Then the user sees the status, and last of all the schedule is notified.
CompleteFinish(t) ==
    /\ Running(t, "complete")
    /\ Top(t).at = 2
    /\ LET x  == Top(t).task
           st == FinalStatus(x, Top(t).local, ret[t])
       IN  /\ ustatus' = [ustatus EXCEPT ![x] = st]
           /\ IF Graph.schedule[x] # NULL /\ st = "OK"
              THEN Jump(t, NotifyFrame(x, "COMPLETED_SCHEDULE"))
              ELSE Return(t, st)
    /\ UNCHANGED <<status, n_deps, n_satisfied, n_completed, queued, n_runs,
                   uservars>>

\* a caller that returns a status of its own, whatever its callee returned
ReturnOwn(t) ==
    /\ Running(t, "return")
    /\ Return(t, Top(t).local)
    /\ UNCHANGED <<taskvars, queued, n_runs, uservars>>

-----------------------------------------------------------------------------
(* Handlers                                                                *)

\* ucc_schedule_completed_handler: the atomic increment ...
ScheduleCompletedAdd(t) ==
    /\ Running(t, "schedule_completed")
    /\ Top(t).at = 1
    /\ LET s == Top(t).task IN
         /\ n_completed' = [n_completed EXCEPT ![s] = @ + 1]
         /\ Jump(t, [Top(t) EXCEPT !.at = 2, !.n = <<n_completed[s]>>])
    /\ UNCHANGED <<status, ustatus, n_deps, n_satisfied, queued, n_runs,
                   uservars>>

\* Defect: the schedule completes one task early.
MutIsLastTask(s, before) == before + 2 >= Len(Graph.tasks[s])

IsLastTask(s, before) == before + 1 = Len(Graph.tasks[s])

\* ... and the test for the last task, which completes the schedule.
ScheduleCompletedTest(t) ==
    /\ Running(t, "schedule_completed")
    /\ Top(t).at = 2
    /\ LET s == Top(t).task IN
         IF IsLastTask(s, Top(t).n[1])
         THEN /\ status' = [status EXCEPT ![s] = "OK"]
              /\ Call(t, ReturnFrame(s, "OK"), CompleteFrame(s))
         ELSE Return(t, "OK") /\ UNCHANGED status
    /\ UNCHANGED <<ustatus, n_deps, n_satisfied, n_completed, queued, n_runs,
                   uservars>>

\* ucc_dependency_handler: the atomic increment ...
DependencyAdd(t) ==
    /\ Running(t, "dependency")
    /\ Top(t).at = 1
    /\ LET x == Top(t).task IN
         /\ n_satisfied' = [n_satisfied EXCEPT ![x] = @ + 1]
         /\ Jump(t, [Top(t) EXCEPT !.at = 2, !.n = <<n_satisfied[x]>>])
    /\ UNCHANGED <<status, ustatus, n_deps, n_completed, queued, n_runs,
                   uservars>>

\* Defect: the counter is read again, so two threads may both see the last one.
MutAllSatisfied(x, before) == n_deps[x] = n_satisfied[x]

AllSatisfied(x, before) == n_deps[x] = before + 1

\* ... the test for the last dependency, which posts the task ...
DependencyTest(t) ==
    /\ Running(t, "dependency")
    /\ Top(t).at = 2
    /\ IF AllSatisfied(Top(t).task, Top(t).n[1])
       THEN Call(t, [Top(t) EXCEPT !.at = 3],
                 Frame("post", Top(t).task, Top(t).arg))
       ELSE Return(t, "OK")
    /\ UNCHANGED <<taskvars, queued, n_runs, uservars>>

\* ... and, unless the post failed, tells that the task has started.
DependencyStarted(t) ==
    /\ Running(t, "dependency")
    /\ Top(t).at = 3
    /\ LET x == Top(t).task IN
         IF ret[t] \in Failed THEN Return(t, ret[t])
         ELSE Call(t, ReturnFrame(x, ret[t]), NotifyFrame(x, "TASK_STARTED"))
    /\ UNCHANGED <<taskvars, queued, n_runs, uservars>>

-----------------------------------------------------------------------------
(* task->post                                                              *)

\* A task of a TL: the post fails, or the task is progressed once and either
\* enqueued or completed at once (ucc_progress_queue_enqueue).
PostTask(t) ==
    /\ Running(t, "post")
    /\ IsLeaf(Top(t).task)
    /\ LET x == Top(t).task IN
         /\ n_runs' = [n_runs EXCEPT ![x] = @ + 1]
         /\ \/ /\ "ERR" \in Outcomes
               /\ Return(t, "ERR")
               /\ UNCHANGED <<status, ustatus, queued>>
            \/ /\ status' = [status EXCEPT ![x] = "INPROGRESS"]
               /\ ustatus' = [ustatus EXCEPT ![x] = "INPROGRESS"]
               /\ queued' = queued \cup {x}
               /\ Return(t, "OK")
            \/ \E st \in Outcomes \ {"TIMED_OUT"} :
               /\ status' = [status EXCEPT ![x] = st]
               /\ Jump(t, CompleteFrame(x))
               /\ UNCHANGED <<ustatus, queued>>
    /\ UNCHANGED <<n_deps, n_satisfied, n_completed, uservars>>

\* Defect: a schedule that is posted again keeps its count of completed tasks.
MutStartCount(s) == n_completed[s]

\* schedule->n_completed_tasks as the schedule starts
StartCount(s) == 0

\* ucc_schedule_start
ScheduleStart(t) ==
    /\ Running(t, "post")
    /\ IsSchedule(Top(t).task)
    /\ LET s == Top(t).task IN
         /\ n_completed' = [n_completed EXCEPT ![s] = StartCount(s)]
         /\ status' = [status EXCEPT ![s] = "INPROGRESS"]
         /\ ustatus' = [ustatus EXCEPT ![s] = "INPROGRESS"]
         /\ n_runs' = [n_runs EXCEPT ![s] = @ + 1]
         /\ Jump(t, NotifyFrame(s, "SCHEDULE_STARTED"))
    /\ UNCHANGED <<n_deps, n_satisfied, queued, uservars>>

-----------------------------------------------------------------------------
(* The progress queue                                                      *)

\* pq->progress: a task that is no longer in progress, or whose time is up,
\* leaves the queue and completes.
Progress(t) ==
    /\ stack[t] = << >>
    /\ \E x \in queued, st \in Outcomes :
         /\ queued' = queued \ {x}
         /\ status' = [status EXCEPT ![x] = st]
         /\ stack' = [stack EXCEPT ![t] = <<CompleteFrame(x)>>]
    /\ UNCHANGED <<ustatus, n_deps, n_satisfied, n_completed, ret, n_runs,
                   uservars>>

-----------------------------------------------------------------------------
(* The user                                                                *)

\* COLL_POST_STATUS_CHECK
MayPost == \/ ustatus[Root] = "INITIALIZED"
           \/ ustatus[Root] = "OK" /\ req.persistent

\* ucc_collective_post: a new request, or a persistent one the user has seen
\* complete.
UserPost(t) ==
    /\ stack[t] = << >>
    /\ user = "idle"
    /\ MayPost
    /\ n_posts < MaxPosts
    /\ user' = "posting"
    /\ n_posts' = n_posts + 1
    /\ n_runs' = [x \in Tasks |-> 0]
    /\ stack' = [stack EXCEPT ![t] =
                    <<Frame("post", Root, NULL), Frame("posted", Root, NULL)>>]
    /\ ret' = [ret EXCEPT ![t] = "OK"]
    /\ UNCHANGED <<taskvars, queued, released, req>>

\* ucc_collective_post returns: on success the user waits for the request.
UserPosted(t) ==
    /\ Running(t, "posted")
    /\ user' = IF ret[t] \in Failed THEN "failed" ELSE "waiting"
    /\ Return(t, "OK")
    /\ UNCHANGED <<taskvars, queued, n_posts, n_runs, released, req>>

\* ucc_collective_test: the request is done, and may be posted again if it did
\* not fail.
UserTest(t) ==
    /\ stack[t] = << >>
    /\ user = "waiting"
    /\ ustatus[Root] \in Failed \cup {"OK"}
    /\ user' = IF ustatus[Root] = "OK" THEN "idle" ELSE "failed"
    /\ UNCHANGED <<taskvars, queued, stack, ret, n_posts, n_runs, released, req>>

\* ucc_collective_finalize, refused while the request is in progress; the
\* schedule finalizes its tasks, and all their memory can be used again.
UserFinalize(t) ==
    /\ stack[t] = << >>
    /\ user \in {"idle", "failed"}
    /\ n_posts > 0
    /\ ustatus[Root] # "INPROGRESS"
    /\ user' = "finalized"
    /\ released' = Tasks
    /\ UNCHANGED <<taskvars, queued, stack, ret, n_posts, n_runs, req>>

-----------------------------------------------------------------------------
\* the steps of the calls a thread is in
Step(t) ==
    \/ Notify(t) \/ ErrorHandler(t)
    \/ CompleteNotify(t) \/ CompleteFinish(t) \/ ReturnOwn(t)
    \/ ScheduleCompletedAdd(t) \/ ScheduleCompletedTest(t)
    \/ DependencyAdd(t) \/ DependencyTest(t) \/ DependencyStarted(t)
    \/ PostTask(t) \/ ScheduleStart(t) \/ UserPosted(t)

Next ==
    \E t \in req.callers :
        Step(t) \/ Progress(t) \/ UserPost(t) \/ UserTest(t) \/ UserFinalize(t)

Spec == Init /\ [][Next]_vars

\* A call runs to its end, the threads keep progressing, progress ends every
\* queued task, and the user polls the request.
Fairness ==
    \A t \in Threads :
        /\ WF_vars(Step(t))
        /\ WF_vars(t \in req.callers /\ Progress(t))
        /\ WF_vars(t \in req.callers /\ UserTest(t))

FairSpec == Spec /\ Fairness
-----------------------------------------------------------------------------
(* Properties                                                              *)

Functions == {"notify", "error", "complete", "return", "schedule_completed",
              "dependency", "post", "posted", "frag_start",
              "pipelined_completed"}

\* Every field has its type, and a thread is only in the functions above.
TypeOK ==
    /\ status \in [Tasks -> Status]
    /\ ustatus \in [Tasks -> Status]
    /\ \A x \in Tasks : {n_deps[x], n_satisfied[x], n_completed[x], n_runs[x]}
                          \subseteq Nat
    /\ queued \subseteq Tasks
    /\ \A t \in Threads : \A i \in 1 .. Len(stack[t]) :
          stack[t][i].fn \in Functions /\ stack[t][i].task \in Tasks
    /\ ret \in [Threads -> {"OK"} \cup Failed]
    /\ user \in {"idle", "posting", "waiting", "failed", "finalized"}
    /\ n_posts \in 0 .. MaxPosts
    /\ released \subseteq Tasks

\* However completions, dependencies and posts of the threads interleave, one
\* start of a schedule posts none of its tasks twice: ucc_dependency_handler posts
\* at the last dependency only, also when two threads satisfy the last two at the
\* same time, ucc_task_start_handler at one event only.  A post of the request
\* starts it once.
PostedOnce ==
    /\ n_runs[Root] <= 1
    /\ \A x \in Tasks : LET s == Graph.schedule[x] IN
          s # NULL /\ ~IsPipelined(s) => n_runs[x] <= n_runs[s]

\* A task that was posted in this round finds every task whose completion it
\* waits for posted and complete in this round: the order the init functions
\* subscribe for (e.g. reduce, then allreduce, then bcast) is the order of
\* execution, also when the graph is posted again.
DependenciesFirst ==
    \A x \in Tasks : \A i \in 1 .. Len(Listeners(x)) :
        LET l == Listeners(x)[i] IN
        (/\ Graph.schedule[x] = Root
         /\ l.event = "COMPLETED"
         /\ n_runs[l.task] = 1)
            => n_runs[x] = 1 /\ status[x] = "OK"

\* A request the user sees as complete hides no failure: every task it posted
\* succeeded (ucc_task_complete, ucc_task_error_handler).
NoFailureHidden ==
    user = "idle" /\ n_posts > 0 =>
        \A x \in Tasks : n_runs[x] > 0 => status[x] = "OK"

\* the tasks whose fields the next step of a frame reads
Accessed(f) ==
    CASE f.fn \in {"return", "posted"} -> {}
      [] f.fn = "error" -> {f.task, f.arg}
      [] OTHER -> {f.task}

\* No thread works on a task after the user, having seen the request complete,
\* finalized it (the comment of ucc_task_complete: "user releases schedule from
\* another thread => schedule_finalize => schedule finalizes all the tasks. After
\* that the task ptr should not be accessed").
NoUseAfterRelease ==
    /\ queued \cap released = {}
    /\ \A t \in Threads :
          stack[t] # << >> => Accessed(Top(t)) \cap released = {}

\* What the user sees of a schedule, as the life of a request whose parts are
\* the tasks that do the communication.
Leaves == {x \in Tasks : IsLeaf(x) /\ (x = Root \/ Graph.schedule[x] = Root)}

Todo ==
    IF n_posts = 0 THEN {}
    ELSE {x \in Leaves : n_runs[x] = 0 \/ status[x] # "OK"}

Phase ==
    IF n_posts = 0 THEN "ready"
    ELSE IF n_runs[Root] > 0 /\ ustatus[Root] = "OK" THEN "complete"
    ELSE "active"

Request == INSTANCE RequestLife WITH parts <- Leaves, phase <- Phase,
                                     todo <- Todo

\* The counters and events implement the request: it is seen as complete only
\* when every task has ended, each ends once in a round, and a new round starts
\* from a complete one (ucc_schedule_completed_handler, ucc_task_complete).
RequestSpec == Request!Spec

\* A request whose post succeeded, and whose tasks all succeed, is eventually seen
\* as done: no start is lost between the counters and events of the graph, also
\* the second time ("the persistent collective can be called multiple times").
EventuallyDone ==
    user = "waiting" /\ Outcomes = {"OK"} ~> user # "waiting"

\* A request one of whose tasks timed out is eventually seen to have timed out
\* (ucc.h of ucc_collective_test: "tests and returns the status of collective
\* operation"; test_timeout.cc: "EXPECT_EQ(UCC_ERR_TIMED_OUT, req.wait())").
TimeoutReported ==
    (user = "waiting" /\ \E x \in Tasks : status[x] = "TIMED_OUT")
        ~> ustatus[Root] = "TIMED_OUT"
=============================================================================
