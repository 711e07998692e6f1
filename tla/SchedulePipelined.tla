------------------------- MODULE SchedulePipelined -------------------------
(***************************************************************************)
(* Pipelined schedules (schedule/ucc_schedule_pipelined.c): n_frags        *)
(* schedules are launched again and again until n_tasks fragments were     *)
(* processed.  Extends Schedule by the post of the pipelined schedule and  *)
(* the two handlers of its fragments.                                      *)
(*                                                                         *)
(* ucc_frag_start_handler updates the counters of the pipeline without     *)
(* the lock when the post launches the first fragments, so its reads and   *)
(* its writes are steps of their own.                                      *)
(***************************************************************************)
EXTENDS Schedule

VARIABLES
    n_frags_started,
    next_frag_to_post,
    n_frags_in_pipeline,
    lock,          \* <<owner, depth>> of the recursive spinlock
    setups         \* frag_setup calls of this post: fragment and its number

counters == <<n_frags_started, next_frag_to_post, n_frags_in_pipeline>>
pipevars == <<counters, lock, setups>>
pvars == <<vars, pipevars>>

Frags   == Graph.frags[Root]
n_frags == Len(Frags)
Total   == Graph.n_tasks[Root]

PInit ==
    /\ Init
    /\ n_frags_started = 0
    /\ next_frag_to_post = 0
    /\ n_frags_in_pipeline = 0
    /\ lock = <<NULL, 0>>
    /\ setups = << >>

FragTasks(f) == {Graph.tasks[f][j] : j \in 1 .. Len(Graph.tasks[f])}
AllFragTasks == UNION {FragTasks(Frags[i]) : i \in 1 .. n_frags}

\* The first fragment has no fragment before it, so its tasks start with the
\* dependency on the previous fragment satisfied.
FirstSatisfied(x) ==
    IF x \in FragTasks(Frags[1]) /\ n_frags > 1 /\ Graph.order[Root] # "parallel"
    THEN 1 ELSE 0

\* ucc_schedule_pipelined_post, with the ucc_schedule_start it ends in
PipelinedPost(t) ==
    /\ Running(t, "post")
    /\ IsPipelined(Top(t).task)
    /\ n_completed' = [x \in Tasks |-> 0]
    /\ n_frags_started' = 0
    /\ next_frag_to_post' = 0
    /\ n_frags_in_pipeline' = 0
    /\ n_deps' = [x \in Tasks |->
         IF x \in AllFragTasks THEN Graph.n_deps_base[x] ELSE n_deps[x]]
    /\ n_satisfied' = [x \in Tasks |->
         IF x \in AllFragTasks THEN FirstSatisfied(x) ELSE n_satisfied[x]]
    /\ ustatus' = [x \in Tasks |->
         IF x = Root THEN "INPROGRESS" ELSE "INITIALIZED"]
    /\ status' = [status EXCEPT ![Root] = "INPROGRESS"]
    /\ n_runs' = [n_runs EXCEPT ![Root] = @ + 1]
    /\ setups' = << >>
    /\ Jump(t, NotifyFrame(Root, "SCHEDULE_STARTED"))
    /\ UNCHANGED <<queued, uservars, lock>>

-----------------------------------------------------------------------------
(* ucc_frag_start_handler                                                  *)

\* the counters are read; frag_setup gets the number of the fragment, and a
\* setup that fails ends the handler
FragStartRead(t) ==
    /\ Running(t, "frag_start")
    /\ Top(t).at = 1
    /\ \/ /\ setups' = Append(setups, [frag |-> Top(t).task,
                                       num |-> n_frags_started])
          /\ Jump(t, [Top(t) EXCEPT !.at = 2, !.n = counters])
       \/ /\ "ERR" \in Outcomes
          /\ Return(t, "ERR")
          /\ UNCHANGED setups
    /\ UNCHANGED <<taskvars, queued, n_runs, uservars, counters, lock>>

NextFrag(n) == (n + 1) % n_frags

\* Defect: the fragment is not counted as started.
MutFragStartWrite(t) ==
    /\ Running(t, "frag_start")
    /\ Top(t).at = 2
    /\ next_frag_to_post' = NextFrag(Top(t).n[2])
    /\ n_frags_in_pipeline' = Top(t).n[3] + 1
    /\ Jump(t, Frame("post", Top(t).task, Root))
    /\ UNCHANGED <<taskvars, queued, n_runs, uservars, n_frags_started, lock,
                   setups>>

\* the counters are written, and the fragment is posted
FragStartWrite(t) ==
    /\ Running(t, "frag_start")
    /\ Top(t).at = 2
    /\ n_frags_started' = Top(t).n[1] + 1
    /\ next_frag_to_post' = NextFrag(Top(t).n[2])
    /\ n_frags_in_pipeline' = Top(t).n[3] + 1
    /\ Jump(t, Frame("post", Top(t).task, Root))
    /\ UNCHANGED <<taskvars, queued, n_runs, uservars, lock, setups>>

-----------------------------------------------------------------------------
(* ucc_schedule_pipelined_completed_handler                                *)

LockFree(t) == MT => lock[1] \in {NULL, t}

Unlocked == IF ~MT THEN lock
            ELSE IF lock[2] = 1 THEN <<NULL, 0>> ELSE <<lock[1], lock[2] - 1>>

\* the lock is taken, the completed fragment counted, the pipeline read
PipelinedCompletedLock(t) ==
    /\ Running(t, "pipelined_completed")
    /\ Top(t).at = 1
    /\ LockFree(t)
    /\ lock' = IF MT THEN <<t, lock[2] + 1>> ELSE lock
    /\ n_completed' = [n_completed EXCEPT ![Root] = @ + 1]
    /\ Jump(t, [Top(t) EXCEPT !.at = 2, !.n = <<n_frags_in_pipeline>>])
    /\ UNCHANGED <<status, ustatus, n_deps, n_satisfied, queued, n_runs,
                   uservars, counters, setups>>

\* Defect: the completed fragment stays in the pipeline.
MutLeave(n) == n

Leave(n) == n - 1

\* Defect: the schedule completes one fragment early.
MutIsLastFrag(n) == n + 1 >= Total

IsLastFrag(n) == n = Total

\* the fragment leaves the pipeline; the last one completes the schedule
PipelinedCompletedCount(t) ==
    /\ Running(t, "pipelined_completed")
    /\ Top(t).at = 2
    /\ n_frags_in_pipeline' = Leave(Top(t).n[1])
    /\ IF IsLastFrag(n_completed[Root])
       THEN /\ status' = [status EXCEPT ![Root] = "OK"]
            /\ lock' = Unlocked
            /\ Call(t, ReturnFrame(Root, "OK"), CompleteFrame(Root))
       ELSE /\ Jump(t, [Top(t) EXCEPT !.at = 3, !.local = Top(t).arg])
            /\ UNCHANGED <<status, lock>>
    /\ UNCHANGED <<ustatus, n_deps, n_satisfied, n_completed, queued, n_runs,
                   uservars, n_frags_started, next_frag_to_post, setups>>

NextToPost == Frags[next_frag_to_post + 1]


MayRestart(f) == /\ n_completed[Root] + n_frags_in_pipeline < Total
                 /\ status[f] = "OK"

RestartDeps(x) == n_deps[x] + Graph.n_deps_base[x]

\* One turn of the loop: the fragment that is next in the ring is restarted if
\* it is idle and fragments are left; otherwise the loop ends.
PipelinedRestart(t) ==
    /\ Running(t, "pipelined_completed")
    /\ Top(t).at = 3
    /\ LET f == Top(t).local IN
       IF ~MayRestart(f)
       THEN /\ lock' = Unlocked
            /\ Return(t, "OK")
            /\ UNCHANGED taskvars
       ELSE IF f = NextToPost
       THEN /\ status' = [x \in Tasks |-> IF x = f \/ x \in FragTasks(f)
                                          THEN "INITIALIZED" ELSE status[x]]
            /\ n_completed' = [n_completed EXCEPT ![f] = 0]
            /\ n_deps' = [x \in Tasks |-> IF x \in FragTasks(f)
                                          THEN RestartDeps(x) ELSE n_deps[x]]
            /\ Call(t, [Top(t) EXCEPT !.at = 4],
                    Frame("frag_start", f, Root))
            /\ UNCHANGED <<ustatus, n_satisfied, lock>>
       ELSE /\ Jump(t, [Top(t) EXCEPT !.at = 4])
            /\ UNCHANGED <<taskvars, lock>>
    /\ UNCHANGED <<queued, n_runs, uservars, counters, setups>>

\* the next fragment of the ring, until the loop is back at the completed one
PipelinedAdvance(t) ==
    /\ Running(t, "pipelined_completed")
    /\ Top(t).at = 4
    /\ IF NextToPost = Top(t).arg
       THEN lock' = Unlocked /\ Return(t, "OK")
       ELSE /\ Jump(t, [Top(t) EXCEPT !.at = 3, !.local = NextToPost])
            /\ UNCHANGED lock
    /\ UNCHANGED <<taskvars, queued, n_runs, uservars, counters, setups>>

-----------------------------------------------------------------------------
PStep(t) ==
    \/ PipelinedPost(t)
    \/ FragStartRead(t) \/ FragStartWrite(t)
    \/ PipelinedCompletedLock(t) \/ PipelinedCompletedCount(t)
    \/ PipelinedRestart(t) \/ PipelinedAdvance(t)
    \/ Step(t) /\ UNCHANGED pipevars

PNext ==
    \E t \in req.callers :
        \/ PStep(t)
        \/ (Progress(t) \/ UserPost(t) \/ UserTest(t) \/ UserFinalize(t))
             /\ UNCHANGED pipevars

PSpec == PInit /\ [][PNext]_pvars

\* as in Schedule (a fragment is completed finitely often, so a thread that waits
\* for the spinlock gets it)
PFairness ==
    \A t \in Threads :
        /\ WF_pvars(PStep(t))
        /\ WF_pvars(t \in req.callers /\ Progress(t) /\ UNCHANGED pipevars)
        /\ WF_pvars(t \in req.callers /\ UserTest(t) /\ UNCHANGED pipevars)

PFairSpec == PSpec /\ PFairness

-----------------------------------------------------------------------------
(* Properties                                                              *)

\* The counters of the pipeline stay in range.
PTypeOK ==
    /\ TypeOK
    /\ n_frags_started \in 0 .. Total
    /\ next_frag_to_post \in {0} \cup 0 .. n_frags - 1
    /\ n_frags_in_pipeline \in 0 .. n_frags
    /\ lock \in ({NULL} \X {0}) \cup (Threads \X (1 .. Total))

\* frag_setup is called for the fragments 0, 1, 2, ... in this order, each once:
\* every part of the buffers is processed, none twice (ucc_frag_start_handler;
\* "frag_num - is the sequencial number of currently launched fragment").
SetupsInOrder == \A i \in 1 .. Len(setups) : setups[i].num = i - 1

\* the fragments whose tasks have been set up and not all ended
Outstanding(f) ==
    \E x \in FragTasks(f) :
        \/ status[x] = "INPROGRESS"
        \/ n_runs[x] < Len(SelectSeq(setups, LAMBDA s : s.frag = f))


\* number of times a task of the pipeline has ended
Ended(x) == IF status[x] = "INPROGRESS" THEN n_runs[x] - 1 ELSE n_runs[x]

\* Within a fragment the tasks keep their order in every launch; between
\* fragments task j waits for task j of the fragment before it to start (ordered)
\* or to end (sequential), as ucc_pipeline_order_t says.
PipelineOrder ==
    \A i \in 1 .. n_frags : \A j \in 1 .. Len(Graph.tasks[Frags[i]]) :
        LET x    == Graph.tasks[Frags[i]][j]
            prev == Graph.tasks[Frags[((i + n_frags - 2) % n_frags) + 1]][j]
            lead == IF i = 1 THEN 1 ELSE 0
        IN  /\ j > 1 => n_runs[x] <= Ended(Graph.tasks[Frags[i]][j - 1])
            /\ n_frags > 1 /\ Graph.order[Root] = "ordered"
                 => n_runs[x] <= n_runs[prev] + lead
            /\ n_frags > 1 /\ Graph.order[Root] = "sequential"
                 => n_runs[x] <= Ended(prev) + lead

\* Where one thread at a time updates the counters of a pipeline: the post updates
\* them without the lock, so not with two threads and more than one fragment.
CountersSafe == ~MT \/ n_frags = 1

\* If nothing fails, a pipelined schedule whose counters one thread updates is
\* complete only when every fragment was set up and every task of every launch
\* has ended (ucc_schedule_pipelined_completed_handler).
AllFragmentsDone ==
    IsPipelined(Root) /\ CountersSafe /\ Phase = "complete" /\ Outcomes = {"OK"} =>
        /\ Len(setups) = Total
        /\ \A i \in 1 .. n_frags : ~Outstanding(Frags[i])

\* A fragment is counted in the pipeline from its launch to its completion
\* ("number of frags active in the pipeline"): where one thread at a time updates
\* the counters, and no thread is inside the library, the counter is the number
\* of launches that have not completed.
PipelineCount ==
    /\ IsPipelined(Root)
    /\ CountersSafe
    /\ \A t \in Threads : stack[t] = << >>
    /\ user = "waiting"
    =>
        n_frags_in_pipeline = Len(setups) - n_completed[Root]

\* No more fragments are launched than the message was cut into
\* (ucc_schedule_pipelined.h: "n_frags_total - total number of fragments to be
\* launched").
LaunchesBounded == Len(setups) <= Total
=============================================================================
