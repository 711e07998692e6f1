--------------------------- MODULE ScheduleInvariant ---------------------------
(***************************************************************************)
(* The first post of a request whose graph is one schedule, for any number *)
(* of threads and tasks: the inductive invariant, and the steps that post  *)
(* tasks or only move on in the calls of a thread.                         *)
(***************************************************************************)
EXTENDS Schedule, TLAPS

Results == {"OK"} \cup Failed

\* the frames of a thread, counted from the outermost call
H(t) == Len(stack[t])
At(t, d) == stack[t][Len(stack[t]) + 1 - d]

Counts == Seq(Nat)

FrameType ==
    [fn : Functions, task : Tasks, arg : Tasks \cup Events \cup {NULL},
     at : Nat, local : Status \cup {NULL}, n : Counts]

Types ==
    /\ req \in Requests
    /\ status \in [Tasks -> Status]
    /\ ustatus \in [Tasks -> Status]
    /\ n_deps = Graph.n_deps
    /\ n_satisfied \in [Tasks -> Nat]
    /\ n_completed \in [Tasks -> Nat]
    /\ queued \subseteq Tasks
    /\ stack \in [Threads -> Seq(FrameType)]
    /\ ret \in [Threads -> Results]
    /\ user \in {"idle", "posting", "waiting", "failed", "finalized"}
    /\ n_posts \in 0 .. MaxPosts
    /\ n_runs \in [Tasks -> Nat]
    /\ released \subseteq Tasks

-----------------------------------------------------------------------------
(* Stacks                                                                  *)

\* What dropping the head of a sequence does to it, counted from its end.
LEMMA DropHead ==
    ASSUME NEW S, NEW s \in Seq(S), s # << >>
    PROVE  LET r == Tail(s) IN
           /\ r \in Seq(S)
           /\ Len(r) = Len(s) - 1
           /\ \A d \in 1 .. Len(s) - 1 :
                 r[Len(r) + 1 - d] = s[Len(s) + 1 - d]
  OBVIOUS

LEMMA TopFrame ==
    ASSUME Types, NEW t \in Threads, stack[t] # << >>
    PROVE  /\ H(t) \in Nat \ {0}
           /\ Top(t) = At(t, H(t))
           /\ Top(t) \in FrameType
  BY DEF Types, H, At, Top

LEMMA FramesType ==
    ASSUME Types
    PROVE  \A t \in Threads : /\ H(t) \in Nat
                              /\ \A d \in 1 .. H(t) : At(t, d) \in FrameType
  BY DEF Types, H, At

\* The step of thread t leaves all other frames alone.
Kept(t) ==
    /\ stack' \in [Threads -> Seq(FrameType)]
    /\ ret' \in [Threads -> Results]
    /\ \A u \in Threads : u # t => H(u)' = H(u)
    /\ \A u \in Threads : \A d \in 1 .. H(u) :
          u # t \/ d < H(t) => At(u, d)' = At(u, d)

Jumped(t, f) ==
    /\ Kept(t)
    /\ H(t)' = H(t)
    /\ At(t, H(t))' = f

Called(t, f, g) ==
    /\ Kept(t)
    /\ H(t)' = H(t) + 1
    /\ At(t, H(t) - 1)' = f
    /\ At(t, H(t))' = g

Returned(t) ==
    /\ Kept(t)
    /\ H(t)' = H(t) - 1

LEMMA KeptFrames ==
    ASSUME Types, NEW t \in Threads, stack[t] # << >>,
           NEW r \in Seq(FrameType), NEW st \in Results,
           \A d \in 1 .. Len(stack[t]) - 1 :
              r[Len(r) + 1 - d] = stack[t][Len(stack[t]) + 1 - d],
           stack' = [stack EXCEPT ![t] = r],
           ret' = [ret EXCEPT ![t] = st]
    PROVE  Kept(t) /\ stack'[t] = r
  <1>1. stack'[t] = r /\ \A u \in Threads : u # t => stack'[u] = stack[u]
    BY DEF Types
  <1>2. stack' \in [Threads -> Seq(FrameType)]
    BY DEF Types
  <1>3. ret' \in [Threads -> Results]
    BY DEF Types
  <1>4. \A u \in Threads : u # t => H(u)' = H(u)
    BY <1>1 DEF H
  <1>5. ASSUME NEW u \in Threads, NEW d \in 1 .. H(u), u # t \/ d < H(t)
        PROVE  At(u, d)' = At(u, d)
    <2>1. CASE u # t
      BY <2>1, <1>1 DEF At
    <2>2. CASE u = t
      <3>1. d \in 1 .. Len(stack[t]) - 1
        BY <2>2, <1>5 DEF H, Types
      <3> QED BY <3>1, <2>2, <1>1 DEF At
    <2> QED BY <2>1, <2>2
  <1> QED BY <1>1, <1>2, <1>3, <1>4, <1>5 DEF Kept

LEMMA JumpFrames ==
    ASSUME Types, NEW t \in Threads, stack[t] # << >>,
           NEW f \in FrameType, Jump(t, f)
    PROVE  Jumped(t, f)
  <1> DEFINE r == <<f>> \o Tail(stack[t])
  <1>1. stack[t] \in Seq(FrameType)
    BY DEF Types
  <1>2. /\ r \in Seq(FrameType)
        /\ Len(r) = Len(stack[t])
        /\ r[Len(r) + 1 - Len(stack[t])] = f
        /\ \A d \in 1 .. Len(stack[t]) - 1 :
              r[Len(r) + 1 - d] = stack[t][Len(stack[t]) + 1 - d]
    <2> DEFINE s == stack[t]
    <2>1. s \in Seq(FrameType) /\ s # << >>
      BY <1>1
    <2> HIDE DEF s
    <2>2. LET u == <<f>> \o Tail(s) IN
          /\ u \in Seq(FrameType)
          /\ Len(u) = Len(s)
          /\ u[Len(u) + 1 - Len(s)] = f
          /\ \A d \in 1 .. Len(s) - 1 : u[Len(u) + 1 - d] = s[Len(s) + 1 - d]
      BY <2>1
    <2> QED BY <2>2, Zenon DEF s
  <1>3. /\ stack' = [stack EXCEPT ![t] = r]
        /\ ret' = [ret EXCEPT ![t] = "OK"]
    BY DEF Jump
  <1> HIDE DEF r
  <1>4. Kept(t) /\ stack'[t] = r
    BY <1>2, <1>3, KeptFrames, Zenon DEF Results
  <1> QED BY <1>2, <1>4 DEF H, At, Jumped

LEMMA CallFrames ==
    ASSUME Types, NEW t \in Threads, stack[t] # << >>,
           NEW f \in FrameType, NEW g \in FrameType, Call(t, f, g)
    PROVE  Called(t, f, g)
  <1> DEFINE s == stack[t]
             r == <<g, f>> \o Tail(s)
  <1>1. s \in Seq(FrameType) /\ s # << >>
    BY DEF Types
  <1>3. /\ stack' = [stack EXCEPT ![t] = r]
        /\ ret' = [ret EXCEPT ![t] = "OK"]
    BY DEF Call
  <1> HIDE DEF s
  <1>2. /\ r \in Seq(FrameType)
        /\ Len(r) = Len(s) + 1
        /\ r[Len(r) + 1 - Len(s)] = f
        /\ r[Len(r) + 1 - (Len(s) + 1)] = g
        /\ \A d \in 1 .. Len(s) - 1 : r[Len(r) + 1 - d] = s[Len(s) + 1 - d]
    BY <1>1
  <1> HIDE DEF r
  <1>4. Kept(t) /\ stack'[t] = r
    BY <1>2, <1>3, KeptFrames, Zenon DEF Results, s
  <1>5. Len(stack[t]) \in Nat /\ (Len(stack[t]) + 1) - 1 = Len(stack[t])
    BY <1>1 DEF s
  <1> QED BY <1>2, <1>4, <1>5 DEF H, At, Called, s

LEMMA ReturnFrames ==
    ASSUME Types, NEW t \in Threads, stack[t] # << >>,
           NEW st \in Results, Return(t, st)
    PROVE  Returned(t)
  <1> DEFINE r == Tail(stack[t])
  <1>1. stack[t] \in Seq(FrameType)
    BY DEF Types
  <1>2. /\ r \in Seq(FrameType)
        /\ Len(r) = Len(stack[t]) - 1
        /\ \A d \in 1 .. Len(stack[t]) - 1 :
              r[Len(r) + 1 - d] = stack[t][Len(stack[t]) + 1 - d]
    BY <1>1, DropHead
  <1>3. /\ stack' = [stack EXCEPT ![t] = r]
        /\ ret' = [ret EXCEPT ![t] = st]
    BY DEF Return
  <1> HIDE DEF r
  <1>4. Kept(t) /\ stack'[t] = r
    BY <1>2, <1>3, KeptFrames, Zenon
  <1> QED BY <1>2, <1>4 DEF H, Returned

-----------------------------------------------------------------------------
(* The inductive invariant of the first post                               *)

InFrame(t, d, fn, x) == At(t, d).fn = fn /\ At(t, d).task = x

Posting(x) ==
    \E t \in Threads : \E d \in 1 .. H(t) : InFrame(t, d, "post", x)

Completing(x, k) ==
    \E t \in Threads : \E d \in 1 .. H(t) :
        InFrame(t, d, "complete", x) /\ At(t, d).at = k

\* x was posted, or will be by a call that is running
Started(x) == n_runs[x] # 0 \/ Posting(x)

\* x has ended, and what its end leads to is under way or done
Past(x) ==
    /\ n_runs[x] = 1
    /\ status[x] = "OK"
    /\ x \notin queued
    /\ ~Completing(x, 1)

\* the tasks that are posted by ucc_dependency_handler
DepTask(x) ==
    /\ Graph.schedule[x] = Root
    /\ \A p \in Tasks : \A k \in 1 .. Len(Listeners(p)) :
          Listeners(p)[k].task = x => Listeners(p)[k].handler # "start"

FrameOK(f) ==
    /\ f.fn = "notify" =>
         /\ f.arg \in Events
         /\ f.at # 0
         /\ f.arg = "SCHEDULE_STARTED" => f.task = Root /\ n_runs[Root] = 1
         /\ f.arg = "COMPLETED" /\ f.task # Root => Past(f.task)
         /\ f.arg = "COMPLETED_SCHEDULE" =>
              n_runs[f.task] = 1 /\ Graph.schedule[f.task] = Root
    /\ f.fn = "error" => f.arg \in Tasks
    /\ f.fn = "complete" =>
         /\ f.at \in {1, 2}
         /\ n_runs[f.task] = 1
         /\ f.task \notin queued
         /\ f.at = 1 => status[f.task] \in Results
         /\ f.at = 2 => f.local \in Results
         /\ f.at = 2 /\ f.task # Root => f.local = status[f.task]
    /\ f.fn = "return" => f.local \in Results
    /\ f.fn = "schedule_completed" =>
         /\ f.task = Root
         /\ f.arg \in Tasks
         /\ Graph.schedule[f.arg] = Root
         /\ f.at \in {1, 2}
         /\ f.at = 2 => Len(f.n) = 1
         /\ n_runs[Root] = 1
    /\ f.fn = "dependency" =>
         /\ DepTask(f.task)
         /\ f.at \in {1, 2, 3}
         /\ f.at = 2 => Len(f.n) = 1 /\ f.n[1] < n_satisfied[f.task]
         /\ n_runs[Root] = 1
    /\ f.fn = "post" =>
         /\ n_runs[f.task] = 0
         /\ f.task # Root => Graph.schedule[f.task] = Root /\ n_runs[Root] = 1
    /\ f.fn \notin {"frag_start", "pipelined_completed"}

FramesOK == \A t \in Threads : \A d \in 1 .. H(t) : FrameOK(At(t, d))

\* two frames that must not be there both
Same(f, g) ==
    /\ f.fn = g.fn
    /\ f.task = g.task
    /\ \/ f.fn = "post"
       \/ f.fn = "complete" /\ f.task # Root
       \/ f.fn = "notify" /\ f.arg = g.arg /\ f.arg = "SCHEDULE_STARTED"
       \/ f.fn = "notify" /\ f.arg = g.arg /\ f.arg = "COMPLETED" /\ f.task # Root
       \/ f.fn = "dependency" /\ f.at = 2 /\ g.at = 2 /\ f.n[1] = g.n[1]

Unique ==
    \A t, u \in Threads : \A d \in 1 .. H(t), e \in 1 .. H(u) :
        Same(At(t, d), At(u, e)) => t = u /\ d = e

Queue ==
    \A x \in queued : n_runs[x] = 1 /\ IsLeaf(x)

Runs ==
    \A x \in Tasks :
        /\ n_runs[x] \in {0, 1}
        /\ n_runs[x] = 1 /\ x # Root =>
             Graph.schedule[x] = Root /\ n_runs[Root] = 1

\* A task that is started by an event was not before the event, and is only by
\* the turn of the notification that calls its handler.
StartedByEvent ==
    \A p \in Tasks : \A k \in 1 .. Len(Listeners(p)) :
        LET l == Listeners(p)[k] IN
        l.handler = "start" /\ Started(l.task) =>
            /\ l.event = "COMPLETED" => Past(p)
            /\ \A t \in Threads : \A d \in 1 .. H(t) :
                  InFrame(t, d, "notify", p) /\ At(t, d).arg = l.event
                      => At(t, d).at > k

\* A task with dependencies is started at the last one, and no call is left
\* that saw the counter as the last one sees it.
StartedByDeps ==
    \A x \in Tasks :
        DepTask(x) /\ Started(x) =>
            /\ n_satisfied[x] >= n_deps[x]
            /\ \A t \in Threads : \A d \in 1 .. H(t) :
                  InFrame(t, d, "dependency", x) /\ At(t, d).at = 2
                      => At(t, d).n[1] + 1 # n_deps[x]

Fresh ==
    n_posts = 0 =>
        /\ queued = {}
        /\ n_runs = [x \in Tasks |-> 0]
        /\ \A t \in Threads : stack[t] = << >>

Inv ==
    /\ Types /\ FramesOK /\ Unique /\ Queue /\ Runs
    /\ StartedByEvent /\ StartedByDeps /\ Fresh

FirstInv == n_posts \in Nat /\ (n_posts <= 1 => Inv)

-----------------------------------------------------------------------------
(* Graphs                                                                  *)

\* the requests the results are about
OneGraphs == \A r \in Requests : OneSchedule(r.graph, Tasks, Root)

\* ... among them those whose tasks wait for at most one other task, which starts
\* them when it completes; a task that waits for several counts them
EventGraphs ==
    \A r \in Requests : \A p \in Tasks :
        \A i \in 1 .. Len(r.graph.listeners[p]) :
            LET l == r.graph.listeners[p][i] IN
            l.event = "COMPLETED" => l.handler = "start"

Listener == [task : Tasks, event : Events, handler : Handlers]

LEMMA GraphFacts ==
    ASSUME OneGraphs, Types
    PROVE  /\ IsGraph(Graph, Tasks)
           /\ OneSchedule(Graph, Tasks, Root)
           /\ req.callers \subseteq Threads
           /\ Outcomes \subseteq Results
  BY ScheduleAssumption
     DEF OneGraphs, Types, Graph, Outcomes, Results, Failed

LEMMA ListenerFacts ==
    ASSUME OneGraphs, Types, NEW p \in Tasks
    PROVE  /\ Len(Listeners(p)) \in Nat
           /\ \A k \in 1 .. Len(Listeners(p)) :
                 /\ Listeners(p)[k] \in Listener
                 /\ IsListener(Graph, Root, p, Listeners(p)[k])
  <1>1. Listeners(p) \in Seq(Listener)
    BY GraphFacts, Zenon DEF IsGraph, Listeners, Listener
  <1>2. \A k \in 1 .. Len(Listeners(p)) :
           IsListener(Graph, Root, p, Listeners(p)[k])
    BY GraphFacts, Zenon DEF OneSchedule, Listeners
  <1> QED BY <1>1, <1>2

-----------------------------------------------------------------------------
(* Steps that start and end no task                                        *)

\* a notification goes on to a later listener
Later(f, g) ==
    /\ f.fn = "notify" /\ g.fn = "notify"
    /\ g.task = f.task
    /\ g.arg = f.arg
    /\ g.at > f.at

Harmless(g) ==
    /\ g \in FrameType
    /\ FrameOK(g)
    /\ g.fn \notin {"post", "complete"}
    /\ g.fn = "notify" =>
         g.arg \in {"ERROR", "TASK_STARTED", "COMPLETED_SCHEDULE"}
    /\ g.fn = "dependency" => g.at # 2

Quiet ==
    /\ UNCHANGED <<status, n_deps, n_satisfied, queued, n_runs, req>>
    /\ stack' \in [Threads -> Seq(FrameType)]
    /\ \A u \in Threads : \A d \in 1 .. H(u)' :
          \/ d \in 1 .. H(u) /\ At(u, d)' = At(u, d)
          \/ d \in 1 .. H(u) /\ Later(At(u, d), At(u, d)')
          \/ Harmless(At(u, d)')

LEMMA LaterOK ==
    ASSUME NEW f \in FrameType, NEW g \in FrameType, FrameOK(f), Later(f, g)
    PROVE  FrameOK(g)
  BY DEF Later, FrameOK, FrameType

\* every frame, before a step and after it
LEMMA FramesType2 ==
    ASSUME Types, stack' \in [Threads -> Seq(FrameType)]
    PROVE  /\ \A t \in Threads :
                /\ H(t) \in Nat
                /\ \A d \in 1 .. H(t) : At(t, d) \in FrameType
           /\ \A t \in Threads :
                /\ H(t)' \in Nat
                /\ \A d \in 1 .. H(t)' : At(t, d)' \in FrameType
  BY DEF Types, H, At

LEMMA QuietInv ==
    ASSUME OneGraphs, Inv, Quiet
    PROVE  /\ FramesOK' /\ Unique' /\ Queue' /\ Runs'
           /\ StartedByEvent' /\ StartedByDeps'
  <1>7. /\ \A x : Started(x)' => Started(x)
        /\ \A x : Past(x) => Past(x)'
        /\ \A x : DepTask(x)' <=> DepTask(x)
    <2>1. \A x : Posting(x)' => Posting(x)
      BY DEF Quiet, Posting, InFrame, Later, Harmless
    <2>2. \A x, k : Completing(x, k)' => Completing(x, k)
      BY DEF Quiet, Completing, InFrame, Later, Harmless
    <2>3. \A x : Started(x)' => Started(x)
      BY <2>1 DEF Quiet, Started
    <2>4. \A x : Past(x) => Past(x)'
      BY <2>2 DEF Quiet, Past
    <2>5. \A x : DepTask(x)' <=> DepTask(x)
      BY DEF Quiet, DepTask, Graph, Listeners
    <2> QED BY <2>3, <2>4, <2>5
  <1>8. \A f : FrameOK(f) => FrameOK(f)'
    BY <1>7 DEF Quiet, FrameOK, Graph
  <1>1. FramesOK'
    <2> SUFFICES ASSUME NEW u \in Threads, NEW d \in 1 .. H(u)'
                 PROVE  FrameOK(At(u, d))'
      BY DEF FramesOK
    <2>1. CASE d \in 1 .. H(u) /\ At(u, d)' = At(u, d)
      <3>1. FrameOK(At(u, d))
        BY <2>1 DEF Inv, FramesOK
      <3> QED BY <3>1, <2>1, <1>8
    <2>2. CASE d \in 1 .. H(u) /\ Later(At(u, d), At(u, d)')
      <3>1. FrameOK(At(u, d))
        BY <2>2 DEF Inv, FramesOK
      <3>2. At(u, d) \in FrameType /\ At(u, d)' \in FrameType
        BY <2>2, FramesType2 DEF Inv, Quiet
      <3>3. FrameOK(At(u, d)')
        BY <3>1, <3>2, <2>2, LaterOK
      <3> QED BY <3>3, <1>8
    <2>3. CASE Harmless(At(u, d)')
      BY <2>3, <1>8 DEF Harmless
    <2> QED BY <2>1, <2>2, <2>3 DEF Quiet
  <1>2. Unique'
    <2> SUFFICES ASSUME NEW t \in Threads, NEW u \in Threads,
                        NEW d \in 1 .. H(t)', NEW e \in 1 .. H(u)',
                        Same(At(t, d)', At(u, e)')
                 PROVE  t = u /\ d = e
      BY Zenon DEF Unique, Same
    <2>1. /\ d \in 1 .. H(t)
          /\ At(t, d)' = At(t, d) \/ Later(At(t, d), At(t, d)')
      BY Zenon DEF Quiet, Harmless, Same
    <2>2. /\ e \in 1 .. H(u)
          /\ At(u, e)' = At(u, e) \/ Later(At(u, e), At(u, e)')
      BY Zenon DEF Quiet, Harmless, Same
    <2>3. Same(At(t, d), At(u, e))
      BY <2>1, <2>2, Zenon DEF Same, Later
    <2> QED BY <2>1, <2>2, <2>3 DEF Inv, Unique
  <1>3. Queue'
    BY DEF Inv, Quiet, Queue, IsLeaf, IsSchedule, IsPipelined, Graph
  <1>4. Runs'
    BY DEF Inv, Quiet, Runs, Graph
  <1>5. StartedByEvent'
    <2> SUFFICES ASSUME NEW p \in Tasks, NEW k \in 1 .. Len(Listeners(p)),
                        Listeners(p)[k].handler = "start",
                        Started(Listeners(p)[k].task)'
                 PROVE  /\ Listeners(p)[k].event = "COMPLETED" => Past(p)'
                        /\ \A t \in Threads : \A d \in 1 .. H(t)' :
                              /\ InFrame(t, d, "notify", p)'
                              /\ At(t, d).arg' = Listeners(p)[k].event
                              => At(t, d).at' > k
      BY Zenon DEF StartedByEvent, Quiet, Listeners, Graph
    <2>1. Started(Listeners(p)[k].task)
      BY <1>7, Zenon DEF Quiet, Listeners, Graph
    <2>2. Listeners(p)[k].event = "COMPLETED" => Past(p)'
      BY <2>1, <1>7, Zenon DEF Inv, StartedByEvent
    <2>3. ASSUME NEW t \in Threads, NEW d \in 1 .. H(t)',
                 InFrame(t, d, "notify", p)',
                 At(t, d).arg' = Listeners(p)[k].event
          PROVE  At(t, d).at' > k
      <3>1. Listeners(p)[k].event \in {"COMPLETED", "SCHEDULE_STARTED"}
        BY ListenerFacts, Zenon DEF Inv, IsListener
      <3>2. /\ d \in 1 .. H(t)
            /\ At(t, d)' = At(t, d) \/ Later(At(t, d), At(t, d)')
        BY <2>3, <3>1, Zenon DEF Quiet, Harmless, InFrame
      <3>3. At(t, d).at > k
        BY <2>1, <2>3, <3>2, Zenon DEF Inv, StartedByEvent, InFrame, Later
      <3>4. At(t, d) \in FrameType /\ At(t, d)' \in FrameType
        BY <3>2, FramesType2, Zenon DEF Inv, Quiet
      <3>5. At(t, d).at \in Nat /\ At(t, d)'.at \in Nat
        BY <3>4 DEF FrameType
      <3> QED BY <3>2, <3>3, <3>5 DEF Later
    <2> QED BY <2>2, <2>3
  <1>6. StartedByDeps'
    <2> SUFFICES ASSUME NEW x \in Tasks, DepTask(x)', Started(x)'
                 PROVE  /\ n_satisfied[x]' >= n_deps[x]'
                        /\ \A t \in Threads : \A d \in 1 .. H(t)' :
                              InFrame(t, d, "dependency", x)' /\ At(t, d).at' = 2
                              => At(t, d).n[1]' + 1 # n_deps[x]'
      BY DEF StartedByDeps
    <2>1. DepTask(x) /\ Started(x)
      BY <1>7
    <2>2. ASSUME NEW t \in Threads, NEW d \in 1 .. H(t)',
                 InFrame(t, d, "dependency", x)', At(t, d).at' = 2
          PROVE  d \in 1 .. H(t) /\ At(t, d)' = At(t, d)
      BY <2>2 DEF Quiet, Later, Harmless, InFrame
    <2> QED BY <2>1, <2>2, Zenon DEF Inv, StartedByDeps, Quiet, InFrame
  <1> QED BY <1>1, <1>2, <1>3, <1>4, <1>5, <1>6

Stable == UNCHANGED <<status, n_deps, n_satisfied, queued, n_runs, req>>

LEMMA QuietReturn ==
    ASSUME Inv, NEW t \in Threads, stack[t] # << >>, Returned(t), Stable
    PROVE  Quiet
  <1>1. H(t) \in Nat \ {0}
    BY TopFrame DEF Inv
  <1>2. ASSUME NEW u \in Threads, NEW d \in 1 .. H(u)'
        PROVE  d \in 1 .. H(u) /\ At(u, d)' = At(u, d)
    BY <1>1 DEF Returned, Kept
  <1> QED BY <1>2 DEF Returned, Kept, Quiet, Stable

LEMMA QuietJump ==
    ASSUME Inv, NEW t \in Threads, stack[t] # << >>,
           NEW f, Jumped(t, f), Harmless(f), Stable
    PROVE  Quiet
  <1>1. H(t) \in Nat \ {0}
    BY TopFrame DEF Inv
  <1>2. ASSUME NEW u \in Threads, NEW d \in 1 .. H(u)'
        PROVE  d \in 1 .. H(u) /\ (At(u, d)' = At(u, d) \/ Harmless(At(u, d)'))
    <2>1. CASE u = t /\ d = H(t)
      <3>1. At(u, d)' = f /\ d \in 1 .. H(u)
        BY <1>1, <2>1 DEF Jumped
      <3> QED BY <3>1
    <2>2. CASE ~(u = t /\ d = H(t))
      BY <1>1, <2>2 DEF Jumped, Kept
    <2> QED BY <2>1, <2>2
  <1> QED BY <1>2 DEF Jumped, Kept, Quiet, Stable

LEMMA QuietCall ==
    ASSUME Inv, NEW t \in Threads, stack[t] # << >>,
           NEW f, NEW g, Called(t, f, g), Stable,
           Later(Top(t), f) \/ Harmless(f), Harmless(g)
    PROVE  Quiet
  <1>1. H(t) \in Nat \ {0} /\ Top(t) = At(t, H(t))
    BY TopFrame DEF Inv
  <1>2. ASSUME NEW u \in Threads, NEW d \in 1 .. H(u)'
        PROVE  \/ d \in 1 .. H(u) /\ At(u, d)' = At(u, d)
               \/ d \in 1 .. H(u) /\ Later(At(u, d), At(u, d)')
               \/ Harmless(At(u, d)')
    <2>1. CASE u = t /\ d = H(t)
      <3>1. At(u, d)' = f /\ d \in 1 .. H(u)
        BY <1>1, <2>1 DEF Called
      <3> QED BY <3>1, <1>1, <2>1
    <2>2. CASE u = t /\ d = H(t) + 1
      <3>1. At(u, d)' = g
        BY <1>1, <2>2 DEF Called
      <3> QED BY <3>1
    <2>3. CASE ~(u = t /\ d \in {H(t), H(t) + 1})
      BY <1>1, <2>3 DEF Called, Kept
    <2> QED BY <2>1, <2>2, <2>3, Zenon
  <1> QED BY <1>2 DEF Called, Kept, Quiet, Stable

LEMMA FrameInType ==
    ASSUME NEW fn \in Functions, NEW x \in Tasks,
           NEW arg \in Tasks \cup Events \cup {NULL}
    PROVE  Frame(fn, x, arg) \in FrameType
  BY DEF Frame, FrameType, Counts

LEMMA AtInType ==
    ASSUME NEW f \in FrameType, NEW k \in Nat
    PROVE  LET g == [f EXCEPT !.at = k] IN
           /\ g \in FrameType
           /\ g.fn = f.fn /\ g.task = f.task /\ g.arg = f.arg /\ g.at = k
  BY DEF FrameType

LEMMA CountInType ==
    ASSUME NEW f \in FrameType, NEW c \in Nat
    PROVE  LET g == [f EXCEPT !.at = 2, !.n = <<c>>] IN
           /\ g \in FrameType
           /\ g.fn = f.fn /\ g.task = f.task /\ g.arg = f.arg /\ g.at = 2
           /\ Len(g.n) = 1 /\ g.n[1] = c
  <1> DEFINE s == <<c>>
             h == [f EXCEPT !.at = 2]
             g == [h EXCEPT !.n = s]
  <1>1. s \in Counts /\ Len(s) = 1 /\ s[1] = c
    BY DEF Counts
  <1> HIDE DEF s
  <1>4. /\ h \in FrameType
        /\ h.fn = f.fn /\ h.task = f.task /\ h.arg = f.arg /\ h.at = 2
    BY AtInType
  <1> HIDE DEF h
  <1>2. /\ g \in FrameType
        /\ g.fn = f.fn /\ g.task = f.task /\ g.arg = f.arg /\ g.at = 2
        /\ g.n = s
    BY <1>1, <1>4 DEF FrameType
  <1> HIDE DEF g
  <1>3. Len(g.n) = 1 /\ g.n[1] = c
    BY <1>1, <1>2
  <1> QED BY <1>2, <1>3 DEF g, h, s

LEMMA LocalInType ==
    ASSUME NEW f \in FrameType, NEW st \in Status
    PROVE  LET g == [f EXCEPT !.at = 2, !.local = st] IN
           /\ g \in FrameType
           /\ g.fn = f.fn /\ g.task = f.task /\ g.arg = f.arg /\ g.at = 2
           /\ g.local = st
  <1> DEFINE h == [f EXCEPT !.at = 2]
             g == [h EXCEPT !.local = st]
  <1>1. /\ h \in FrameType
        /\ h.fn = f.fn /\ h.task = f.task /\ h.arg = f.arg /\ h.at = 2
    BY AtInType
  <1> HIDE DEF h
  <1>2. /\ g \in FrameType
        /\ g.fn = f.fn /\ g.task = f.task /\ g.arg = f.arg /\ g.at = 2
        /\ g.local = st
    BY <1>1 DEF FrameType
  <1> QED BY <1>2 DEF h

LEMMA ResultStatus == Results \subseteq Status
  BY DEF Results, Failed, Status

LEMMA TopOK ==
    ASSUME Inv, NEW t \in Threads, NEW fn, Running(t, fn)
    PROVE  /\ stack[t] # << >>
           /\ H(t) \in Nat \ {0}
           /\ Top(t) = At(t, H(t))
           /\ Top(t) \in FrameType
           /\ Top(t).fn = fn
           /\ FrameOK(Top(t))
           /\ n_posts # 0
  <1>1. stack[t] # << >> /\ Top(t).fn = fn
    BY DEF Running, Top
  <1>2. H(t) \in Nat \ {0} /\ Top(t) = At(t, H(t)) /\ Top(t) \in FrameType
    BY <1>1, TopFrame DEF Inv
  <1>3. FrameOK(Top(t))
    BY <1>2 DEF Inv, FramesOK
  <1>4. n_posts # 0
    BY <1>1 DEF Inv, Fresh
  <1> QED BY <1>1, <1>2, <1>3, <1>4

LEMMA QuietStep ==
    ASSUME OneGraphs, Inv, Quiet, Types', n_posts' = n_posts, n_posts # 0
    PROVE  Inv'
  BY QuietInv DEF Inv, Fresh

\* the types of what a step within a call leaves
LEMMA SameTypes ==
    ASSUME Inv, NEW t \in Threads, Kept(t), Stable,
           ustatus' \in [Tasks -> Status], n_completed' \in [Tasks -> Nat],
           user' \in {"idle", "posting", "waiting", "failed", "finalized"},
           UNCHANGED <<n_posts, released>>
    PROVE  Types'
  BY Zenon DEF Inv, Types, Kept, Stable, Graph

\* of a step that changes the frames only
LEMMA KeptTypes ==
    ASSUME Inv, NEW t \in Threads, Kept(t),
           UNCHANGED <<taskvars, queued, n_runs, uservars>>
    PROVE  Types' /\ Stable /\ n_posts' = n_posts
  BY Zenon DEF Inv, Types, Kept, Stable, Graph, taskvars, uservars

LEMMA HarmlessReturn ==
    ASSUME NEW x \in Tasks, NEW st \in Results
    PROVE  ReturnFrame(x, st) \in FrameType /\ Harmless(ReturnFrame(x, st))
  <1> DEFINE f == Frame("return", x, NULL)
  <1>1. f \in FrameType /\ f.fn = "return" /\ st \in Status
    BY FrameInType, ResultStatus DEF Functions, Frame
  <1> HIDE DEF f
  <1>2. /\ [f EXCEPT !.local = st] \in FrameType
        /\ [f EXCEPT !.local = st].fn = "return"
        /\ [f EXCEPT !.local = st].local = st
    BY <1>1 DEF FrameType
  <1>3. /\ ReturnFrame(x, st) \in FrameType
        /\ ReturnFrame(x, st).fn = "return" /\ ReturnFrame(x, st).local = st
    BY <1>2 DEF ReturnFrame, f
  <1> QED BY <1>3, Zenon DEF Harmless, FrameOK

LEMMA HarmlessNotify ==
    ASSUME NEW x \in Tasks,
           NEW event \in {"ERROR", "TASK_STARTED", "COMPLETED_SCHEDULE"},
           event = "COMPLETED_SCHEDULE" =>
             n_runs[x] = 1 /\ Graph.schedule[x] = Root
    PROVE  /\ NotifyFrame(x, event) \in FrameType
           /\ Harmless(NotifyFrame(x, event))
  <1> DEFINE f == NotifyFrame(x, event)
  <1>1. f \in FrameType
    BY FrameInType DEF NotifyFrame, Functions, Events
  <1>2. f.fn = "notify" /\ f.task = x /\ f.arg = event /\ f.at = 1
    BY DEF NotifyFrame, Frame
  <1> HIDE DEF f
  <1>3. FrameOK(f)
    BY <1>2 DEF FrameOK, Events
  <1>4. Harmless(f)
    BY <1>1, <1>2, <1>3 DEF Harmless
  <1> QED BY <1>1, <1>4 DEF f

LEMMA HarmlessError ==
    ASSUME NEW p \in Tasks, NEW x \in Tasks
    PROVE  ErrorFrame(p, x) \in FrameType /\ Harmless(ErrorFrame(p, x))
  <1> DEFINE f == Frame("error", x, p)
  <1>1. f \in FrameType /\ f.fn = "error" /\ f.arg = p
    BY FrameInType DEF Functions, Frame
  <1>2. /\ ErrorFrame(p, x) \in FrameType
        /\ ErrorFrame(p, x).fn = "error" /\ ErrorFrame(p, x).arg = p
    BY <1>1, AtInType DEF ErrorFrame
  <1> QED BY <1>1, <1>2, Zenon DEF Harmless, FrameOK

\* a frame that is not the running one of thread t
Other(t, u, d) == d \in 1 .. H(u) /\ ~(u = t /\ d = H(t))

LEMMA RootFacts ==
    ASSUME OneGraphs, Inv
    PROVE  /\ Root \in Tasks
           /\ \A x \in Tasks : Graph.schedule[x] = Root => x # Root /\ ~IsLeaf(Root)
           /\ \A x \in Tasks : IsSchedule(x) => x = Root
           /\ \A x \in Tasks : ~IsPipelined(x)
  <1>1. Root \in Tasks /\ NULL \notin Tasks
    BY ScheduleAssumption
  <1>2. OneSchedule(Graph, Tasks, Root) /\ IsGraph(Graph, Tasks)
    BY GraphFacts DEF Inv
  <1>3. ASSUME NEW x \in Tasks, Graph.schedule[x] = Root
        PROVE  x # Root /\ ~IsLeaf(Root)
    <2>1. x \in Members(Graph, Tasks, Root)
      BY <1>3 DEF Members
    <2>2. PICK i \in 1 .. Len(Graph.tasks[Root]) : x = Graph.tasks[Root][i]
      BY <1>2, <2>1, Zenon DEF OneSchedule
    <2>3. Graph.tasks[Root] # << >>
      BY <1>1, <1>2, <2>2 DEF OneSchedule, IsGraph
    <2> QED BY <1>1, <1>2, <1>3, <2>3, Zenon DEF OneSchedule, IsLeaf, IsSchedule
  <1> QED BY <1>1, <1>2, <1>3, Zenon DEF OneSchedule, IsSchedule, IsPipelined

LEMMA PostsGrow ==
    ASSUME [Next]_vars
    PROVE  \/ n_posts' = n_posts
           \/ n_posts < MaxPosts /\ n_posts' = n_posts + 1
  <1>1. ASSUME NEW t, Step(t) PROVE n_posts' = n_posts
    <2> USE DEF uservars
    <2>1. Notify(t) => n_posts' = n_posts
      BY DEF Notify
    <2>2. ErrorHandler(t) => n_posts' = n_posts
      BY DEF ErrorHandler
    <2>3. CompleteNotify(t) => n_posts' = n_posts
      BY DEF CompleteNotify
    <2>4. CompleteFinish(t) => n_posts' = n_posts
      BY DEF CompleteFinish
    <2>5. ReturnOwn(t) => n_posts' = n_posts
      BY DEF ReturnOwn
    <2>6. ScheduleCompletedAdd(t) => n_posts' = n_posts
      BY DEF ScheduleCompletedAdd
    <2>7. ScheduleCompletedTest(t) => n_posts' = n_posts
      BY DEF ScheduleCompletedTest
    <2>8. DependencyAdd(t) => n_posts' = n_posts
      BY DEF DependencyAdd
    <2>9. DependencyTest(t) => n_posts' = n_posts
      BY DEF DependencyTest
    <2>10. DependencyStarted(t) => n_posts' = n_posts
      BY DEF DependencyStarted
    <2>11. PostTask(t) => n_posts' = n_posts
      BY DEF PostTask
    <2>12. ScheduleStart(t) => n_posts' = n_posts
      BY DEF ScheduleStart
    <2>13. UserPosted(t) => n_posts' = n_posts
      BY DEF UserPosted
    <2> QED BY <1>1, <2>1, <2>2, <2>3, <2>4, <2>5, <2>6, <2>7,
            <2>8, <2>9, <2>10, <2>11, <2>12, <2>13 DEF Step
  <1>2. ASSUME NEW t, Progress(t) \/ UserTest(t) \/ UserFinalize(t)
        PROVE  n_posts' = n_posts
    BY <1>2 DEF Progress, UserTest, UserFinalize, uservars
  <1>3. ASSUME NEW t, UserPost(t) PROVE n_posts < MaxPosts /\ n_posts' = n_posts + 1
    BY <1>3 DEF UserPost
  <1>4. UNCHANGED vars => n_posts' = n_posts
    BY DEF vars, uservars
  <1> QED BY <1>1, <1>2, <1>3, <1>4 DEF Next

-----------------------------------------------------------------------------
(* The actions that are quiet                                              *)

LEMMA ReturnOwnInv ==
    ASSUME OneGraphs, Inv, NEW t \in Threads, ReturnOwn(t)
    PROVE  Inv'
  <1> USE DEF ReturnOwn, taskvars, uservars
  <1>1. /\ stack[t] # << >> /\ n_posts # 0
        /\ Top(t).fn = "return" /\ FrameOK(Top(t))
    BY TopOK
  <1>2. Returned(t)
    BY <1>1, ReturnFrames, Zenon DEF Inv, FrameOK
  <1>3. Quiet
    BY <1>1, <1>2, QuietReturn DEF Stable
  <1>4. Types'
    BY <1>2, SameTypes, Zenon DEF Inv, Types, Returned, Stable
  <1> QED BY <1>1, <1>3, <1>4, QuietStep

LEMMA UserPostedInv ==
    ASSUME OneGraphs, Inv, NEW t \in Threads, UserPosted(t)
    PROVE  Inv'
  <1> USE DEF UserPosted, taskvars
  <1>1. stack[t] # << >> /\ n_posts # 0
    BY TopOK
  <1>2. Returned(t)
    BY <1>1, ReturnFrames DEF Inv, Results
  <1>3. Quiet
    BY <1>1, <1>2, QuietReturn DEF Stable
  <1>4. Types'
    BY <1>2, SameTypes, Zenon DEF Inv, Types, Returned, Stable
  <1> QED BY <1>1, <1>3, <1>4, QuietStep

LEMMA DependencyStartedInv ==
    ASSUME OneGraphs, Inv, NEW t \in Threads, DependencyStarted(t)
    PROVE  Inv'
  <1> USE DEF DependencyStarted, taskvars, uservars
  <1> DEFINE x == Top(t).task
             f == ReturnFrame(x, ret[t])
             g == NotifyFrame(x, "TASK_STARTED")
  <1>1. stack[t] # << >> /\ n_posts # 0 /\ x \in Tasks
    BY TopOK DEF FrameType
  <1>2. ret[t] \in Results
    BY DEF Inv, Types
  <1>3. CASE ret[t] \in Failed
    <2>1. Returned(t)
      BY <1>1, <1>2, <1>3, ReturnFrames, Zenon DEF Inv
    <2>2. Quiet
      BY <1>1, <2>1, QuietReturn DEF Stable
    <2>3. Types'
      BY <2>1, SameTypes, Zenon DEF Inv, Types, Returned, Stable
    <2> QED BY <1>1, <2>2, <2>3, QuietStep
  <1>4. CASE ret[t] \notin Failed
    <2>1. f \in FrameType /\ g \in FrameType
      BY <1>1, <1>2, HarmlessReturn, HarmlessNotify, Zenon
    <2>2. Harmless(f) /\ Harmless(g)
      BY <1>1, <1>2, HarmlessReturn, HarmlessNotify, Zenon
    <2>3. Called(t, f, g)
      BY <1>1, <1>4, <2>1, CallFrames, Zenon DEF Inv
    <2>4. Quiet
      BY <1>1, <2>2, <2>3, QuietCall, Zenon DEF Stable
    <2>5. Types'
      BY <2>3, SameTypes, Zenon DEF Inv, Types, Called, Stable
    <2> QED BY <1>1, <2>4, <2>5, QuietStep
  <1> QED BY <1>3, <1>4

LEMMA ErrorHandlerInv ==
    ASSUME OneGraphs, Inv, NEW t \in Threads, ErrorHandler(t)
    PROVE  Inv'
  <1> USE DEF ErrorHandler, uservars
  <1> DEFINE f == Top(t)
             p == f.arg
             behind == NextBehind(p, f.at)
  <1>1. /\ stack[t] # << >> /\ n_posts # 0 /\ f \in FrameType
        /\ f.fn = "error" /\ FrameOK(f)
    BY TopOK
  <1>2. p \in Tasks /\ f.task \in Tasks
    BY <1>1, Zenon DEF FrameOK, FrameType
  <1>3. ASSUME NEW k \in Nat
        PROVE  LET g == [f EXCEPT !.at = k] IN g \in FrameType /\ Harmless(g)
    BY <1>1, <1>2, AtInType, Zenon DEF Harmless, FrameOK
  <1>4. CASE f.at = 0
    <2>1. Jumped(t, [f EXCEPT !.at = 1])
      BY <1>1, <1>3, <1>4, JumpFrames, Zenon DEF Inv
    <2>2. Quiet
      BY <1>1, <1>3, <2>1, QuietJump, Zenon DEF Stable
    <2>3. ustatus' \in [Tasks -> Status]
      BY <1>2, <1>4, Zenon DEF Inv, Types
    <2>4. Types'
      BY <2>1, <2>3, SameTypes, Zenon DEF Inv, Types, Jumped, Stable
    <2> QED BY <1>1, <2>2, <2>4, QuietStep, Zenon
  <1>5. CASE f.at # 0 /\ behind = {}
    <2>1. Returned(t)
      BY <1>1, <1>5, ReturnFrames DEF Inv, Results
    <2>2. Quiet
      BY <1>1, <2>1, QuietReturn, Zenon DEF Stable
    <2>3. Types'
      BY <1>5, <2>1, SameTypes, Zenon DEF Inv, Types, Returned, Stable
    <2> QED BY <1>1, <2>2, <2>3, QuietStep, Zenon
  <1>6. CASE f.at # 0 /\ behind # {}
    <2>1. PICK k \in behind :
             Call(t, [f EXCEPT !.at = k + 1],
                  ErrorFrame(f.task, Listeners(p)[k].task))
      BY <1>6
    <2>2. UNCHANGED ustatus
      BY <1>6
    <2>3. k \in 1 .. Len(Listeners(p))
      BY <1>1, <1>6 DEF NextBehind, FrameType
    <2> HIDE DEF behind
    <2>4. k + 1 \in Nat /\ Listeners(p)[k].task \in Tasks
      BY <1>2, <2>3, ListenerFacts DEF Inv, Listener
    <2> DEFINE g == ErrorFrame(f.task, Listeners(p)[k].task)
    <2>5. g \in FrameType /\ Harmless(g)
      BY <1>2, <2>4, HarmlessError, Zenon
    <2>7. Called(t, [f EXCEPT !.at = k + 1], g)
      BY <1>1, <1>3, <2>1, <2>4, <2>5, CallFrames, Zenon DEF Inv
    <2>8. Quiet
      BY <1>1, <1>3, <2>4, <2>5, <2>7, QuietCall, Zenon DEF Stable
    <2>9. Types'
      BY <2>2, <2>7, SameTypes, Zenon DEF Inv, Types, Called, Stable
    <2> QED BY <1>1, <2>8, <2>9, QuietStep, Zenon
  <1> QED BY <1>4, <1>5, <1>6

LEMMA CompleteFinishInv ==
    ASSUME OneGraphs, Inv, NEW t \in Threads, CompleteFinish(t)
    PROVE  Inv'
  <1> USE DEF CompleteFinish, uservars
  <1> DEFINE x == Top(t).task
             st == FinalStatus(x, Top(t).local, ret[t])
  <1>1. /\ stack[t] # << >> /\ n_posts # 0 /\ x \in Tasks
        /\ Top(t).fn = "complete" /\ FrameOK(Top(t))
    BY TopOK, Zenon DEF FrameType
  <1>2. st \in Results /\ n_runs[x] = 1
    BY <1>1, Zenon DEF FrameOK, FinalStatus, Inv, Types, Results
  <1>3. ustatus' = [ustatus EXCEPT ![x] = st]
    BY Zenon
  <1> HIDE DEF st
  <1>4. ustatus' \in [Tasks -> Status]
    BY <1>1, <1>2, <1>3, ResultStatus, Zenon DEF Inv, Types
  <1>5. CASE Graph.schedule[x] # NULL /\ st = "OK"
    <2> DEFINE g == NotifyFrame(x, "COMPLETED_SCHEDULE")
    <2>1. Graph.schedule[x] = Root
      BY <1>1, <1>5, GraphFacts, Zenon DEF OneSchedule, Inv
    <2>2. g \in FrameType /\ Harmless(g)
      BY <1>1, <1>2, <2>1, HarmlessNotify, Zenon
    <2>3. Jump(t, g)
      BY <1>5, Zenon DEF st
    <2>4. Jumped(t, g)
      BY <1>1, <2>2, <2>3, JumpFrames, Zenon DEF Inv
    <2>5. Quiet
      BY <1>1, <2>2, <2>4, QuietJump, Zenon DEF Stable
    <2>6. Types'
      BY <1>4, <2>4, SameTypes, Zenon DEF Inv, Types, Jumped, Stable
    <2> QED BY <1>1, <2>5, <2>6, QuietStep, Zenon
  <1>6. CASE ~(Graph.schedule[x] # NULL /\ st = "OK")
    <2>1. Return(t, st)
      BY <1>6, Zenon DEF st
    <2>2. Returned(t)
      BY <1>1, <1>2, <2>1, ReturnFrames, Zenon DEF Inv
    <2>3. Quiet
      BY <1>1, <2>2, QuietReturn, Zenon DEF Stable
    <2>4. Types'
      BY <1>4, <2>2, SameTypes, Zenon DEF Inv, Types, Returned, Stable
    <2> QED BY <1>1, <2>3, <2>4, QuietStep, Zenon
  <1> QED BY <1>5, <1>6, Zenon

LEMMA ScheduleCompletedAddInv ==
    ASSUME OneGraphs, Inv, NEW t \in Threads, ScheduleCompletedAdd(t)
    PROVE  Inv'
  <1> USE DEF ScheduleCompletedAdd, uservars
  <1> DEFINE f == Top(t)
             g == [f EXCEPT !.at = 2, !.n = <<n_completed[f.task]>>]
  <1>1. /\ stack[t] # << >> /\ n_posts # 0 /\ f \in FrameType /\ f.task \in Tasks
        /\ f.fn = "schedule_completed" /\ FrameOK(f)
    BY TopOK DEF FrameType
  <1>2. n_completed[f.task] \in Nat
    BY <1>1, Zenon DEF Inv, Types
  <1>3. /\ g \in FrameType /\ g.fn = f.fn /\ g.task = f.task /\ g.arg = f.arg
        /\ g.at = 2 /\ Len(g.n) = 1
    BY <1>1, <1>2, CountInType, Zenon
  <1>4. Jump(t, g)
    OBVIOUS
  <1> HIDE DEF g
  <1>5. Harmless(g)
    BY <1>1, <1>3, Zenon DEF Harmless, FrameOK
  <1>6. Jumped(t, g)
    BY <1>1, <1>3, <1>4, JumpFrames, Zenon DEF Inv
  <1>7. Quiet
    BY <1>1, <1>5, <1>6, QuietJump DEF Stable
  <1>8. n_completed' \in [Tasks -> Nat]
    BY <1>1 DEF Inv, Types
  <1>9. Types'
    <2>1. /\ Kept(t) /\ Stable
          /\ ustatus' \in [Tasks -> Status] /\ UNCHANGED <<n_posts, released>>
          /\ user' \in {"idle", "posting", "waiting", "failed", "finalized"}
      BY <1>6, Zenon DEF Inv, Types, Jumped, Stable
    <2> QED BY <1>8, <2>1, SameTypes, Zenon
  <1> QED BY <1>1, <1>7, <1>9, QuietStep

\* ucc_collective_test, ucc_collective_finalize, and no step at all
LEMMA UserTestInv ==
    ASSUME OneGraphs, Inv,
           UNCHANGED vars \/ \E t \in Threads : UserTest(t) \/ UserFinalize(t)
    PROVE  Inv'
  <1>1. /\ UNCHANGED <<taskvars, queued, stack, ret, n_posts, n_runs, req>>
        /\ user' \in {"idle", "posting", "waiting", "failed", "finalized"}
        /\ released' \subseteq Tasks
    BY Zenon DEF vars, uservars, UserTest, UserFinalize, Inv, Types
  <1>2. Types'
    BY <1>1, Zenon DEF Inv, Types, taskvars, Graph
  <1>3. /\ \A u \in Threads : H(u)' = H(u)
        /\ \A u, d : At(u, d)' = At(u, d)
    BY <1>1 DEF H, At
  <1>4. Quiet
    BY <1>1, <1>2, <1>3, Zenon DEF Quiet, taskvars, Types
  <1>5. Fresh'
    BY <1>1 DEF Inv, Fresh
  <1> QED BY <1>2, <1>4, <1>5, QuietInv DEF Inv

LEMMA NotifyCall ==
    ASSUME OneGraphs, Inv, NEW t \in Threads, Running(t, "notify"),
           NEW k \in NextListener(Top(t).task, Top(t).arg, Top(t).at)
    PROVE  LET f == Top(t)
               l == Listeners(f.task)[k]
           IN  /\ k \in 1 .. Len(Listeners(f.task))
               /\ k >= f.at
               /\ l \in Listener
               /\ IsListener(Graph, Root, f.task, l)
               /\ f.arg = "ERROR" \/ l.event = f.arg
               /\ [f EXCEPT !.at = k + 1] \in FrameType
               /\ Later(f, [f EXCEPT !.at = k + 1])
  <1> DEFINE f == Top(t)
             l == Listeners(f.task)[k]
             g == [f EXCEPT !.at = k + 1]
  <1>1. f \in FrameType /\ f.fn = "notify" /\ FrameOK(f)
    BY TopOK
  <1>2. f.at \in Nat \ {0} /\ f.task \in Tasks
    BY <1>1, Zenon DEF FrameType, FrameOK
  <1> HIDE DEF f
  <1>3. k \in f.at .. Len(Listeners(f.task)) /\ Matches(l, f.arg)
    BY DEF NextListener, f
  <1>4. Len(Listeners(f.task)) \in Nat
    BY <1>2, ListenerFacts DEF Inv
  <1>5. k \in 1 .. Len(Listeners(f.task)) /\ k >= f.at /\ k + 1 \in Nat
    BY <1>2, <1>3, <1>4
  <1>6. l \in Listener /\ IsListener(Graph, Root, f.task, l)
    BY <1>2, <1>5, ListenerFacts DEF Inv
  <1>7. /\ g \in FrameType /\ g.fn = f.fn /\ g.task = f.task /\ g.arg = f.arg
        /\ g.at = k + 1
    BY <1>1, <1>5, AtInType
  <1>8. Later(f, g)
    BY <1>1, <1>2, <1>5, <1>7 DEF Later
  <1> QED BY <1>3, <1>5, <1>6, <1>7, <1>8, Zenon DEF f, Matches

-----------------------------------------------------------------------------
(* Handlers that post a task                                               *)

\* ucc_event_manager_notify, ucc_task_start_handler, ucc_dependency_handler
LEMMA PostingInv ==
    ASSUME OneGraphs, Inv, NEW t \in Threads, Notify(t) \/ DependencyTest(t)
    PROVE  Inv'
  <1> DEFINE
        \* the thread calls the post of x, all else is quiet
        Posts(x) ==
            /\ Stable
            /\ stack' \in [Threads -> Seq(FrameType)]
            /\ \A u \in Threads : \A d \in 1 .. H(u)' :
                  \/ d \in 1 .. H(u) /\ At(u, d)' = At(u, d)
                  \/ d \in 1 .. H(u) /\ Later(At(u, d), At(u, d)')
                  \/ Harmless(At(u, d)')
                  \/ u = t /\ d = H(t)' /\ InFrame(u, d, "post", x)'
        \* the event of p's listener k has happened, and only this call has come by
        EventPast(p, k) ==
            LET l == Listeners(p)[k] IN
            /\ l.event = "COMPLETED" => Past(p)
            /\ \A u \in Threads : \A d \in 1 .. H(u) :
                  InFrame(u, d, "notify", p) /\ At(u, d).arg = l.event
                      => At(u, d).at > k
  <1> HIDE DEF Posts, EventPast
  <1> Types
    BY DEF Inv
  \* a task that is started by counted dependencies is started by nothing else
  <1>1. ASSUME NEW p \in Tasks, NEW k \in 1 .. Len(Listeners(p)),
               Listeners(p)[k].handler = "dependency"
        PROVE  DepTask(Listeners(p)[k].task)
    <2> USE <1>1
    <2> DEFINE x == Listeners(p)[k].task
    <2>1. Graph.schedule[x] = Root
      BY ListenerFacts DEF IsListener
    <2>2. ASSUME NEW q \in Tasks, NEW j \in 1 .. Len(Listeners(q)),
                 Listeners(q)[j].task = x, Listeners(q)[j].handler = "start"
          PROVE  FALSE
      <3>1. p = q /\ j = k
        BY <2>2, GraphFacts, Zenon DEF OneSchedule, Listeners
      <3> QED BY <3>1, <2>2
    <2> QED BY <2>1, <2>2, Zenon DEF DepTask
  \* no two listeners start the same task
  <1>2. ASSUME NEW p \in Tasks, NEW k \in 1 .. Len(Listeners(p)),
               NEW q \in Tasks, NEW j \in 1 .. Len(Listeners(q)),
               Listeners(p)[k].handler = "start", Listeners(q)[j].handler = "start",
               Listeners(p)[k].task = Listeners(q)[j].task
        PROVE  p = q /\ k = j
    <2> USE <1>2
    <2> QED BY GraphFacts, Zenon DEF OneSchedule, Listeners
  \* the handlers that post nothing
  <1>3. ASSUME Running(t, "notify"),
               NEW k \in NextListener(Top(t).task, Top(t).arg, Top(t).at),
               LET l == Listeners(Top(t).task)[k] IN
               Top(t).arg = "ERROR" \/ l.handler # "start"
        PROVE  LET g == HandlerFrame(Top(t).task, Top(t).arg,
                                     Listeners(Top(t).task)[k])
               IN  g \in FrameType /\ Harmless(g)
    <2> USE <1>3
    <2> DEFINE f == Top(t)
               l == Listeners(f.task)[k]
               x == f.task
               g == HandlerFrame(x, f.arg, l)
    <2>1. f \in FrameType /\ f.fn = "notify" /\ FrameOK(f) /\ x \in Tasks
      BY TopOK, Zenon DEF FrameType
    <2>2. /\ l \in Listener /\ IsListener(Graph, Root, x, l)
          /\ k \in 1 .. Len(Listeners(x))
          /\ f.arg = "ERROR" \/ l.event = f.arg
      BY NotifyCall, Zenon
    <2>3. l.task \in Tasks
      BY <2>2, Zenon DEF Listener
    <2>4. CASE f.arg = "ERROR"
      BY <2>1, <2>3, <2>4, HarmlessError, Zenon DEF HandlerFrame
    <2>5. CASE f.arg # "ERROR" /\ l.handler = "schedule_completed"
      <3> DEFINE h == Frame("schedule_completed", l.task, x)
      <3>1. g = h
        BY <2>5, Zenon DEF HandlerFrame
      <3>2. /\ h \in FrameType /\ h.fn = "schedule_completed" /\ h.task = l.task
            /\ h.arg = x /\ h.at = 1
        BY <2>1, <2>3, FrameInType, Zenon DEF Functions, Frame
      <3>3. l.task = Root /\ Graph.schedule[x] = Root
        BY <2>2, <2>5, Zenon DEF IsListener
      <3>4. n_runs[x] = 1 /\ x # Root
        <4>1. n_runs[x] = 1
          BY <2>1, <2>2, <2>5, Zenon DEF IsListener, FrameOK
        <4>2. Graph.schedule[Root] # Root
          BY GraphFacts, ScheduleAssumption, Zenon DEF OneSchedule, Inv
        <4> QED BY <3>3, <4>1, <4>2, Zenon
      <3>5. n_runs[Root] = 1
        BY <2>1, <3>4, Zenon DEF Inv, Runs
      <3> HIDE DEF h
      <3>6. Harmless(h)
        <4>1. h.at \in {1, 2} /\ h.at # 2
          BY <3>2
        <4>2. FrameOK(h)
          BY <2>1, <3>2, <3>3, <3>5, <4>1, Zenon DEF FrameOK
        <4> QED BY <3>2, <4>2, Zenon DEF Harmless
      <3> QED BY <3>1, <3>2, <3>6, Zenon
    <2>6. CASE f.arg # "ERROR" /\ l.handler = "dependency"
      <3> DEFINE h == Frame("dependency", l.task, x)
      <3>1. g = h
        BY <2>6 DEF HandlerFrame
      <3>2. /\ h \in FrameType /\ h.fn = "dependency" /\ h.task = l.task
            /\ h.arg = x /\ h.at = 1
        BY <2>1, <2>3, FrameInType, Zenon DEF Functions, Frame
      <3>3. DepTask(l.task)
        BY <2>1, <2>2, <2>6, <1>1, Zenon DEF Inv
      <3>4. n_runs[Root] = 1
        <4>1. CASE l.event = "SCHEDULE_STARTED"
          BY <2>1, <2>2, <2>6, <4>1, Zenon DEF FrameOK
        <4>2. CASE Graph.schedule[x] = Root /\ l.event = "COMPLETED"
          <5>1. x # Root
            BY <4>2, GraphFacts, ScheduleAssumption, Zenon DEF OneSchedule, Inv
          <5>2. n_runs[x] = 1
            BY <2>1, <2>2, <2>6, <4>2, <5>1, Zenon DEF FrameOK, Past
          <5> QED BY <2>1, <5>1, <5>2, Zenon DEF Inv, Runs
        <4> QED BY <2>2, <2>6, <4>1, <4>2, Zenon DEF IsListener
      <3> HIDE DEF h
      <3>5. Harmless(h)
        <4>1. h.at \in {1, 2, 3} /\ h.at # 2
          BY <3>2
        <4>2. FrameOK(h)
          BY <3>2, <3>3, <3>4, <4>1, Zenon DEF FrameOK
        <4> QED BY <3>2, <4>1, <4>2, Zenon DEF Harmless
      <3> QED BY <3>1, <3>2, <3>5, Zenon
    <2> QED BY <2>2, <2>4, <2>5, <2>6, Zenon DEF IsListener
  \* a call of post
  <1>4. ASSUME stack[t] # << >>, NEW x,
               NEW f, NEW g, Called(t, f, g), Stable,
               Later(Top(t), f) \/ Harmless(f), g.fn = "post", g.task = x
        PROVE  Posts(x)
    <2> USE <1>4
    <2>1. H(t) \in Nat \ {0} /\ Top(t) = At(t, H(t)) /\ H(t)' = H(t) + 1
      BY TopFrame DEF Inv, Called
    <2>2. ASSUME NEW u \in Threads, NEW d \in 1 .. H(u)'
          PROVE  \/ d \in 1 .. H(u) /\ At(u, d)' = At(u, d)
                 \/ d \in 1 .. H(u) /\ Later(At(u, d), At(u, d)')
                 \/ Harmless(At(u, d)')
                 \/ u = t /\ d = H(t)' /\ InFrame(u, d, "post", x)'
      <3>1. CASE u = t /\ d = H(t)
        <4>1. At(u, d)' = f /\ d \in 1 .. H(u)
          BY <2>1, <3>1 DEF Called
        <4> QED BY <4>1, <2>1, <3>1, Zenon
      <3>2. CASE u = t /\ d = H(t) + 1
        <4>1. At(u, d)' = g
          BY <2>1, <3>2 DEF Called
        <4> QED BY <4>1, <2>1, <3>2 DEF InFrame
      <3>3. CASE ~(u = t /\ d \in {H(t), H(t) + 1})
        BY <2>1, <3>3 DEF Called, Kept
      <3> QED BY <3>1, <3>2, <3>3, Zenon
    <2> QED BY <2>2, Zenon DEF Called, Kept, Posts
  \* what the post of a task that was not started leaves alone
  <1>5. ASSUME NEW x \in Tasks, Posts(x),
               ~Started(x), Graph.schedule[x] = Root, n_runs[Root] = 1
        PROVE  /\ FramesOK' /\ Unique' /\ Queue' /\ Runs'
               /\ \A y : Started(y)' => Started(y) \/ y = x
               /\ \A y : Past(y) => Past(y)'
               /\ \A y : DepTask(y)' <=> DepTask(y)
    <2> USE <1>5
    <2>1. ASSUME NEW y, Posting(y)', y # x
          PROVE  Posting(y)
      BY <2>1, Zenon DEF Posts, Posting, InFrame, Later, Harmless
    <2>2. ASSUME NEW y, NEW k, Completing(y, k)'
          PROVE  Completing(y, k)
      BY <2>2, Zenon DEF Posts, Completing, InFrame, Later, Harmless
    <2>3. \A y : Started(y)' => Started(y) \/ y = x
      BY <2>1, Zenon DEF Posts, Started, Stable
    <2>4. \A y : Past(y) => Past(y)'
      BY <2>2, Zenon DEF Posts, Past, Stable
    <2>5. \A y : DepTask(y)' <=> DepTask(y)
      BY DEF Posts, DepTask, Graph, Listeners, Stable
    <2>6. ASSUME NEW f, FrameOK(f)
          PROVE  FrameOK(f)'
      BY <2>4, <2>5, <2>6, Zenon DEF Posts, FrameOK, Graph, Stable
    <2>7. FramesOK'
      <3> SUFFICES ASSUME NEW u \in Threads, NEW d \in 1 .. H(u)'
                   PROVE  FrameOK(At(u, d))'
        BY DEF FramesOK
      <3>1. CASE d \in 1 .. H(u) /\ At(u, d)' = At(u, d)
        <4>1. FrameOK(At(u, d))
          BY <3>1 DEF Inv, FramesOK
        <4> QED BY <4>1, <3>1, <2>6
      <3>2. CASE d \in 1 .. H(u) /\ Later(At(u, d), At(u, d)')
        <4>1. FrameOK(At(u, d))
          BY <3>2 DEF Inv, FramesOK
        <4>2. At(u, d) \in FrameType /\ At(u, d)' \in FrameType
          BY <3>2, FramesType2, Zenon DEF Inv, Posts
        <4>3. FrameOK(At(u, d)')
          BY <4>1, <4>2, <3>2, LaterOK
        <4> QED BY <4>3, <2>6
      <3>3. CASE Harmless(At(u, d)')
        BY <3>3, <2>6 DEF Harmless
      <3>4. CASE InFrame(u, d, "post", x)'
        <4>1. n_runs[x] = 0
          BY DEF Started
        <4> QED BY <4>1, <3>4, Zenon DEF InFrame, FrameOK, Posts, Stable, Graph
      <3> QED BY <3>1, <3>2, <3>3, <3>4, Zenon DEF Posts
    <2>8. Unique'
      <3> SUFFICES ASSUME NEW v \in Threads, NEW u \in Threads,
                          NEW d \in 1 .. H(v)', NEW e \in 1 .. H(u)',
                          Same(At(v, d)', At(u, e)')
                   PROVE  v = u /\ d = e
        BY Zenon DEF Unique, Same
      <3>1. ASSUME NEW w \in Threads, NEW c \in 1 .. H(w)',
                   InFrame(w, c, "post", x)'
            PROVE  w = t /\ c = H(t)'
        BY <3>1, Zenon DEF Posts, Started, Posting, InFrame, Later, Harmless
      <3>2. CASE At(v, d)'.fn = "post" /\ At(v, d)'.task = x
        <4>1. InFrame(v, d, "post", x)' /\ InFrame(u, e, "post", x)'
          BY <3>2, Zenon DEF Same, InFrame
        <4>2. v = t /\ d = H(t)' /\ u = t /\ e = H(t)'
          BY <3>1, <4>1
        <4> QED BY <4>2
      <3>3. CASE ~(At(v, d)'.fn = "post" /\ At(v, d)'.task = x)
        <4>1. /\ d \in 1 .. H(v)
              /\ At(v, d)' = At(v, d) \/ Later(At(v, d), At(v, d)')
          BY <3>3, Zenon DEF Posts, Harmless, Same, InFrame
        <4>4. ~InFrame(u, e, "post", x)'
          BY <3>3, Zenon DEF Same, InFrame
        <4>5. ~Harmless(At(u, e)')
          BY Zenon DEF Harmless, Same
        <4>2. /\ e \in 1 .. H(u)
              /\ At(u, e)' = At(u, e) \/ Later(At(u, e), At(u, e)')
          BY <4>4, <4>5, Zenon DEF Posts
        <4>3. Same(At(v, d), At(u, e))
          BY <4>1, <4>2, Zenon DEF Same, Later
        <4> QED BY <4>1, <4>2, <4>3, Zenon DEF Inv, Unique
      <3> QED BY <3>2, <3>3
    <2>9. Queue' /\ Runs'
      BY Zenon
         DEF Inv, Posts, Stable, Queue, Runs, IsLeaf, IsSchedule, IsPipelined, Graph
    <2> QED BY <2>3, <2>4, <2>5, <2>7, <2>8, <2>9, Zenon
  \* ... if the event that starts it has happened
  <1>6. ASSUME NEW x \in Tasks, Posts(x),
               ~Started(x), Graph.schedule[x] = Root, n_runs[Root] = 1,
               \A p \in Tasks : \A k \in 1 .. Len(Listeners(p)) :
                  Listeners(p)[k].handler = "start" /\ Listeners(p)[k].task = x
                      => EventPast(p, k)'
        PROVE  StartedByEvent'
    <2> USE <1>6
    <2> SUFFICES ASSUME NEW p \in Tasks, NEW k \in 1 .. Len(Listeners(p)),
                        Listeners(p)[k].handler = "start",
                        Started(Listeners(p)[k].task)'
                 PROVE  EventPast(p, k)'
      BY Zenon DEF StartedByEvent, Posts, Stable, Listeners, Graph, EventPast
    <2> DEFINE l == Listeners(p)[k]
    <2>1. Listeners(p)' = Listeners(p)
      BY Zenon DEF Listeners, Graph, Posts, Stable
    <2>2. CASE l.task = x
      BY <2>2
    <2>3. CASE l.task # x
      <3>1. Started(l.task)
        BY <2>1, <2>3, <1>5, Zenon
      <3>2. l.event = "COMPLETED" => Past(p)'
        BY <3>1, <1>5, Zenon DEF Inv, StartedByEvent
      <3>3. ASSUME NEW u \in Threads, NEW d \in 1 .. H(u)',
                   InFrame(u, d, "notify", p)', At(u, d)'.arg = l.event
            PROVE  At(u, d)'.at > k
        <4>1. l.event \in {"COMPLETED", "SCHEDULE_STARTED"}
          BY ListenerFacts, Zenon DEF Inv, IsListener
        <4>2. /\ d \in 1 .. H(u)
              /\ At(u, d)' = At(u, d) \/ Later(At(u, d), At(u, d)')
          BY <3>3, <4>1, Zenon DEF Posts, Harmless, InFrame
        <4>3. At(u, d).at > k
          BY <3>1, <3>3, <4>2, Zenon DEF Inv, StartedByEvent, InFrame, Later
        <4>4. At(u, d) \in FrameType /\ At(u, d)' \in FrameType
          BY <4>2, FramesType2, Zenon DEF Inv, Posts
        <4>5. At(u, d).at \in Nat /\ At(u, d)'.at \in Nat
          BY <4>4, Zenon DEF FrameType
        <4> QED BY <4>2, <4>3, <4>5 DEF Later
      <3> QED BY <2>1, <3>2, <3>3, Zenon DEF EventPast
    <2> QED BY <2>2, <2>3, Zenon
  \* ... if its dependencies are satisfied
  <1>7. ASSUME NEW x \in Tasks, Posts(x),
               ~Started(x), Graph.schedule[x] = Root, n_runs[Root] = 1,
               DepTask(x) =>
                 /\ n_satisfied[x] >= n_deps[x]
                 /\ \A u \in Threads : \A d \in 1 .. H(u)' :
                       InFrame(u, d, "dependency", x)' /\ At(u, d)'.at = 2
                           => At(u, d)'.n[1] + 1 # n_deps[x]
        PROVE  StartedByDeps'
    <2> USE <1>7
    <2> SUFFICES ASSUME NEW y \in Tasks, DepTask(y)', Started(y)'
                 PROVE  /\ n_satisfied[y]' >= n_deps[y]'
                        /\ \A u \in Threads : \A d \in 1 .. H(u)' :
                              InFrame(u, d, "dependency", y)' /\ At(u, d).at' = 2
                              => At(u, d).n[1]' + 1 # n_deps[y]'
      BY Zenon DEF StartedByDeps
    <2>1. DepTask(y) /\ (Started(y) \/ y = x)
      BY <1>5, Zenon
    <2>2. CASE y = x
      BY <2>1, <2>2, Zenon DEF Posts, Stable
    <2>3. CASE y # x
      <3>1. ASSUME NEW u \in Threads, NEW d \in 1 .. H(u)',
                   InFrame(u, d, "dependency", y)', At(u, d).at' = 2
            PROVE  d \in 1 .. H(u) /\ At(u, d)' = At(u, d)
        BY <3>1, Zenon DEF Posts, Later, Harmless, InFrame
      <3> QED BY <2>1, <2>3, <3>1, Zenon
                 DEF Inv, StartedByDeps, Posts, Stable, InFrame
    <2> QED BY <2>2, <2>3, Zenon
  \* ucc_task_start_handler
  <1>8. ASSUME NEW f \in FrameType, NEW p \in Tasks,
               NEW k \in 1 .. Len(Listeners(p)), NEW l \in Listener,
               Running(t, "notify"), f = Top(t), p = f.task, l = Listeners(p)[k],
               IsListener(Graph, Root, p, l), l.event = f.arg, k >= f.at,
               f.arg # "ERROR", l.handler = "start",
               Call(t, [f EXCEPT !.at = k + 1], HandlerFrame(p, f.arg, l)),
               UNCHANGED <<taskvars, queued, n_runs, uservars>>
        PROVE  Inv'
    <2> USE <1>8
    <2> DEFINE x == l.task
               h == [f EXCEPT !.at = k + 1]
               g == HandlerFrame(p, f.arg, l)
    <2>1. /\ stack[t] # << >> /\ n_posts # 0 /\ f.fn = "notify" /\ FrameOK(f)
          /\ f = At(t, H(t)) /\ H(t) \in Nat \ {0} /\ f.at \in Nat
      BY TopOK DEF FrameType
    <2>2. k \in Nat /\ h \in FrameType /\ h.at = k + 1 /\ Later(f, h)
      <3>1. k \in Nat /\ k + 1 \in Nat
        OBVIOUS
      <3>2. /\ h \in FrameType /\ h.fn = f.fn /\ h.task = f.task /\ h.arg = f.arg
            /\ h.at = k + 1
        BY <3>1, AtInType
      <3> QED BY <2>1, <3>1, <3>2 DEF Later
    <2>3. /\ g \in FrameType /\ g.fn = "post" /\ g.task = x /\ x \in Tasks
      <3>1. x \in Tasks
        BY Zenon DEF Listener
      <3>2. g = Frame("post", x, p)
        BY Zenon DEF HandlerFrame
      <3>3. Frame("post", x, p) \in FrameType
        BY <2>1, <3>1, FrameInType, Zenon DEF Functions
      <3> QED BY <3>1, <3>2, <3>3 DEF Frame
    <2>4. Called(t, h, g)
      BY <2>1, <2>2, <2>3, CallFrames, Zenon DEF Inv
    <2>5. Types' /\ Stable /\ n_posts' = n_posts
      BY <2>4, KeptTypes, Zenon DEF Called
    <2> HIDE DEF g, h
    <2>6. Posts(x)
      <3>1. Later(Top(t), h) /\ g.fn = "post" /\ g.task = x
        BY <2>2, <2>3, Zenon
      <3> HIDE DEF x
      <3> QED BY <2>1, <2>4, <2>5, <3>1, <1>4, Zenon
    <2>7. ~Started(x)
      <3> SUFFICES ASSUME Started(x) PROVE FALSE
        OBVIOUS
      <3>1. InFrame(t, H(t), "notify", p) /\ At(t, H(t)).arg = l.event
        BY <2>1, <2>2, Zenon DEF InFrame
      <3>2. At(t, H(t)).at > k
        <4>1. /\ Listeners(p)[k].handler = "start"
              /\ Started(Listeners(p)[k].task)
              /\ At(t, H(t)).arg = Listeners(p)[k].event
          BY <3>1, Zenon
        <4>2. H(t) \in 1 .. H(t)
          BY <2>1
        <4>3. StartedByEvent
          BY Zenon DEF Inv
        <4> QED BY <3>1, <4>1, <4>2, <4>3, Zenon DEF StartedByEvent
      <3> QED BY <2>1, <2>2, <3>2
    <2>8. Graph.schedule[x] = Root
      BY <2>2, Zenon DEF IsListener
    <2>9. /\ n_runs[Root] = 1
          /\ l.event \in {"COMPLETED", "SCHEDULE_STARTED"}
          /\ l.event = "COMPLETED" => p # Root /\ Past(p)
          /\ l.event = "SCHEDULE_STARTED" => p = Root
      <3>1. CASE p = Root /\ l.event = "SCHEDULE_STARTED"
        BY <2>1, <2>2, <3>1, Zenon DEF FrameOK
      <3>2. CASE Graph.schedule[p] = Root /\ l.event = "COMPLETED"
        <4>1. p # Root
          BY <2>1, <3>2, GraphFacts, ScheduleAssumption, Zenon
             DEF Inv, OneSchedule
        <4>2. Past(p)
          BY <2>1, <2>2, <3>2, <4>1, Zenon DEF FrameOK
        <4>3. n_runs[Root] = 1
          BY <2>1, <4>1, <4>2, Zenon DEF Past, Inv, Runs
        <4> QED BY <3>2, <4>1, <4>2, <4>3, Zenon
      <3> QED BY <2>2, <3>1, <3>2, Zenon DEF IsListener
    <2>10. EventPast(p, k)'
      <3>1. l.event = "COMPLETED" => Past(p)'
        BY <2>3, <2>6, <2>7, <2>8, <2>9, <1>5, Zenon
      <3>2. ASSUME NEW u \in Threads, NEW d \in 1 .. H(u)',
                   InFrame(u, d, "notify", p)', At(u, d)'.arg = l.event
            PROVE  At(u, d)'.at > k
        <4>1. /\ d \in 1 .. H(u)
              /\ At(u, d)' = At(u, d) \/ Later(At(u, d), At(u, d)')
          <5>1. ~Harmless(At(u, d)') /\ ~InFrame(u, d, "post", x)'
            BY <2>9, <3>2, Zenon DEF Harmless, InFrame
          <5> QED BY <2>6, <5>1, Zenon DEF Posts
        <4>2. Same(At(u, d), At(t, H(t)))
          <5>1. /\ At(u, d).fn = "notify" /\ At(u, d).task = p
                /\ At(u, d).arg = l.event
            BY <3>2, <4>1, Zenon DEF Later, InFrame
          <5>2. /\ At(t, H(t)).fn = "notify" /\ At(t, H(t)).task = p
                /\ At(t, H(t)).arg = l.event
            BY <2>1, Zenon
          <5> QED BY <2>9, <5>1, <5>2, Zenon DEF Same
        <4>3. u = t /\ d = H(t)
          BY <2>1, <4>1, <4>2 DEF Inv, Unique
        <4>4. At(t, H(t) - 1)' = h /\ H(t)' = H(t) + 1
          BY <2>4, Zenon DEF Called
        <4>5. At(u, d)' = h
          BY <2>1, <4>3, <4>4
        <4>6. h.at = k + 1 /\ k \in Nat
          BY <2>2, Zenon DEF h
        <4> QED BY <4>5, <4>6
      <3>3. Listeners(p)' = Listeners(p)
        BY <2>5, Zenon DEF Listeners, Graph, Stable
      <3> QED BY <3>1, <3>2, <3>3, Zenon DEF EventPast
    <2>11. \A q \in Tasks : \A j \in 1 .. Len(Listeners(q)) :
             Listeners(q)[j].handler = "start" /\ Listeners(q)[j].task = x
                => EventPast(q, j)'
      <3> SUFFICES ASSUME NEW q \in Tasks, NEW j \in 1 .. Len(Listeners(q)),
                   Listeners(q)[j].handler = "start", Listeners(q)[j].task = x
                   PROVE  EventPast(q, j)'
        OBVIOUS
      <3>1. q = p /\ j = k
        BY <1>2, Zenon DEF Inv
      <3> QED BY <2>10, <3>1, Zenon
    <2>12. StartedByEvent'
      BY <2>3, <2>6, <2>7, <2>8, <2>9, <2>11, <1>6, Zenon
    <2>13. ~DepTask(x)
      BY <2>1, <2>2, Zenon DEF DepTask
    <2>14. StartedByDeps'
      BY <2>3, <2>6, <2>7, <2>8, <2>9, <2>13, <1>7, Zenon
    <2> QED BY <2>1, <2>3, <2>5, <2>6, <2>7, <2>8, <2>9, <2>12, <2>14, <1>5,
               Zenon
            DEF Inv, Fresh
  \* ucc_dependency_handler
  <1>9. ASSUME NEW f \in FrameType, NEW x \in Tasks,
               Running(t, "dependency"), f = Top(t), x = f.task, f.at = 2,
               AllSatisfied(x, f.n[1]),
               Call(t, [f EXCEPT !.at = 3], Frame("post", x, f.arg)),
               UNCHANGED <<taskvars, queued, n_runs, uservars>>
        PROVE  Inv'
    <2> USE <1>9
    <2> DEFINE h == [f EXCEPT !.at = 3]
               g == Frame("post", x, f.arg)
    <2>1. /\ stack[t] # << >> /\ n_posts # 0 /\ f.fn = "dependency" /\ FrameOK(f)
          /\ f = At(t, H(t)) /\ H(t) \in Nat \ {0}
      BY TopOK
    <2>2. /\ DepTask(x) /\ n_runs[Root] = 1 /\ Graph.schedule[x] = Root
          /\ f.n[1] < n_satisfied[x] /\ f.n[1] \in Nat /\ n_satisfied[x] \in Nat
          /\ n_deps[x] = f.n[1] + 1
      <3>1. Len(f.n) = 1 /\ f.n \in Seq(Nat)
        BY <2>1, Zenon DEF FrameOK, FrameType, Counts
      <3>2. f.n[1] \in Nat
        BY <3>1
      <3> QED BY <2>1, <3>2, Zenon
                 DEF FrameOK, DepTask, Inv, Types, AllSatisfied
    <2>3. /\ h \in FrameType /\ h.fn = "dependency" /\ h.task = x /\ h.arg = f.arg
          /\ h.at = 3
      BY <2>1, AtInType
    <2>4. g \in FrameType /\ g.fn = "post" /\ g.task = x
      <3>1. f.arg \in Tasks \cup Events \cup {NULL}
        BY DEF FrameType
      <3>2. g \in FrameType
        BY <3>1, FrameInType DEF Functions
      <3> QED BY <3>2 DEF Frame
    <2> HIDE DEF g, h
    <2>5. Harmless(h)
      BY <2>2, <2>3 DEF Harmless, FrameOK
    <2>6. Called(t, h, g)
      BY <2>1, <2>3, <2>4, CallFrames, Zenon DEF Inv, g, h
    <2>7. Types' /\ Stable /\ n_posts' = n_posts
      BY <2>6, KeptTypes DEF Called
    <2>8. Posts(x)
      BY <2>1, <2>4, <2>5, <2>6, <2>7, <1>4, Zenon
    <2>9. ~Started(x)
      <3>1. InFrame(t, H(t), "dependency", x) /\ H(t) \in 1 .. H(t)
        BY <2>1 DEF InFrame
      <3>2. StartedByDeps
        BY DEF Inv
      <3> QED BY <2>1, <2>2, <3>1, <3>2, Zenon DEF StartedByDeps
    <2>10. StartedByEvent'
      <3>1. \A p \in Tasks : \A k \in 1 .. Len(Listeners(p)) :
               ~(Listeners(p)[k].handler = "start" /\ Listeners(p)[k].task = x)
        BY <2>2, Zenon DEF DepTask
      <3> QED BY <2>2, <2>8, <2>9, <3>1, <1>6, Zenon
    <2>11. ASSUME NEW u \in Threads, NEW d \in 1 .. H(u)',
                  InFrame(u, d, "dependency", x)', At(u, d)'.at = 2
           PROVE  At(u, d)'.n[1] + 1 # n_deps[x]
      <3>1. d \in 1 .. H(u) /\ At(u, d)' = At(u, d)
        BY <2>8, <2>11, Zenon DEF Posts, Later, Harmless, InFrame
      <3>2. ~(u = t /\ d = H(t))
        <4>1. At(t, H(t) - 1)' = h /\ H(t)' = H(t) + 1
          BY <2>6 DEF Called
        <4>2. u = t /\ d = H(t) => At(u, d)' = h
          BY <2>1, <4>1
        <4> QED BY <2>3, <2>11, <4>2
      <3>3. SUFFICES ASSUME At(u, d)'.n[1] + 1 = n_deps[x] PROVE FALSE
        OBVIOUS
      <3>4. At(u, d).n[1] \in Nat
        <4>1. FrameOK(At(u, d)) /\ At(u, d) \in FrameType
          BY <3>1, FramesType DEF Inv, FramesOK
        <4>2. Len(At(u, d).n) = 1 /\ At(u, d).n \in Seq(Nat)
          BY <2>11, <3>1, <4>1, Zenon DEF FrameOK, FrameType, Counts, InFrame
        <4> QED BY <4>2
      <3>5. At(u, d).n[1] = f.n[1]
        BY <2>2, <3>1, <3>3, <3>4
      <3>6. Same(At(u, d), At(t, H(t)))
        BY <2>1, <2>11, <3>1, <3>5, Zenon DEF Same, InFrame
      <3>7. u = t /\ d = H(t)
        BY <2>1, <3>1, <3>6 DEF Inv, Unique
      <3> QED BY <3>2, <3>7
    <2>12. StartedByDeps'
      <3>1. n_satisfied[x] >= n_deps[x]
        BY <2>2
      <3> QED BY <2>2, <2>8, <2>9, <2>11, <3>1, <1>7, Zenon
    <2> QED BY <2>1, <2>2, <2>7, <2>8, <2>9, <2>10, <2>12, <1>5, Zenon
               DEF Inv, Fresh
  <1>10. CASE Notify(t)
    <2> USE <1>10
    <2> DEFINE f == Top(t)
    <2>1. /\ stack[t] # << >> /\ n_posts # 0 /\ f \in FrameType /\ f.task \in Tasks
          /\ f.fn = "notify" /\ FrameOK(f) /\ f = At(t, H(t))
          /\ H(t) \in Nat \ {0} /\ Running(t, "notify")
      BY TopOK, Zenon DEF FrameType, Notify
    <2>4. UNCHANGED <<taskvars, queued, n_runs, uservars>>
      BY DEF Notify
    <2>2. CASE ret[t] # "OK" \/ NextListener(f.task, f.arg, f.at) = {}
      <3>1. PICK st \in Results : Return(t, st)
        BY <2>2, Zenon DEF Inv, Types, Results, Notify
      <3>2. Returned(t)
        BY <2>1, <3>1, ReturnFrames DEF Inv
      <3>3. Types' /\ Stable /\ n_posts' = n_posts
        BY <2>4, <3>2, KeptTypes DEF Returned
      <3>4. Quiet
        BY <2>1, <3>2, <3>3, QuietReturn
      <3> QED BY <2>1, <3>3, <3>4, QuietStep
    <2>3. CASE ~(ret[t] # "OK" \/ NextListener(f.task, f.arg, f.at) = {})
      <3>1. PICK k \in NextListener(f.task, f.arg, f.at) :
               Call(t, [f EXCEPT !.at = k + 1],
                    HandlerFrame(f.task, f.arg, Listeners(f.task)[k]))
        BY <2>3, Zenon DEF Notify
      <3> DEFINE l == Listeners(f.task)[k]
                 h == [f EXCEPT !.at = k + 1]
                 g == HandlerFrame(f.task, f.arg, l)
      <3>2. /\ k \in 1 .. Len(Listeners(f.task)) /\ k >= f.at
            /\ l \in Listener /\ IsListener(Graph, Root, f.task, l)
            /\ f.arg = "ERROR" \/ l.event = f.arg
            /\ h \in FrameType /\ Later(f, h)
        BY <2>1, NotifyCall, Zenon
      <3>3. CASE f.arg = "ERROR" \/ l.handler # "start"
        <4>1. g \in FrameType /\ Harmless(g)
          BY <2>1, <3>3, <1>3, Zenon
        <4>2. Called(t, h, g)
          BY <2>1, <3>1, <3>2, <4>1, CallFrames, Zenon DEF Inv
        <4>3. Types' /\ Stable /\ n_posts' = n_posts
          BY <2>4, <4>2, KeptTypes DEF Called
        <4>4. Quiet
          BY <2>1, <3>2, <4>1, <4>2, <4>3, QuietCall, Zenon
        <4> QED BY <2>1, <4>3, <4>4, QuietStep
      <3>4. CASE f.arg # "ERROR" /\ l.handler = "start"
        <4>1. PICK F, P, L : F = f /\ P = f.task /\ L = l
          OBVIOUS
        <4> HIDE DEF f, l
        <4>2. /\ F = Top(t) /\ P = F.task /\ L = Listeners(P)[k]
              /\ Call(t, [F EXCEPT !.at = k + 1], HandlerFrame(P, F.arg, L))
              /\ L.event = F.arg
          BY <3>1, <3>2, <3>4, <4>1, Zenon DEF f, l
        <4> QED BY <2>1, <2>4, <3>2, <3>4, <4>1, <4>2, <1>8, Zenon
      <3> QED BY <3>3, <3>4
    <2> QED BY <2>2, <2>3
  <1>11. CASE DependencyTest(t)
    <2> USE <1>11
    <2>1. PICK f : f = Top(t)
      OBVIOUS
    <2>2. PICK x : x = f.task
      OBVIOUS
    <2>3. /\ stack[t] # << >> /\ n_posts # 0 /\ f \in FrameType /\ x \in Tasks
          /\ Running(t, "dependency") /\ f.at = 2
      BY <2>1, <2>2, TopOK DEF FrameType, DependencyTest
    <2>4. UNCHANGED <<taskvars, queued, n_runs, uservars>>
      BY DEF DependencyTest
    <2>5. CASE AllSatisfied(x, f.n[1])
      <3>1. Call(t, [f EXCEPT !.at = 3], Frame("post", x, f.arg))
        BY <2>1, <2>2, <2>5 DEF DependencyTest
      <3> QED BY <2>1, <2>2, <2>3, <2>4, <2>5, <3>1, <1>9
    <2>6. CASE ~AllSatisfied(x, f.n[1])
      <3>1. Return(t, "OK")
        BY <2>1, <2>2, <2>6 DEF DependencyTest
      <3>2. Returned(t)
        BY <2>3, <3>1, ReturnFrames DEF Inv, Results
      <3>3. Types' /\ Stable /\ n_posts' = n_posts
        BY <2>4, <3>2, KeptTypes DEF Returned
      <3>4. Quiet
        BY <2>3, <3>2, <3>3, QuietReturn
      <3> QED BY <2>3, <3>3, <3>4, QuietStep
    <2> QED BY <2>5, <2>6
  <1> QED BY <1>10, <1>11
=============================================================================
