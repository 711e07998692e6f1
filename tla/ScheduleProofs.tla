--------------------------- MODULE ScheduleProofs ---------------------------
(***************************************************************************)
(* The first post of a request whose graph is one schedule, for any number *)
(* of threads and tasks: the order in which tasks are posted, when the     *)
(* schedule completes, what the user sees of the request, and what is left *)
(* once it is finalized.                                                   *)
(***************************************************************************)
EXTENDS ScheduleSteps, ScheduleCount, FiniteSetTheorems

-----------------------------------------------------------------------------
(* Requests whose tasks all succeed                                        *)

LEMMA OnlyOK ==
    ASSUME Succeeding, Inv
    PROVE  Outcomes = {"OK"}
  BY DEF Succeeding, Inv, Types, Outcomes

\* what the post of a task changes, when it cannot fail
LEMMA PostTaskStep ==
    ASSUME Succeeding, OneGraphs, Inv, NEW t \in Threads, PostTask(t)
    PROVE  \E x \in Tasks :
              /\ IsLeaf(x) /\ n_runs[x] = 0
              /\ x = Root \/ Graph.schedule[x] = Root
              /\ n_runs' = [n_runs EXCEPT ![x] = 1]
              /\ \/ /\ status' = [status EXCEPT ![x] = "INPROGRESS"]
                    /\ ustatus' = [ustatus EXCEPT ![x] = "INPROGRESS"]
                    /\ queued' = queued \cup {x}
                    /\ Return(t, "OK")
                 \/ /\ status' = [status EXCEPT ![x] = "OK"]
                    /\ UNCHANGED <<ustatus, queued>>
                    /\ Jump(t, CompleteFrame(x))
              /\ UNCHANGED <<user, n_posts, released, req>>
              /\ stack[t] # << >>
  <1>1. PICK f, x : f = Top(t) /\ x = f.task
    BY Zenon
  <1>2. stack[t] # << >> /\ x \in Tasks /\ f.fn = "post" /\ FrameOK(f)
    BY <1>1, TopOK, Zenon DEF FrameType, PostTask
  <1>3. n_runs[x] = 0 /\ (x = Root \/ Graph.schedule[x] = Root)
    BY <1>1, <1>2, Zenon DEF FrameOK
  <1>4. /\ n_runs' = [n_runs EXCEPT ![x] = @ + 1]
        /\ UNCHANGED <<user, n_posts, released, req>>
        /\ IsLeaf(x)
    BY <1>1, Zenon DEF PostTask, uservars
  <1>5. n_runs' = [n_runs EXCEPT ![x] = 1]
    BY <1>3, <1>4
  <1>6. "ERR" \notin Outcomes /\ \A st \in Outcomes : st = "OK"
    BY OnlyOK
  <1>7. \/ /\ status' = [status EXCEPT ![x] = "INPROGRESS"]
           /\ ustatus' = [ustatus EXCEPT ![x] = "INPROGRESS"]
           /\ queued' = queued \cup {x}
           /\ Return(t, "OK")
        \/ /\ status' = [status EXCEPT ![x] = "OK"]
           /\ UNCHANGED <<ustatus, queued>>
           /\ Jump(t, CompleteFrame(x))
    BY <1>1, <1>6, Zenon DEF PostTask
  <1> QED BY <1>2, <1>3, <1>4, <1>5, <1>7, Zenon

LEMMA PostTaskSmooth ==
    ASSUME Succeeding, OneGraphs, Inv, Smooth, NEW t \in Threads, PostTask(t)
    PROVE  Smooth'
  <1>1. PICK x \in Tasks :
              /\ IsLeaf(x) /\ n_runs[x] = 0
              /\ x = Root \/ Graph.schedule[x] = Root
              /\ n_runs' = [n_runs EXCEPT ![x] = 1]
              /\ \/ /\ status' = [status EXCEPT ![x] = "INPROGRESS"]
                    /\ ustatus' = [ustatus EXCEPT ![x] = "INPROGRESS"]
                    /\ queued' = queued \cup {x}
                    /\ Return(t, "OK")
                 \/ /\ status' = [status EXCEPT ![x] = "OK"]
                    /\ UNCHANGED <<ustatus, queued>>
                    /\ Jump(t, CompleteFrame(x))
              /\ UNCHANGED <<user, n_posts, released, req>>
              /\ stack[t] # << >>
    BY PostTaskStep, Zenon
  <1>2. /\ status \in [Tasks -> Status] /\ ustatus \in [Tasks -> Status]
        /\ n_runs \in [Tasks -> Nat] /\ Root \in Tasks
    BY ScheduleAssumption, Zenon DEF Inv, Types
  <1>3. /\ n_runs'[x] = 1
        /\ \A y \in Tasks : y # x => /\ n_runs'[y] = n_runs[y]
                                     /\ status'[y] = status[y]
                                     /\ ustatus'[y] = ustatus[y]
                                     /\ y \in queued' <=> y \in queued
        /\ status'[x] = "OK" \/ x \in queued'
        /\ ustatus'[x] \in {ustatus[x], "INPROGRESS"}
    BY <1>1, <1>2
  <1>4. \A u \in Threads : ret'[u] = "OK"
    <2>1. ret' = [ret EXCEPT ![t] = "OK"]
      BY <1>1, Zenon DEF Return, Jump
    <2>2. ret \in [Threads -> Results] /\ \A u \in Threads : ret[u] = "OK"
      BY DEF Smooth, Inv, Types
    <2> QED BY <2>1, <2>2
  <1>5. SmoothFrames'
    <2>1. PICK g : g = CompleteFrame(x)
      BY Zenon
    <2>2. g.fn = "complete" /\ g.task = x /\ g.at = 1
      BY <2>1 DEF CompleteFrame, Frame
    <2>3. ASSUME NEW u \in Threads, NEW d \in 1 .. H(u)'
          PROVE  \/ Other(t, u, d) /\ At(u, d)' = At(u, d)
                 \/ At(u, d)' = g /\ status'[x] = "OK"
      <3>1. CASE Return(t, "OK")
        BY <1>1, <3>1, ReturnShape, Zenon
      <3>2. CASE Jump(t, g) /\ status'[x] = "OK"
        BY <1>1, <3>2, JumpShape
      <3> QED BY <1>1, <1>2, <2>1, <3>1, <3>2, Zenon
    <2>4. status'[x] = "OK" => SmoothFrame(g)'
      BY <2>2 DEF SmoothFrame
    <2>5. ASSUME NEW u \in Threads, NEW d \in 1 .. H(u)'
          PROVE  \/ Other(t, u, d) /\ At(u, d)' = At(u, d)
                 \/ SmoothFrame(At(u, d))'
      BY <2>3, <2>4, Zenon DEF SmoothFrame
    <2>6. \A y \in Tasks : status'[y] \in {status[y], "OK"} \/ n_runs[y] = 0
      BY <1>1, <1>3, Zenon
    <2> QED BY <2>5, <2>6, FramesKept
  <1>6. SmoothEnds'
    <2>1. \A y : IsLeaf(y)' <=> IsLeaf(y)
      BY <1>1 DEF IsLeaf, IsSchedule, IsPipelined, Graph
    <2> QED BY <1>3, <2>1 DEF Smooth, SmoothEnds
  <1>7. ustatus[Root] = "OK" => x # Root
    BY <1>1 DEF Smooth, Seen
  <1>8. Seen'
    BY <1>2, <1>3, <1>7 DEF Smooth, Seen, Failed
  <1>9. UserOK'
    BY <1>1, <1>2, <1>3, <1>7, Zenon DEF Smooth, UserOK
  <1> QED BY <1>4, <1>5, <1>6, <1>8, <1>9 DEF Smooth

LEMMA ScheduleStartStep ==
    ASSUME OneGraphs, Inv, NEW t \in Threads, ScheduleStart(t)
    PROVE  /\ n_runs[Root] = 0 /\ IsSchedule(Root) /\ Root \in Tasks
           /\ status' = [status EXCEPT ![Root] = "INPROGRESS"]
           /\ ustatus' = [ustatus EXCEPT ![Root] = "INPROGRESS"]
           /\ n_runs' = [n_runs EXCEPT ![Root] = 1]
           /\ \E g : g = NotifyFrame(Root, "SCHEDULE_STARTED") /\ Jump(t, g)
           /\ UNCHANGED <<queued, user, n_posts, released, req>>
           /\ stack[t] # << >>
  <1>1. PICK f, g : f = Top(t) /\ g = NotifyFrame(Root, "SCHEDULE_STARTED")
    BY Zenon
  <1>2. stack[t] # << >> /\ f \in FrameType /\ f.fn = "post" /\ FrameOK(f)
    BY <1>1, TopOK, Zenon DEF ScheduleStart
  <1>3. f.task = Root /\ Root \in Tasks /\ IsSchedule(Root)
    BY <1>1, <1>2, RootFacts, Zenon DEF ScheduleStart, FrameType
  <1>4. n_runs[Root] = 0
    BY <1>2, <1>3, Zenon DEF FrameOK
  <1>5. /\ status' = [status EXCEPT ![Root] = "INPROGRESS"]
        /\ ustatus' = [ustatus EXCEPT ![Root] = "INPROGRESS"]
        /\ n_runs' = [n_runs EXCEPT ![Root] = @ + 1]
        /\ Jump(t, g) /\ UNCHANGED <<queued, user, n_posts, released, req>>
    BY <1>1, <1>3 DEF ScheduleStart, uservars
  <1>6. n_runs' = [n_runs EXCEPT ![Root] = 1]
    BY <1>4, <1>5
  <1> QED BY <1>1, <1>2, <1>3, <1>4, <1>5, <1>6

LEMMA ScheduleStartSmooth ==
    ASSUME OneGraphs, Inv, Smooth, NEW t \in Threads, ScheduleStart(t)
    PROVE  Smooth'
  <1>1. /\ n_runs[Root] = 0 /\ IsSchedule(Root) /\ Root \in Tasks
        /\ status' = [status EXCEPT ![Root] = "INPROGRESS"]
        /\ ustatus' = [ustatus EXCEPT ![Root] = "INPROGRESS"]
        /\ n_runs' = [n_runs EXCEPT ![Root] = 1]
        /\ UNCHANGED <<queued, user, n_posts, released, req>>
        /\ stack[t] # << >>
    BY ScheduleStartStep
  <1>2. PICK g : g = NotifyFrame(Root, "SCHEDULE_STARTED") /\ Jump(t, g)
    BY ScheduleStartStep
  <1>3. /\ status \in [Tasks -> Status] /\ ustatus \in [Tasks -> Status]
        /\ n_runs \in [Tasks -> Nat]
    BY DEF Inv, Types
  <1>4. /\ ustatus'[Root] = "INPROGRESS"
        /\ \A y \in Tasks : y # Root => /\ n_runs'[y] = n_runs[y]
                                        /\ status'[y] = status[y]
    BY <1>1, <1>3
  <1>5. \A u \in Threads : ret'[u] = "OK"
    <2>1. ret' = [ret EXCEPT ![t] = "OK"]
      BY <1>2 DEF Jump
    <2>2. ret \in [Threads -> Results] /\ \A u \in Threads : ret[u] = "OK"
      BY DEF Smooth, Inv, Types
    <2> QED BY <2>1, <2>2
  <1>6. SmoothFrames'
    <2>1. g.fn = "notify" /\ g.arg # "ERROR"
      BY <1>2 DEF NotifyFrame, Frame
    <2>2. SmoothFrame(g)'
      BY <2>1 DEF SmoothFrame
    <2>3. ASSUME NEW u \in Threads, NEW d \in 1 .. H(u)'
          PROVE  \/ Other(t, u, d) /\ At(u, d)' = At(u, d)
                 \/ At(u, d)' = g
      BY <1>1, <1>2, JumpShape
    <2>4. ASSUME NEW u \in Threads, NEW d \in 1 .. H(u)'
          PROVE  \/ Other(t, u, d) /\ At(u, d)' = At(u, d)
                 \/ SmoothFrame(At(u, d))'
      BY <2>2, <2>3, Zenon DEF SmoothFrame
    <2>5. \A y \in Tasks : status'[y] \in {status[y], "OK"} \/ n_runs[y] = 0
      BY <1>1, <1>4
    <2> QED BY <2>4, <2>5, FramesKept
  <1>7. SmoothEnds'
    <2>1. \A y : IsLeaf(y)' <=> IsLeaf(y)
      BY <1>1 DEF IsLeaf, IsSchedule, IsPipelined, Graph
    <2> QED BY <1>1, <1>4, <2>1 DEF Smooth, SmoothEnds, IsLeaf
  <1>8. Seen' /\ UserOK'
    BY <1>1, <1>4 DEF Smooth, Seen, UserOK, Failed
  <1> QED BY <1>5, <1>6, <1>7, <1>8 DEF Smooth

LEMMA ProgressStep ==
    ASSUME Succeeding, OneGraphs, Inv, NEW t \in Threads, Progress(t)
    PROVE  \E x \in queued :
              /\ x \in Tasks /\ IsLeaf(x) /\ n_runs[x] = 1
              /\ queued' = queued \ {x}
              /\ status' = [status EXCEPT ![x] = "OK"]
              /\ stack' = [stack EXCEPT ![t] = <<CompleteFrame(x)>>]
              /\ stack[t] = << >>
              /\ UNCHANGED <<ustatus, ret, n_runs, user, n_posts, released, req>>
  <1>1. PICK x \in queued, st \in Outcomes :
           /\ queued' = queued \ {x}
           /\ status' = [status EXCEPT ![x] = st]
           /\ stack' = [stack EXCEPT ![t] = <<CompleteFrame(x)>>]
    BY Zenon DEF Progress
  <1>2. st = "OK"
    BY OnlyOK
  <1>3. x \in Tasks /\ IsLeaf(x) /\ n_runs[x] = 1
    BY DEF Inv, Types, Queue
  <1>4. /\ stack[t] = << >>
        /\ UNCHANGED <<ustatus, ret, n_runs, user, n_posts, released, req>>
    BY DEF Progress, uservars
  <1> QED BY <1>1, <1>2, <1>3, <1>4, Zenon

LEMMA ProgressSmooth ==
    ASSUME Succeeding, OneGraphs, Inv, Smooth, NEW t \in Threads, Progress(t)
    PROVE  Smooth'
  <1>1. PICK x \in queued :
              /\ x \in Tasks /\ IsLeaf(x) /\ n_runs[x] = 1
              /\ queued' = queued \ {x}
              /\ status' = [status EXCEPT ![x] = "OK"]
              /\ stack' = [stack EXCEPT ![t] = <<CompleteFrame(x)>>]
              /\ stack[t] = << >>
              /\ UNCHANGED <<ustatus, ret, n_runs, user, n_posts, released, req>>
    BY ProgressStep
  <1>2. /\ status'[x] = "OK"
        /\ \A y \in Tasks : y # x => status'[y] = status[y]
    BY <1>1 DEF Inv, Types
  <1>3. PICK g : g = CompleteFrame(x)
    BY Zenon
  <1>4. SmoothFrame(g)'
    <2>1. g.fn = "complete" /\ g.task = x /\ g.at = 1
      BY <1>3 DEF CompleteFrame, Frame
    <2> QED BY <1>2, <2>1 DEF SmoothFrame
  <1>5. ASSUME NEW u \in Threads, NEW d \in 1 .. H(u)'
        PROVE  \/ Other(t, u, d) /\ At(u, d)' = At(u, d)
               \/ At(u, d)' = g
    <2>1. CASE u # t
      <3>1. stack'[u] = stack[u]
        BY <1>1, <2>1, Zenon DEF Inv, Types
      <3> QED BY <2>1, <3>1 DEF H, At, Other
    <2>2. CASE u = t
      <3>1. stack'[t] = <<g>>
        BY <1>1, <1>3, Zenon DEF Inv, Types
      <3>2. H(t)' = 1 /\ At(t, 1)' = g
        BY <3>1 DEF H, At
      <3> QED BY <2>2, <3>2
    <2> QED BY <2>1, <2>2
  <1>6. ASSUME NEW u \in Threads, NEW d \in 1 .. H(u)'
        PROVE  \/ Other(t, u, d) /\ At(u, d)' = At(u, d)
               \/ SmoothFrame(At(u, d))'
    BY <1>4, <1>5, Zenon DEF SmoothFrame
  <1>7. SmoothFrames'
    <2>1. \A y \in Tasks : status'[y] \in {status[y], "OK"}
      BY <1>2
    <2> QED BY <1>6, <2>1, FramesKept
  <1>8. SmoothEnds'
    <2>1. \A y : IsLeaf(y)' <=> IsLeaf(y)
      BY <1>1 DEF IsLeaf, IsSchedule, IsPipelined, Graph
    <2> QED BY <1>1, <1>2, <2>1 DEF Smooth, SmoothEnds
  <1>9. Seen'
    BY <1>1, <1>2, ScheduleAssumption, Zenon DEF Smooth, Seen
  <1>10. UserOK' /\ \A u \in Threads : ret'[u] = "OK"
    BY <1>1 DEF Smooth, UserOK
  <1> QED BY <1>7, <1>8, <1>9, <1>10 DEF Smooth

LEMMA UserPostStep ==
    ASSUME Inv, Smooth, NEW t \in Threads, UserPost(t), n_posts = 0
    PROVE  /\ n_runs' = n_runs /\ n_runs = [x \in Tasks |-> 0]
           /\ UNCHANGED <<status, ustatus, queued, released, req>>
           /\ n_posts' = 1 /\ user' = "posting"
  BY DEF UserPost, Inv, Fresh, taskvars

LEMMA UserPostSmooth ==
    ASSUME OneGraphs, Inv, Smooth, NEW t \in Threads, UserPost(t), n_posts = 0
    PROVE  Smooth'
  <1>1. PICK f, g : f = Frame("posted", Root, NULL) /\ g = Frame("post", Root, NULL)
    BY Zenon
  <1>2. f.fn = "posted" /\ g.fn = "post"
    BY <1>1 DEF Frame
  <1>3. /\ UNCHANGED <<n_runs, status, ustatus, queued, req>>
        /\ n_posts' = 1 /\ user' = "posting"
    BY UserPostStep
  <1>4. SmoothFrame(f)' /\ SmoothFrame(g)'
    BY <1>2 DEF SmoothFrame
  <1>5. ASSUME NEW u \in Threads, NEW d \in 1 .. H(u)'
        PROVE  \/ Other(t, u, d) /\ At(u, d)' = At(u, d)
               \/ At(u, d)' = f
               \/ At(u, d)' = g
    <2>1. CASE u # t
      <3>1. stack'[u] = stack[u]
        BY <2>1, Zenon DEF UserPost, Inv, Types
      <3> QED BY <2>1, <3>1 DEF H, At, Other
    <2>2. CASE u = t
      <3>1. stack'[t] = <<g, f>>
        BY <1>1, Zenon DEF UserPost, Inv, Types
      <3>2. H(t)' = 2 /\ At(t, 1)' = f /\ At(t, 2)' = g
        BY <3>1 DEF H, At
      <3> QED BY <2>2, <3>2
    <2> QED BY <2>1, <2>2
  <1>6. ASSUME NEW u \in Threads, NEW d \in 1 .. H(u)'
        PROVE  \/ Other(t, u, d) /\ At(u, d)' = At(u, d)
               \/ SmoothFrame(At(u, d))'
    BY <1>4, <1>5 DEF SmoothFrame
  <1>7. SmoothFrames'
    <2>1. \A y \in Tasks : status'[y] \in {status[y], "OK"}
      BY <1>3
    <2> QED BY <1>6, <2>1, FramesKept
  <1>8. SmoothEnds' /\ Seen'
    BY <1>3, Zenon
       DEF Smooth, SmoothEnds, Seen, IsLeaf, IsSchedule, IsPipelined, Graph
  <1>9. UserOK'
    BY <1>3 DEF UserOK
  <1>10. \A u \in Threads : ret'[u] = "OK"
    BY Zenon DEF UserPost, Smooth, Inv, Types
  <1> QED BY <1>7, <1>8, <1>9, <1>10 DEF Smooth

LEMMA UserSmooth ==
    ASSUME Smooth,
           UNCHANGED <<stack, ret, status, ustatus, queued, n_runs, n_posts, req>>,
           UserOK'
    PROVE  Smooth'
  <1>1. \A u, d : H(u)' = H(u) /\ At(u, d)' = At(u, d)
    BY DEF H, At
  <1>2. SmoothFrames'
    BY <1>1 DEF Smooth, SmoothFrames, SmoothFrame
  <1>3. SmoothEnds' /\ Seen' /\ \A u \in Threads : ret'[u] = "OK"
    BY DEF Smooth, SmoothEnds, Seen, IsLeaf, IsSchedule, IsPipelined, Graph
  <1> QED BY <1>2, <1>3 DEF Smooth

LEMMA UserTestSmooth ==
    ASSUME Smooth, NEW t, UserTest(t) \/ UserFinalize(t)
    PROVE  Smooth'
  <1>1. UNCHANGED <<stack, ret, status, ustatus, queued, n_runs, n_posts, req>>
    BY DEF UserTest, UserFinalize, taskvars
  <1>2. UserOK'
    BY <1>1 DEF UserTest, UserFinalize, Smooth, UserOK, Seen
  <1> QED BY <1>1, <1>2, UserSmooth

-----------------------------------------------------------------------------
(* What is left at the end                                                 *)

OwnStep(t) ==
    /\ stack[t] # << >>
    /\ \A u \in Threads : u # t => stack'[u] = stack[u]
    /\ UNCHANGED <<released, req>>

LEMMA StepOwn ==
    ASSUME Inv, NEW t \in Threads, Step(t)
    PROVE  OwnStep(t)
  <1>0. stack \in [Threads -> Seq(FrameType)]
    BY DEF Inv, Types
  <1> DEFINE Own == \A u \in Threads : u # t => stack'[u] = stack[u]
  <1>a. ASSUME NEW st, Return(t, st) PROVE Own
    BY <1>0, <1>a DEF Return
  <1>b. ASSUME NEW g, Jump(t, g) PROVE Own
    BY <1>0, <1>b DEF Jump
  <1>c. ASSUME NEW h, NEW g, Call(t, h, g) PROVE Own
    BY <1>0, <1>c DEF Call
  <1> USE DEF OwnStep, Running, uservars
  <1>1. Notify(t) => OwnStep(t)
    <2> SUFFICES ASSUME Notify(t) PROVE OwnStep(t)
      OBVIOUS
    <2>1. (\E st : Return(t, st)) \/ (\E h, g : Call(t, h, g))
      BY Zenon DEF Notify
    <2>2. stack[t] # << >> /\ UNCHANGED <<released, req>>
      BY DEF Notify
    <2> QED BY <1>a, <1>c, <2>1, <2>2
  <1>2. ErrorHandler(t) => OwnStep(t)
    <2> SUFFICES ASSUME ErrorHandler(t) PROVE OwnStep(t)
      OBVIOUS
    <2>1. (\E st : Return(t, st)) \/ (\E h, g : Call(t, h, g)) \/ (\E g : Jump(t, g))
      BY Zenon DEF ErrorHandler
    <2>2. stack[t] # << >> /\ UNCHANGED <<released, req>>
      BY DEF ErrorHandler
    <2> QED BY <1>a, <1>b, <1>c, <2>1, <2>2
  <1> USE <1>0 DEF Jump, Call, Return
  <1>3. CompleteNotify(t) => OwnStep(t)
    BY DEF CompleteNotify
  <1>4. CompleteFinish(t) => OwnStep(t)
    BY Zenon DEF CompleteFinish
  <1>5. ReturnOwn(t) => OwnStep(t)
    BY DEF ReturnOwn
  <1>6. ScheduleCompletedAdd(t) => OwnStep(t)
    BY DEF ScheduleCompletedAdd
  <1>7. ScheduleCompletedTest(t) => OwnStep(t)
    BY DEF ScheduleCompletedTest
  <1>8. DependencyAdd(t) => OwnStep(t)
    BY DEF DependencyAdd
  <1>9. DependencyTest(t) => OwnStep(t)
    BY Zenon DEF DependencyTest
  <1>10. DependencyStarted(t) => OwnStep(t)
    BY DEF DependencyStarted
  <1>11. PostTask(t) => OwnStep(t)
    BY Zenon DEF PostTask
  <1>12. ScheduleStart(t) => OwnStep(t)
    BY Zenon DEF ScheduleStart
  <1>13. UserPosted(t) => OwnStep(t)
    BY DEF UserPosted
  <1> QED BY <1>1, <1>2, <1>3, <1>4, <1>5, <1>6, <1>7, <1>8, <1>9,
          <1>10, <1>11, <1>12, <1>13, Zenon DEF Step

\* a request that is seen as complete has no task left in the progress queue
LEMMA NothingQueued ==
    ASSUME OneGraphs, Inv, Counting, Smooth, ustatus[Root] = "OK"
    PROVE  queued = {} /\ \A x \in Parts : n_runs[x] = 1 /\ x \notin queued
  <1>1. status[Root] = "OK" /\ Root \notin queued
    BY DEF Smooth, Seen
  <1>2. \A x \in Parts : n_runs[x] = 1 /\ x \notin queued
    BY <1>1, PartsFacts DEF Counting, Done, CountedParts, Counted
  <1>3. \A x \in queued : x = Root \/ x \in Parts
    BY PartsFacts, Zenon DEF Inv, Queue, Runs, Types
  <1> QED BY <1>1, <1>2, <1>3

LEMMA UnchangedSmooth ==
    ASSUME Smooth, UNCHANGED vars
    PROVE  Smooth'
  <1>1. UserOK'
    BY DEF Smooth, UserOK, vars, taskvars, uservars
  <1> QED BY <1>1, UserSmooth DEF vars, taskvars, uservars

LEMMA InitSmooth ==
    ASSUME OneGraphs, Init, CountInv
    PROVE  SmoothInv
  <1>2. /\ \A u \in Threads : H(u) = 0 /\ stack[u] = << >> /\ ret[u] = "OK"
        /\ n_posts = 0 /\ user = "idle" /\ released = {} /\ queued = {}
        /\ ustatus[Root] = "INITIALIZED"
        /\ \A x \in Tasks : n_runs[x] = 0
    BY ScheduleAssumption DEF Init, H
  <1>3. SmoothFrames /\ SmoothEnds /\ Seen /\ UserOK
    BY <1>2 DEF SmoothFrames, SmoothEnds, Seen, UserOK, Failed
  <1> QED BY <1>2, <1>3 DEF SmoothInv, Smooth

LEMMA NextSmooth ==
    ASSUME Succeeding, CardinalityFacts, OneGraphs, SmoothInv, CountInv',
           [Next]_vars
    PROVE  SmoothInv'
  <1>1. CountInv /\ CountInv'
    BY DEF SmoothInv
  <1> SUFFICES ASSUME n_posts' <= 1 PROVE Smooth'
    BY <1>1 DEF SmoothInv
  <1>2. n_posts \in Nat /\ n_posts' \in {n_posts, n_posts + 1}
    BY <1>1, PostsGrow DEF CountInv, FirstInv
  <1>3. Inv /\ Counting /\ Smooth
    BY <1>1, <1>2 DEF CountInv, FirstInv, SmoothInv
  <1>4. CASE UNCHANGED vars
    BY <1>3, <1>4, UnchangedSmooth
  <1>5. ASSUME NEW t \in req.callers,
               Step(t) \/ Progress(t) \/ UserPost(t) \/ UserTest(t)
                       \/ UserFinalize(t)
        PROVE  Smooth'
    <2>1. t \in Threads
      BY <1>3, <1>5, GraphFacts DEF Inv
    <2>3. CASE Step(t)
      <3> USE <1>3, <2>1
      <3>1. CASE Notify(t) \/ DependencyTest(t) \/ DependencyAdd(t)
                           \/ DependencyStarted(t)
        BY <3>1, NotifySmooth, DependencySmooth, Zenon
      <3>2. CASE CompleteNotify(t) \/ CompleteFinish(t) \/ ErrorHandler(t)
                                   \/ ReturnOwn(t)
        BY <3>2, CompleteNotifySmooth, CompleteFinishSmooth, ErrorHandlerSmooth,
           ReturnOwnSmooth, Zenon
      <3>3. CASE ScheduleCompletedAdd(t) \/ ScheduleCompletedTest(t)
        BY <3>3, ScheduleCompletedAddSmooth, ScheduleCompletedTestSmooth, Zenon
      <3>4. CASE PostTask(t) \/ ScheduleStart(t) \/ UserPosted(t)
        BY <3>4, PostTaskSmooth, ScheduleStartSmooth, UserPostedSmooth, Zenon
      <3> QED BY <2>3, <3>1, <3>2, <3>3, <3>4, Zenon DEF Step
    <2>4. CASE UserPost(t)
      <3>1. n_posts = 0
        BY <1>2, <2>4 DEF UserPost
      <3> QED BY <1>3, <2>1, <2>4, <3>1, UserPostSmooth
    <2>5. CASE Progress(t) \/ UserTest(t) \/ UserFinalize(t)
      BY <1>3, <2>1, <2>5, ProgressSmooth, UserTestSmooth
    <2> QED BY <1>5, <2>3, <2>4, <2>5
  <1> QED BY <1>4, <1>5 DEF Next

-----------------------------------------------------------------------------
(* The refinement of RequestLife                                           *)

Unended(x) == n_runs[x] = 0 \/ status[x] # "OK"

LEMMA LeavesFacts ==
    ASSUME OneGraphs, Inv
    PROVE  /\ \A x : x \in Leaves <=>
                       x \in Tasks /\ IsLeaf(x) /\ (x = Root \/ x \in Parts)
           /\ n_posts # 0 => Todo = {x \in Leaves : Unended(x)}
  <1>1. \A x \in Tasks : Graph.schedule[x] # NULL <=> Graph.schedule[x] = Root
    BY GraphFacts, ScheduleAssumption, Zenon DEF OneSchedule, Inv
  <1> QED BY <1>1, PartsFacts DEF Leaves, Todo, Unended

LEMMA SameLeaves ==
    ASSUME req' = req
    PROVE  Leaves' = Leaves /\ \A x : IsLeaf(x)' <=> IsLeaf(x)
  BY DEF Leaves, IsLeaf, IsSchedule, IsPipelined, Graph

\* a step that ends no task, and that the user does not see
LEMMA Stutter ==
    ASSUME UNCHANGED <<n_posts, req>>,
           \A x \in Leaves : Unended(x)' <=> Unended(x),
           n_runs'[Root] > 0 /\ ustatus'[Root] = "OK" <=>
              n_runs[Root] > 0 /\ ustatus[Root] = "OK"
    PROVE  UNCHANGED <<Leaves, Phase, Todo>>
  BY SameLeaves, Zenon DEF Phase, Todo, Unended

LEMMA SameStutter ==
    ASSUME UNCHANGED <<n_posts, n_runs, status, ustatus, req>>
    PROVE  UNCHANGED <<Leaves, Phase, Todo>>
  BY Stutter DEF Unended

\* a step that ends task x
LEMMA EndStep ==
    ASSUME OneGraphs, Inv, Inv', n_posts # 0, UNCHANGED <<n_posts, req>>,
           NEW x \in Leaves, Unended(x), ~Unended(x)',
           \A y \in Leaves : y # x => (Unended(y)' <=> Unended(y)),
           Phase = "active", Phase' = "active"
    PROVE  Request!Next
  <1>1. Leaves' = Leaves
    BY SameLeaves
  <1>2. Todo = {y \in Leaves : Unended(y)}
    BY LeavesFacts
  <1>3. Todo' = {y \in Leaves : Unended(y)'}
    BY <1>1, LeavesFacts DEF Todo, Unended
  <1>4. x \in Todo /\ Todo' = Todo \ {x}
    BY <1>2, <1>3
  <1> QED BY <1>1, <1>4 DEF Request!Next, Request!End

\* while a task has not ended, the request is not seen as complete
LEMMA StillActive ==
    ASSUME OneGraphs, Inv, Counting, Smooth, n_posts # 0,
           NEW x \in Tasks, x = Root \/ x \in Parts,
           n_runs[x] = 0 \/ x \in queued
    PROVE  Phase = "active"
  <1>1. SUFFICES ASSUME n_runs[Root] > 0, ustatus[Root] = "OK" PROVE FALSE
    BY DEF Phase
  <1>2. n_runs[Root] = 1 /\ queued = {} /\ \A y \in Parts : n_runs[y] = 1
    BY <1>1, NothingQueued DEF Smooth, Seen
  <1> QED BY <1>2

LEMMA PostTaskRefines ==
    ASSUME Succeeding, OneGraphs, Inv, Inv', Counting, Smooth, n_posts # 0,
           NEW t \in Threads, PostTask(t)
    PROVE  Request!Next \/ UNCHANGED <<Leaves, Phase, Todo>>
  <1>1. PICK x \in Tasks :
              /\ IsLeaf(x) /\ n_runs[x] = 0
              /\ x = Root \/ Graph.schedule[x] = Root
              /\ n_runs' = [n_runs EXCEPT ![x] = 1]
              /\ \/ /\ status' = [status EXCEPT ![x] = "INPROGRESS"]
                    /\ ustatus' = [ustatus EXCEPT ![x] = "INPROGRESS"]
                    /\ queued' = queued \cup {x}
                    /\ Return(t, "OK")
                 \/ /\ status' = [status EXCEPT ![x] = "OK"]
                    /\ UNCHANGED <<ustatus, queued>>
                    /\ Jump(t, CompleteFrame(x))
              /\ UNCHANGED <<user, n_posts, released, req>>
              /\ stack[t] # << >>
    BY PostTaskStep, Zenon
  <1>2. /\ status \in [Tasks -> Status] /\ ustatus \in [Tasks -> Status]
        /\ n_runs \in [Tasks -> Nat] /\ Root \in Tasks
    BY ScheduleAssumption, Zenon DEF Inv, Types
  <1>3. /\ n_runs'[x] = 1 /\ status'[x] \in {"INPROGRESS", "OK"}
        /\ ustatus'[x] \in {ustatus[x], "INPROGRESS"}
        /\ \A y \in Tasks : y # x => /\ n_runs'[y] = n_runs[y]
                                     /\ status'[y] = status[y]
                                     /\ ustatus'[y] = ustatus[y]
    BY <1>1, <1>2, Zenon
  <1>4. x \in Leaves /\ (x = Root \/ x \in Parts) /\ Unended(x)
    BY <1>1, LeavesFacts, PartsFacts, Zenon DEF Unended
  <1>5. \A y \in Leaves : y # x => (Unended(y)' <=> Unended(y))
    BY <1>3, LeavesFacts, Zenon DEF Unended
  <1>6. Phase = "active"
    BY <1>1, <1>4, StillActive, Zenon
  <1>7. n_runs'[Root] > 0 /\ ustatus'[Root] = "OK" <=>
          n_runs[Root] > 0 /\ ustatus[Root] = "OK"
    <2>1. CASE x # Root
      BY <1>2, <1>3, <2>1
    <2>2. CASE x = Root
      <3>1. ustatus[Root] # "OK"
        BY <1>1, <2>2 DEF Smooth, Seen
      <3> QED BY <1>3, <2>2, <3>1
    <2> QED BY <2>1, <2>2
  <1>8. Phase' = "active"
    BY <1>1, <1>6, <1>7, Zenon DEF Phase
  <1>9. CASE status'[x] = "OK"
    <2>1. ~Unended(x)'
      BY <1>3, <1>9 DEF Unended
    <2> QED BY <1>1, <1>4, <1>5, <1>6, <1>8, <2>1, EndStep, Zenon
  <1>10. CASE status'[x] # "OK"
    <2>1. \A y \in Leaves : Unended(y)' <=> Unended(y)
      BY <1>4, <1>5, <1>10 DEF Unended
    <2> QED BY <1>1, <1>7, <2>1, Stutter, Zenon
  <1> QED BY <1>9, <1>10

LEMMA ProgressRefines ==
    ASSUME Succeeding, OneGraphs, Inv, Inv', Counting, Smooth, n_posts # 0,
           NEW t \in Threads, Progress(t)
    PROVE  Request!Next \/ UNCHANGED <<Leaves, Phase, Todo>>
  <1>1. PICK x \in queued :
              /\ x \in Tasks /\ IsLeaf(x) /\ n_runs[x] = 1
              /\ queued' = queued \ {x}
              /\ status' = [status EXCEPT ![x] = "OK"]
              /\ stack' = [stack EXCEPT ![t] = <<CompleteFrame(x)>>]
              /\ stack[t] = << >>
              /\ UNCHANGED <<ustatus, ret, n_runs, user, n_posts, released, req>>
    BY ProgressStep
  <1>2. /\ status'[x] = "OK"
        /\ \A y \in Tasks : y # x => status'[y] = status[y]
    BY <1>1, Zenon DEF Inv, Types
  <1>3. x = Root \/ x \in Parts
    BY <1>1, PartsFacts, Zenon DEF Inv, Runs
  <1>4. x \in Leaves
    BY <1>1, <1>3, LeavesFacts
  <1>5. \A y \in Leaves : y # x => (Unended(y)' <=> Unended(y))
    BY <1>1, <1>2, LeavesFacts DEF Unended
  <1>6. Phase = "active"
    BY <1>1, <1>3, StillActive
  <1>7. Phase' = "active"
    BY <1>1, <1>6 DEF Phase
  <1>8. ~Unended(x)'
    BY <1>1, <1>2 DEF Unended
  <1>9. CASE Unended(x)
    BY <1>1, <1>4, <1>5, <1>6, <1>7, <1>8, <1>9, EndStep, Zenon
  <1>10. CASE ~Unended(x)
    <2>1. \A y \in Leaves : Unended(y)' <=> Unended(y)
      BY <1>5, <1>8, <1>10
    <2> QED BY <1>1, <2>1, Stutter
  <1> QED BY <1>9, <1>10

LEMMA CompleteFinishRefines ==
    ASSUME OneGraphs, Inv, Counting, Smooth, n_posts # 0,
           NEW t \in Threads, CompleteFinish(t)
    PROVE  Request!Next \/ UNCHANGED <<Leaves, Phase, Todo>>
  <1>1. /\ UNCHANGED <<status, queued, n_runs, user, n_posts, released, req>>
        /\ ustatus'[Root] # ustatus[Root] =>
              ustatus'[Root] = "OK" /\ n_runs[Root] = 1 /\ status[Root] = "OK"
        /\ Smooth'
    BY CompleteFinishSmooth
  <1>2. \A y \in Leaves : Unended(y)' <=> Unended(y)
    BY <1>1 DEF Unended
  <1>3. CASE ustatus'[Root] = ustatus[Root]
    BY <1>1, <1>2, <1>3, Stutter
  <1>4. CASE ustatus'[Root] # ustatus[Root]
    <2>1. Phase = "active" /\ Phase' = "complete"
      BY <1>1, <1>4 DEF Phase
    <2>2. Leaves' = Leaves
      BY <1>1, SameLeaves
    <2>3. Todo' = Todo
      BY <1>1, <2>2 DEF Todo
    <2>4. \A y \in Leaves : n_runs[y] = 1 /\ status[y] = "OK"
      <3>1. IsSchedule(Root) => CountedParts = Parts
        BY <1>1, <1>4 DEF Counting, Done
      <3>2. \A y \in Parts : n_runs[y] = 1 /\ y \notin queued /\ IsLeaf(y)
        BY <3>1, PartsFacts DEF CountedParts, Counted
      <3>3. \A y \in Parts : status[y] = "OK"
        BY <3>2, PartsFacts DEF Smooth, SmoothEnds
      <3> QED BY <1>1, <1>4, <3>2, <3>3, LeavesFacts
    <2>5. Todo = {}
      BY <2>4, LeavesFacts DEF Unended
    <2> QED BY <2>1, <2>2, <2>3, <2>5 DEF Request!Next, Request!Complete
  <1> QED BY <1>3, <1>4

LEMMA StepRefines ==
    ASSUME Succeeding, OneGraphs, Inv, Inv', Counting, Smooth,
           NEW t \in Threads, Step(t)
    PROVE  Request!Next \/ UNCHANGED <<Leaves, Phase, Todo>>
  <1>1. n_posts # 0
    <2>1. stack[t] # << >>
      BY StepOwn DEF OwnStep
    <2> QED BY <2>1 DEF Inv, Fresh
  <1> DEFINE Same5 == UNCHANGED <<n_posts, n_runs, status, ustatus, req>>
  <1>2. \/ Same5
        \/ CompleteFinish(t) \/ ScheduleCompletedTest(t) \/ PostTask(t)
        \/ ScheduleStart(t)
    <2> USE DEF taskvars, uservars
    <2>1. Notify(t) => Same5
      BY DEF Notify
    <2>2. CompleteNotify(t) => Same5
      BY DEF CompleteNotify
    <2>3. ReturnOwn(t) => Same5
      BY DEF ReturnOwn
    <2>4. ScheduleCompletedAdd(t) => Same5
      BY DEF ScheduleCompletedAdd
    <2>5. DependencyAdd(t) => Same5
      BY DEF DependencyAdd
    <2>6. DependencyTest(t) => Same5
      BY DEF DependencyTest
    <2>7. DependencyStarted(t) => Same5
      BY DEF DependencyStarted
    <2>8. UserPosted(t) => Same5
      BY DEF UserPosted
    <2>9. ~ErrorHandler(t)
      BY ErrorHandlerSmooth
    <2> QED BY <2>1, <2>2, <2>3, <2>4, <2>5, <2>6, <2>7, <2>8, <2>9, Zenon
               DEF Step
  <1>3. CASE Same5
    BY <1>3, SameStutter
  <1>4. CASE ScheduleCompletedTest(t)
    <2>1. /\ UNCHANGED <<ustatus, n_runs, n_posts, req>> /\ IsSchedule(Root)
          /\ status' = status \/ status' = [status EXCEPT ![Root] = "OK"]
      BY <1>4, ScheduleCompletedTestSmooth
    <2>2. \A y \in Leaves : y # Root /\ y \in Tasks
      BY <2>1, LeavesFacts DEF IsLeaf
    <2>3. \A y \in Leaves : status'[y] = status[y]
      BY <2>1, <2>2, Zenon DEF Inv, Types
    <2> QED BY <2>1, <2>3, Stutter DEF Unended
  <1>5. CASE ScheduleStart(t)
    <2>1. /\ n_runs[Root] = 0 /\ IsSchedule(Root) /\ Root \in Tasks
          /\ status' = [status EXCEPT ![Root] = "INPROGRESS"]
          /\ ustatus' = [ustatus EXCEPT ![Root] = "INPROGRESS"]
          /\ n_runs' = [n_runs EXCEPT ![Root] = 1]
          /\ UNCHANGED <<n_posts, req>>
      BY <1>5, ScheduleStartStep
    <2>2. \A y \in Leaves : y # Root /\ y \in Tasks
      BY <2>1, LeavesFacts DEF IsLeaf
    <2>3. /\ status \in [Tasks -> Status] /\ ustatus \in [Tasks -> Status]
          /\ n_runs \in [Tasks -> Nat]
      BY Zenon DEF Inv, Types
    <2>4. /\ \A y \in Leaves : status'[y] = status[y] /\ n_runs'[y] = n_runs[y]
          /\ ustatus'[Root] # "OK"
      BY <2>1, <2>2, <2>3
    <2> QED BY <2>1, <2>4, Stutter DEF Unended
  <1> HIDE DEF Same5
  <1> QED BY <1>1, <1>2, <1>3, <1>4, <1>5, CompleteFinishRefines,
             PostTaskRefines

LEMMA NextRefines ==
    ASSUME Succeeding, OneGraphs, SmoothInv, SmoothInv', n_posts' <= 1, [Next]_vars
    PROVE  [Request!Next]_<<Leaves, Phase, Todo>>
  <1>1. n_posts \in Nat /\ n_posts' \in {n_posts, n_posts + 1}
    BY PostsGrow DEF SmoothInv, CountInv, FirstInv
  <1>2. Inv /\ Inv' /\ Counting /\ Smooth
    BY <1>1 DEF SmoothInv, CountInv, FirstInv
  <1>3. CASE UNCHANGED vars
    BY <1>3, SameStutter DEF vars, taskvars, uservars
  <1>4. ASSUME NEW t \in req.callers,
               Step(t) \/ Progress(t) \/ UserPost(t) \/ UserTest(t)
                       \/ UserFinalize(t)
        PROVE  Request!Next \/ UNCHANGED <<Leaves, Phase, Todo>>
    <2>1. t \in Threads
      BY <1>2, <1>4, GraphFacts DEF Inv
    <2>2. CASE Step(t)
      BY <1>2, <2>1, <2>2, StepRefines
    <2>3. CASE Progress(t)
      <3>1. n_posts # 0
        BY <1>2, <2>3, Zenon DEF Progress, Inv, Fresh
      <3> QED BY <1>2, <2>1, <2>3, <3>1, ProgressRefines
    <2>4. CASE UserTest(t) \/ UserFinalize(t)
      BY <2>4, SameStutter DEF UserTest, UserFinalize, taskvars
    <2>5. CASE UserPost(t)
      <3>1. n_posts = 0
        BY <1>1, <2>5 DEF UserPost
      <3>2. /\ n_runs' = n_runs /\ n_runs = [x \in Tasks |-> 0]
            /\ req' = req /\ n_posts' = 1
        BY <1>2, <2>1, <2>5, <3>1, UserPostStep
      <3>3. Leaves' = Leaves /\ Leaves \subseteq Tasks /\ Root \in Tasks
        BY <3>2, SameLeaves, ScheduleAssumption DEF Leaves
      <3>4. Phase = "ready" /\ Phase' = "active"
        BY <3>1, <3>2, <3>3 DEF Phase
      <3>5. Todo' = Leaves
        BY <3>2, <3>3 DEF Todo
      <3> QED BY <3>3, <3>4, <3>5 DEF Request!Next, Request!Post
    <2> QED BY <1>4, <2>2, <2>3, <2>4, <2>5
  <1> QED BY <1>3, <1>4 DEF Next

-----------------------------------------------------------------------------
(* The theorems                                                            *)

LEMMA NextInv ==
    ASSUME OneGraphs, FirstInv, [Next]_vars
    PROVE  FirstInv'
  <1>1. n_posts' \in {n_posts, n_posts + 1}
    BY PostsGrow
  <1>2. n_posts \in Nat /\ n_posts' \in Nat
    BY <1>1 DEF FirstInv
  <1> SUFFICES ASSUME n_posts' <= 1 PROVE Inv'
    BY <1>2 DEF FirstInv
  <1>3. Inv
    BY <1>1, <1>2 DEF FirstInv
  <1>4. CASE UNCHANGED vars
    BY <1>3, <1>4, UserTestInv, Zenon
  <1>5. ASSUME NEW t \in req.callers,
               Step(t) \/ Progress(t) \/ UserPost(t) \/ UserTest(t)
                       \/ UserFinalize(t)
        PROVE  Inv'
    <2>1. t \in Threads
      BY <1>3, <1>5, GraphFacts DEF Inv
    <2>2. CASE Step(t)
      <3> USE <1>3, <2>1
      <3>1. CASE Notify(t) \/ DependencyTest(t) \/ DependencyAdd(t)
                           \/ DependencyStarted(t)
        BY <3>1, PostingInv, DependencyAddInv, DependencyStartedInv, Zenon
      <3>2. CASE CompleteNotify(t) \/ CompleteFinish(t) \/ ErrorHandler(t)
                                   \/ ReturnOwn(t)
        BY <3>2, CompleteNotifyInv, CompleteFinishInv, ErrorHandlerInv,
           ReturnOwnInv, Zenon
      <3>3. CASE ScheduleCompletedAdd(t) \/ ScheduleCompletedTest(t)
        BY <3>3, ScheduleCompletedAddInv, ScheduleCompletedTestInv, Zenon
      <3>4. CASE PostTask(t) \/ ScheduleStart(t) \/ UserPosted(t)
        BY <3>4, PostTaskInv, ScheduleStartInv, UserPostedInv, Zenon
      <3> QED BY <2>2, <3>1, <3>2, <3>3, <3>4, Zenon DEF Step
    <2>3. CASE UserPost(t)
      <3>1. n_posts = 0
        BY <1>2, <2>3 DEF UserPost
      <3> QED BY <1>3, <2>1, <2>3, <3>1, UserPostInv, Zenon
    <2> QED BY <1>3, <1>5, <2>1, <2>2, <2>3, ProgressInv, UserTestInv, Zenon
  <1> QED BY <1>4, <1>5 DEF Next

\* The invariant of the first post of a request, whatever its tasks end with.
THEOREM FirstPost ==
    ASSUME OneGraphs
    PROVE  Spec => []FirstInv
  <1>1. Init => FirstInv
    BY InitInv
  <1>2. FirstInv /\ [Next]_vars => FirstInv'
    BY NextInv
  <1> QED BY <1>1, <1>2, PTL DEF Spec

\* Until a request is posted a second time its fields have their types, and the
\* threads are in no other functions than those of a schedule.
THEOREM TypeCorrect ==
    ASSUME OneGraphs
    PROVE  Spec => [](n_posts <= 1 => TypeOK)
  <1>1. FirstInv => (n_posts <= 1 => TypeOK)
    <2> SUFFICES ASSUME Inv PROVE TypeOK
      BY DEF FirstInv
    <2>1. Types /\ IsGraph(Graph, Tasks)
      BY GraphFacts, Zenon DEF Inv
    <2>2. \A x \in Tasks : {n_deps[x], n_satisfied[x], n_completed[x], n_runs[x]}
                             \subseteq Nat
      BY <2>1 DEF Types, IsGraph
    <2>3. ASSUME NEW t \in Threads, NEW i \in 1 .. Len(stack[t])
          PROVE  stack[t][i].fn \in Functions /\ stack[t][i].task \in Tasks
      <3>1. stack[t][i] \in FrameType
        BY <2>1, <2>3 DEF Types
      <3> QED BY <3>1 DEF FrameType
    <2> QED BY <2>1, <2>2, <2>3, Zenon DEF TypeOK, Types, Results
  <1> QED BY <1>1, FirstPost, PTL

\* One post of a request posts no task twice, for any number of threads and
\* tasks, whatever tasks succeed or fail: ucc_dependency_handler posts at the
\* last dependency only, ucc_task_start_handler at one event only.
THEOREM TasksPostedOnce ==
    ASSUME OneGraphs
    PROVE  Spec => [](n_posts <= 1 => PostedOnce)
  <1>1. FirstInv => (n_posts <= 1 => PostedOnce)
    <2> SUFFICES ASSUME Inv PROVE PostedOnce
      BY DEF FirstInv
    <2>1. n_runs[Root] \in {0, 1}
      BY ScheduleAssumption, Zenon DEF Inv, Runs
    <2>2. ASSUME NEW x \in Tasks, Graph.schedule[x] # NULL
          PROVE  n_runs[x] <= n_runs[Graph.schedule[x]]
      <3>1. Graph.schedule[x] = Root /\ x # Root
        BY <2>2, GraphFacts, Zenon DEF Inv, OneSchedule
      <3>2. n_runs[x] \in {0, 1} /\ (n_runs[x] = 1 => n_runs[Root] = 1)
        BY <3>1, Zenon DEF Inv, Runs
      <3> QED BY <2>1, <3>1, <3>2
    <2> QED BY <2>1, <2>2 DEF PostedOnce
  <1> QED BY <1>1, FirstPost, PTL

\* A task is posted only after the tasks it waits for have completed, and with
\* success: the order the init functions subscribe for is that of execution.
THEOREM TasksInOrder ==
    ASSUME OneGraphs, EventGraphs
    PROVE  Spec => [](n_posts <= 1 => DependenciesFirst)
  <1>1. FirstInv => (n_posts <= 1 => DependenciesFirst)
    <2> SUFFICES ASSUME Inv, NEW x \in Tasks, NEW i \in 1 .. Len(Listeners(x)),
                        Listeners(x)[i].event = "COMPLETED",
                        n_runs[Listeners(x)[i].task] = 1
                 PROVE  n_runs[x] = 1 /\ status[x] = "OK"
      BY DEF FirstInv, DependenciesFirst
    <2>1. Listeners(x)[i].handler = "start"
      <3>1. req \in Requests
        BY DEF Inv, Types
      <3> QED BY <3>1, Zenon DEF EventGraphs, Listeners, Graph
    <2>2. Past(x)
      BY <2>1 DEF Inv, StartedByEvent, Started
    <2> QED BY <2>2 DEF Past
  <1> QED BY <1>1, FirstPost, PTL

-----------------------------------------------------------------------------
(* Completion, and what the user sees                                      *)

LEMMA Cardinalities == CardinalityFacts
  <1> SUFFICES ASSUME NEW S, IsFiniteSet(S)
               PROVE  /\ Cardinality(S) \in Nat
                      /\ \A T \in SUBSET S :
                            /\ IsFiniteSet(T)
                            /\ Cardinality(T) \in Nat
                            /\ Cardinality(T) <= Cardinality(S)
                            /\ Cardinality(T) = Cardinality(S) => T = S
                      /\ \A x : x \notin S =>
                            Cardinality(S \cup {x}) = Cardinality(S) + 1
    BY Zenon DEF CardinalityFacts
  <1>1. Cardinality(S) \in Nat
    BY FS_CardinalityType
  <1>2. ASSUME NEW T \in SUBSET S
        PROVE  /\ IsFiniteSet(T)
               /\ Cardinality(T) \in Nat
               /\ Cardinality(T) <= Cardinality(S)
               /\ Cardinality(T) = Cardinality(S) => T = S
    BY FS_Subset, FS_CardinalityType
  <1>3. ASSUME NEW x, x \notin S
        PROVE  Cardinality(S \cup {x}) = Cardinality(S) + 1
    BY <1>3, FS_AddElement
  <1> QED BY <1>1, <1>2, <1>3

\* The invariant of the completion count of a schedule.
THEOREM CountInvariance ==
    ASSUME OneGraphs
    PROVE  Spec => []CountInv
  <1>1. Init => CountInv
    BY Cardinalities, InitInv, InitCount
  <1>2. CountInv /\ [Next]_vars => CountInv'
    BY Cardinalities, NextInv, NextCount DEF CountInv
  <1> QED BY <1>1, <1>2, PTL DEF Spec

\* ucc_schedule_completed_handler completes a schedule only when each of its
\* tasks was posted, has left the progress queue and has ended with success, or
\* with the status of stopping its executor, whatever threads complete them.
THEOREM CompleteAfterTasks ==
    ASSUME OneGraphs
    PROVE  Spec => [](n_posts <= 1 /\ IsSchedule(Root) /\ status[Root] = "OK" =>
                        \A x \in Parts : n_runs[x] = 1 /\ x \notin queued /\ Ended(x))
  <1>1. CountInv =>
          (n_posts <= 1 /\ IsSchedule(Root) /\ status[Root] = "OK" =>
             \A x \in Parts : n_runs[x] = 1 /\ x \notin queued /\ Ended(x))
    BY DEF CountInv, Counting, Done, CountedParts, Counted
  <1> QED BY <1>1, CountInvariance, PTL

\* n_completed_tasks never passes the number of tasks of the schedule, so that
\* the test for the last task cannot be true twice.
THEOREM CountBounded ==
    ASSUME OneGraphs
    PROVE  Spec => [](n_posts <= 1 => n_completed[Root] <= Len(Graph.tasks[Root]))
  <1>1. CountInv => (n_posts <= 1 => n_completed[Root] <= Len(Graph.tasks[Root]))
    <2> SUFFICES ASSUME Inv, Counting
                 PROVE  n_completed[Root] <= Len(Graph.tasks[Root])
      BY DEF CountInv, FirstInv
    <2>1. CountedParts \subseteq Parts /\ IsFiniteSet(Parts)
      BY PartsFacts DEF CountedParts
    <2>2. /\ Cardinality(CountedParts) \in Nat /\ Cardinality(Parts) \in Nat
          /\ Cardinality(CountedParts) <= Cardinality(Parts)
      BY <2>1, Cardinalities, FiniteSubset
    <2>3. n_completed[Root] \in Nat /\ n_completed[Root] <= Cardinality(CountedParts)
      BY PartsFacts DEF Counting, Count
    <2> QED BY <2>2, <2>3, PartsFacts
  <1> QED BY <1>1, CountInvariance, PTL

\* The invariant of the first post of a request none of whose tasks fails.
THEOREM SmoothInvariance ==
    ASSUME Succeeding, OneGraphs
    PROVE  Spec => []SmoothInv
  <1>1. Init /\ CountInv => SmoothInv
    BY InitSmooth
  <1>2. SmoothInv /\ CountInv' /\ [Next]_vars => SmoothInv'
    BY Cardinalities, NextSmooth
  <1> QED BY <1>1, <1>2, CountInvariance, PTL DEF Spec

\* When the user has seen the request complete, nothing of it is still to do: the
\* queue is empty, and the schedule and each of its tasks were posted and have
\* succeeded (ucc_task_complete, ucc_schedule_completed_handler).
SeenDone ==
    n_posts = 1 /\ user \in {"idle", "finalized"} =>
        /\ queued = {}
        /\ \A x \in Parts \cup {Root} : n_runs[x] = 1 /\ status[x] = "OK"

\* Whatever threads end the tasks and in whatever order, ucc_collective_test
\* reports a request as complete only when all of its work is over.
THEOREM SeenComplete ==
    ASSUME Succeeding, OneGraphs
    PROVE  Spec => []SeenDone
  <1>1. SmoothInv => SeenDone
    <2> SUFFICES ASSUME Inv, Counting, Smooth, n_posts = 1,
                        user \in {"idle", "finalized"}
                 PROVE  /\ queued = {}
                        /\ \A x \in Parts \cup {Root} :
                              n_runs[x] = 1 /\ status[x] = "OK"
      BY DEF SmoothInv, CountInv, FirstInv, SeenDone
    <2>1. ustatus[Root] = "OK"
      BY DEF Smooth, UserOK
    <2>2. n_runs[Root] = 1 /\ status[Root] = "OK"
      BY <2>1 DEF Smooth, Seen
    <2>3. queued = {} /\ \A x \in Parts : n_runs[x] = 1 /\ x \notin queued
      BY <2>1, NothingQueued
    <2>4. \A x \in Parts : status[x] = "OK"
      BY <2>3, PartsFacts DEF Smooth, SmoothEnds
    <2> QED BY <2>2, <2>3, <2>4
  <1> QED BY <1>1, SmoothInvariance, PTL

\* What the user sees of a request that is posted once and whose tasks succeed
\* is the life of a request: it is complete only when each task has ended, and
\* each ends once, in whatever order threads and handlers complete them.
THEOREM Refinement ==
    ASSUME Succeeding, OneGraphs, MaxPosts = 1
    PROVE  Spec => RequestSpec
  <1>1. Init => Request!Init
    BY DEF Init, Request!Init, Phase, Todo
  <1> DEFINE OnePost == n_posts \in {0, 1}
  <1>2. Init => OnePost
    BY DEF Init
  <1>3. OnePost /\ [Next]_vars => OnePost'
    BY PostsGrow
  <1>4. SmoothInv /\ SmoothInv' /\ OnePost' /\ [Next]_vars
          => [Request!Next]_<<Leaves, Phase, Todo>>
    BY NextRefines
  <1> HIDE DEF OnePost
  <1> QED BY <1>1, <1>2, <1>3, <1>4, SmoothInvariance, PTL
          DEF Spec, RequestSpec, Request!Spec
=============================================================================
