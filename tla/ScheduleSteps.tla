---------------------------- MODULE ScheduleSteps ----------------------------
(***************************************************************************)
(* The first post of a request whose graph is one schedule, for any number *)
(* of threads and tasks: the steps that change the state of tasks keep the *)
(* invariant.                                                              *)
(***************************************************************************)
EXTENDS ScheduleInvariant

LEMMA JumpCases ==
    ASSUME Inv, NEW t \in Threads, stack[t] # << >>, NEW g, Jumped(t, g),
           NEW u \in Threads, NEW d \in 1 .. H(u)'
    PROVE  \/ Other(t, u, d) /\ At(u, d)' = At(u, d)
           \/ u = t /\ d = H(t) /\ At(u, d)' = g
  <1>1. H(t) \in Nat \ {0}
    BY TopFrame DEF Inv
  <1>2. CASE u = t /\ d = H(t)
    BY <1>2 DEF Jumped
  <1>3. CASE ~(u = t /\ d = H(t))
    BY <1>1, <1>3 DEF Jumped, Kept, Other
  <1> QED BY <1>2, <1>3

LEMMA ReturnCases ==
    ASSUME Inv, NEW t \in Threads, stack[t] # << >>, Returned(t),
           NEW u \in Threads, NEW d \in 1 .. H(u)'
    PROVE  Other(t, u, d) /\ At(u, d)' = At(u, d)
  <1>1. H(t) \in Nat \ {0}
    BY TopFrame DEF Inv
  <1> QED BY <1>1 DEF Returned, Kept, Other

LEMMA CallCases ==
    ASSUME Inv, NEW t \in Threads, stack[t] # << >>, NEW f, NEW g, Called(t, f, g),
           NEW u \in Threads, NEW d \in 1 .. H(u)'
    PROVE  \/ Other(t, u, d) /\ At(u, d)' = At(u, d)
           \/ u = t /\ d = H(t) /\ At(u, d)' = f
           \/ u = t /\ d = H(t) + 1 /\ At(u, d)' = g
  <1>1. H(t) \in Nat \ {0} /\ H(t)' = H(t) + 1
    BY TopFrame DEF Inv, Called
  <1>2. CASE u = t /\ d = H(t)
    BY <1>1, <1>2 DEF Called
  <1>3. CASE u = t /\ d = H(t) + 1
    BY <1>1, <1>3 DEF Called
  <1>4. CASE ~(u = t /\ d \in {H(t), H(t) + 1})
    BY <1>1, <1>4 DEF Called, Kept, Other
  <1> QED BY <1>2, <1>3, <1>4, Zenon

\* No task that the event starts was started yet.
NoneStarted(p, event) ==
    \A k \in 1 .. Len(Listeners(p)) :
        Listeners(p)[k].handler = "start" /\ Listeners(p)[k].event = event
            => ~Started(Listeners(p)[k].task)

LEMMA ByEventKept ==
    ASSUME OneGraphs, Inv, req' = req,
           \A x \in Tasks : Started(x)' => Started(x),
           \A x \in Tasks : x # Root /\ Past(x) => Past(x)',
           \A u \in Threads : \A d \in 1 .. H(u)' :
              At(u, d)'.fn = "notify"
              /\ At(u, d)'.arg \in {"COMPLETED", "SCHEDULE_STARTED"}
                  => \/ d \in 1 .. H(u) /\ At(u, d)' = At(u, d)
                     \/ NoneStarted(At(u, d)'.task, At(u, d)'.arg)
    PROVE  StartedByEvent'
  <1> SUFFICES ASSUME NEW p \in Tasks, NEW k \in 1 .. Len(Listeners(p)),
                      Listeners(p)[k].handler = "start",
                      Started(Listeners(p)[k].task)'
               PROVE  /\ Listeners(p)[k].event = "COMPLETED" => Past(p)'
                      /\ \A t \in Threads : \A d \in 1 .. H(t)' :
                            /\ InFrame(t, d, "notify", p)'
                            /\ At(t, d)'.arg = Listeners(p)[k].event
                            => At(t, d)'.at > k
    BY Zenon DEF StartedByEvent, Listeners, Graph
  <1>1. Started(Listeners(p)[k].task)
    <2>1. Listeners(p)[k].task \in Tasks
      BY ListenerFacts, Zenon DEF Inv, Listener
    <2> QED BY <2>1, Zenon DEF Listeners, Graph
  <1>3. Listeners(p)[k].event \in {"COMPLETED", "SCHEDULE_STARTED"}
    BY ListenerFacts, Zenon DEF Inv, IsListener
  <1>2. Listeners(p)[k].event = "COMPLETED" => Past(p)'
    <2> SUFFICES ASSUME Listeners(p)[k].event = "COMPLETED" PROVE Past(p)'
      OBVIOUS
    <2>1. Graph.schedule[p] = Root
      BY ListenerFacts, Zenon DEF Inv, IsListener
    <2>2. p # Root
      BY <2>1, GraphFacts, ScheduleAssumption, Zenon DEF OneSchedule, Inv
    <2> QED BY <1>1, <2>2, Zenon DEF Inv, StartedByEvent
  <1>4. ASSUME NEW t \in Threads, NEW d \in 1 .. H(t)',
               InFrame(t, d, "notify", p)',
               At(t, d)'.arg = Listeners(p)[k].event
        PROVE  At(t, d)'.at > k
    <2>1. d \in 1 .. H(t) /\ At(t, d)' = At(t, d)
      <3>1. ~NoneStarted(p, Listeners(p)[k].event)
        BY <1>1, Zenon DEF NoneStarted
      <3>2. At(t, d)'.fn = "notify" /\ At(t, d)'.task = p
        BY <1>4 DEF InFrame
      <3> QED BY <1>3, <1>4, <3>1, <3>2, Zenon
    <2> QED BY <1>1, <1>4, <2>1, Zenon DEF Inv, StartedByEvent, InFrame
  <1> QED BY <1>2, <1>4, Zenon

LEMMA ByDepsKept ==
    ASSUME Inv, UNCHANGED <<req, n_deps, n_satisfied>>,
           \A x \in Tasks : Started(x)' => Started(x),
           \A u \in Threads : \A d \in 1 .. H(u)' :
              At(u, d)'.fn = "dependency" /\ At(u, d)'.at = 2
                  => d \in 1 .. H(u) /\ At(u, d)' = At(u, d)
    PROVE  StartedByDeps'
  <1> SUFFICES ASSUME NEW y \in Tasks, DepTask(y)', Started(y)'
               PROVE  /\ n_satisfied[y] >= n_deps[y]
                      /\ \A u \in Threads : \A d \in 1 .. H(u)' :
                            InFrame(u, d, "dependency", y)' /\ At(u, d)'.at = 2
                            => At(u, d)'.n[1] + 1 # n_deps[y]
    BY DEF StartedByDeps
  <1>1. DepTask(y) /\ Started(y)
    BY Zenon DEF DepTask, Graph, Listeners
  <1>2. ASSUME NEW u \in Threads, NEW d \in 1 .. H(u)',
               InFrame(u, d, "dependency", y)', At(u, d)'.at = 2
        PROVE  At(u, d)'.n[1] + 1 # n_deps[y]
    <2>1. d \in 1 .. H(u) /\ At(u, d)' = At(u, d)
      BY <1>2 DEF InFrame
    <2> QED BY <1>1, <1>2, <2>1 DEF Inv, StartedByDeps, InFrame
  <1> QED BY <1>1, <1>2, Zenon DEF Inv, StartedByDeps

\* Frames of which there may be one are those there were and one new one.
Alike(f, h) ==
    \/ h = f
    \/ h.fn # "dependency" /\ h.fn = f.fn /\ h.task = f.task /\ h.arg = f.arg

LEMMA UniqueKept ==
    ASSUME Inv, NEW t \in Threads, NEW g,
           \A u \in Threads : \A d \in 1 .. H(u)' :
              \/ d \in 1 .. H(u) /\ Alike(At(u, d), At(u, d)')
              \/ ~Same(At(u, d)', At(u, d)')
              \/ u = t /\ d = H(t)' /\ At(u, d)' = g,
           \A u \in Threads : \A d \in 1 .. H(u) : ~Same(At(u, d), g)
    PROVE  Unique'
  <1> SUFFICES ASSUME NEW v \in Threads, NEW u \in Threads,
                      NEW d \in 1 .. H(v)', NEW e \in 1 .. H(u)',
                      Same(At(v, d)', At(u, e)')
               PROVE  v = u /\ d = e
    BY Zenon DEF Unique, Same
  <1>1. Same(At(v, d)', At(v, d)') /\ Same(At(u, e)', At(u, e)')
    BY Zenon DEF Same
  <1>2. Same(At(u, e)', At(v, d)')
    BY Zenon DEF Same
  <1>3. CASE /\ d \in 1 .. H(v) /\ Alike(At(v, d), At(v, d)')
             /\ e \in 1 .. H(u) /\ Alike(At(u, e), At(u, e)')
    <2>1. Same(At(v, d), At(u, e))
      BY <1>3, Zenon DEF Same, Alike
    <2> QED BY <1>3, <2>1, Zenon DEF Inv, Unique
  <1>4. CASE /\ d \in 1 .. H(v) /\ Alike(At(v, d), At(v, d)')
             /\ At(u, e)' = g
    <2>1. Same(At(v, d), g)
      BY <1>4, Zenon DEF Same, Alike
    <2> QED BY <1>4, <2>1
  <1>5. CASE /\ e \in 1 .. H(u) /\ Alike(At(u, e), At(u, e)')
             /\ At(v, d)' = g
    <2>1. Same(At(u, e), g)
      BY <1>2, <1>5, Zenon DEF Same, Alike
    <2> QED BY <1>5, <2>1
  <1> QED BY <1>1, <1>3, <1>4, <1>5

LEMMA DependencyAddInv ==
    ASSUME OneGraphs, Inv, NEW t \in Threads, DependencyAdd(t)
    PROVE  Inv'
  <1>1. PICK f, x : f = Top(t) /\ x = f.task
    OBVIOUS
  <1>2. PICK g : g = [f EXCEPT !.at = 2, !.n = <<n_satisfied[x]>>]
    OBVIOUS
  <1>3. /\ stack[t] # << >> /\ n_posts # 0 /\ f \in FrameType /\ x \in Tasks
        /\ f.fn = "dependency" /\ f.at = 1 /\ FrameOK(f)
        /\ f = At(t, H(t)) /\ H(t) \in Nat \ {0}
    BY <1>1, TopOK DEF FrameType, DependencyAdd
  <1>4. /\ n_satisfied' = [n_satisfied EXCEPT ![x] = @ + 1]
        /\ Jump(t, g)
        /\ UNCHANGED <<status, ustatus, n_deps, n_completed, queued, n_runs,
                       uservars>>
    BY <1>1, <1>2 DEF DependencyAdd
  <1>5. /\ n_satisfied[x] \in Nat /\ n_satisfied'[x] = n_satisfied[x] + 1
        /\ \A y \in Tasks : y # x => n_satisfied'[y] = n_satisfied[y]
        /\ n_satisfied' \in [Tasks -> Nat]
    BY <1>3, <1>4 DEF Inv, Types
  <1>6. /\ g \in FrameType /\ g.fn = "dependency" /\ g.task = x /\ g.at = 2
        /\ Len(g.n) = 1 /\ g.n[1] = n_satisfied[x]
    BY <1>1, <1>2, <1>3, <1>5, CountInType, Zenon
  <1>7. Jumped(t, g)
    BY <1>3, <1>4, <1>6, JumpFrames, Zenon DEF Inv
  <1>8. Types'
    BY <1>4, <1>5, <1>7, Zenon DEF Inv, Types, Jumped, Kept, uservars, Graph
  <1>9. ASSUME NEW y, Posting(y)'
        PROVE  Posting(y)
    BY <1>3, <1>6, <1>7, <1>9, JumpCases DEF Posting, InFrame, Other
  <1>10. ASSUME NEW y, NEW k, Completing(y, k)'
         PROVE  Completing(y, k)
    BY <1>3, <1>6, <1>7, <1>10, JumpCases DEF Completing, InFrame, Other
  <1>11. /\ \A y : Started(y)' => Started(y)
         /\ \A y : Past(y) => Past(y)'
         /\ \A y : DepTask(y)' <=> DepTask(y)
    BY <1>4, <1>9, <1>10
       DEF Started, Past, DepTask, Graph, Listeners, uservars
  <1>12. ASSUME NEW h \in FrameType, FrameOK(h)
         PROVE  FrameOK(h)'
    <2>1. h.fn = "dependency" /\ h.at = 2 => h.n[1] < n_satisfied'[h.task]
      <3> SUFFICES ASSUME h.fn = "dependency", h.at = 2
                   PROVE  h.n[1] < n_satisfied'[h.task]
        OBVIOUS
      <3>1. /\ h.n[1] < n_satisfied[h.task] /\ h.task \in Tasks
            /\ Len(h.n) = 1 /\ h.n \in Seq(Nat)
        BY <1>12, Zenon DEF FrameOK, FrameType, Counts
      <3>2. h.n[1] \in Nat /\ n_satisfied[h.task] \in Nat
        BY <3>1 DEF Inv, Types
      <3> QED BY <1>5, <3>1, <3>2
    <2> QED BY <1>4, <1>11, <1>12, <2>1, Zenon DEF FrameOK, Graph, uservars
  <1>13. FramesOK'
    <2> SUFFICES ASSUME NEW u \in Threads, NEW d \in 1 .. H(u)'
                 PROVE  FrameOK(At(u, d))'
      BY DEF FramesOK
    <2>1. CASE Other(t, u, d) /\ At(u, d)' = At(u, d)
      <3>1. FrameOK(At(u, d)) /\ At(u, d) \in FrameType
        BY <2>1, FramesType DEF Inv, FramesOK, Other
      <3> QED BY <2>1, <3>1, <1>12
    <2>2. CASE At(u, d)' = g
      <3>1. FrameOK(g)'
        BY <1>1, <1>3, <1>4, <1>5, <1>6, <1>11 DEF FrameOK
      <3> QED BY <2>2, <3>1
    <2> QED BY <1>3, <1>7, <2>1, <2>2, JumpCases
  <1>14. Unique'
    <2>1. ASSUME NEW w \in Threads, NEW c \in 1 .. H(w), Same(At(w, c), g)
          PROVE  FALSE
      <3>1. FrameOK(At(w, c)) /\ At(w, c) \in FrameType
        BY <2>1, FramesType DEF Inv, FramesOK
      <3>2. At(w, c).n[1] < n_satisfied[x] /\ At(w, c).n[1] = n_satisfied[x]
        BY <1>6, <2>1, <3>1, Zenon DEF Same, FrameOK
      <3> QED BY <1>5, <3>2
    <2>2. ASSUME NEW u \in Threads, NEW d \in 1 .. H(u)'
          PROVE  \/ d \in 1 .. H(u) /\ Alike(At(u, d), At(u, d)')
                 \/ u = t /\ d = H(t)' /\ At(u, d)' = g
      BY <1>3, <1>7, JumpCases DEF Other, Alike, Jumped
    <2> QED BY <2>1, <2>2, UniqueKept
  <1>15. Queue' /\ Runs'
    BY <1>4, Zenon
       DEF Inv, Queue, Runs, IsLeaf, IsSchedule, IsPipelined, Graph, uservars
  <1>16. ASSUME NEW u \in Threads, NEW d \in 1 .. H(u)', At(u, d)'.fn = "notify"
         PROVE  d \in 1 .. H(u) /\ At(u, d)' = At(u, d)
    BY <1>3, <1>6, <1>7, <1>16, JumpCases DEF Other
  <1>17. StartedByEvent'
    BY <1>4, <1>11, <1>16, ByEventKept, Zenon DEF uservars
  <1>18. StartedByDeps'
    <2> SUFFICES ASSUME NEW y \in Tasks, DepTask(y)', Started(y)'
                 PROVE  /\ n_satisfied'[y] >= n_deps'[y]
                        /\ \A u \in Threads : \A d \in 1 .. H(u)' :
                              InFrame(u, d, "dependency", y)' /\ At(u, d)'.at = 2
                              => At(u, d)'.n[1] + 1 # n_deps'[y]
      BY DEF StartedByDeps
    <2>1. DepTask(y) /\ Started(y)
      BY <1>11
    <2>2. n_satisfied[y] >= n_deps[y] /\ n_deps[y] \in Nat /\ n_deps' = n_deps
      <3>1. n_satisfied[y] >= n_deps[y]
        BY <2>1, Zenon DEF Inv, StartedByDeps
      <3>2. n_deps[y] \in Nat
        BY GraphFacts, Zenon DEF Inv, Types, IsGraph
      <3> QED BY <1>4, <3>1, <3>2
    <2>3. n_satisfied'[y] >= n_deps[y]
      <3>1. n_satisfied[y] \in Nat
        BY DEF Inv, Types
      <3>2. CASE y = x
        BY <1>5, <2>2, <3>2
      <3>3. CASE y # x
        BY <1>5, <2>2, <3>3
      <3> QED BY <3>2, <3>3
    <2>4. ASSUME NEW u \in Threads, NEW d \in 1 .. H(u)',
                 InFrame(u, d, "dependency", y)', At(u, d)'.at = 2
          PROVE  At(u, d)'.n[1] + 1 # n_deps[y]
      <3>1. CASE Other(t, u, d) /\ At(u, d)' = At(u, d)
        BY <2>1, <2>4, <3>1 DEF Inv, StartedByDeps, InFrame, Other
      <3>2. CASE At(u, d)' = g
        BY <1>5, <1>6, <2>2, <2>4, <3>2 DEF InFrame
      <3> QED BY <1>3, <1>7, <3>1, <3>2, JumpCases
    <2> QED BY <2>2, <2>3, <2>4
  <1>19. Fresh'
    BY <1>3, <1>4 DEF Fresh, uservars
  <1> QED BY <1>8, <1>13, <1>14, <1>15, <1>17, <1>18, <1>19 DEF Inv

\* The first part of ucc_task_complete: from here on the task counts as ended.
LEMMA CompleteNotifyInv ==
    ASSUME OneGraphs, Inv, NEW t \in Threads, CompleteNotify(t)
    PROVE  Inv'
  <1>1. PICK f, x : f = Top(t) /\ x = f.task
    OBVIOUS
  <1>2. PICK h, g : /\ h = [f EXCEPT !.at = 2, !.local = status[x]]
                    /\ g = NotifyFrame(x, CompletionEvent(status[x]))
    OBVIOUS
  <1>3. /\ stack[t] # << >> /\ n_posts # 0 /\ f \in FrameType /\ x \in Tasks
        /\ f.fn = "complete" /\ f.at = 1 /\ FrameOK(f)
        /\ f = At(t, H(t)) /\ H(t) \in Nat \ {0}
    BY <1>1, TopOK DEF FrameType, CompleteNotify
  <1>4. Call(t, h, g) /\ UNCHANGED <<taskvars, queued, n_runs, uservars>>
    BY <1>1, <1>2 DEF CompleteNotify
  <1>5. /\ n_runs[x] = 1 /\ x \notin queued /\ status[x] \in Results
        /\ status[x] \in Status
    BY <1>1, <1>3, ResultStatus, Zenon DEF FrameOK
  <1>6. /\ h \in FrameType /\ h.fn = "complete" /\ h.task = x /\ h.arg = f.arg
        /\ h.at = 2 /\ h.local = status[x]
    BY <1>1, <1>2, <1>3, <1>5, LocalInType, Zenon
  <1>7. /\ g \in FrameType /\ g.fn = "notify" /\ g.task = x /\ g.at = 1
        /\ g.arg = CompletionEvent(status[x])
        /\ g.arg \in {"COMPLETED", "ERROR"}
        /\ g.arg = "COMPLETED" => status[x] = "OK"
    <2>1. CompletionEvent(status[x]) \in {"COMPLETED", "ERROR"}
      BY DEF CompletionEvent
    <2>2. g \in FrameType
      BY <1>2, <1>3, <2>1, FrameInType DEF NotifyFrame, Functions, Events
    <2> QED BY <1>2, <2>1, <2>2 DEF NotifyFrame, Frame, CompletionEvent
  <1>8. Called(t, h, g)
    BY <1>3, <1>4, <1>6, <1>7, CallFrames, Zenon DEF Inv
  <1>9. Types' /\ Stable /\ n_posts' = n_posts
    BY <1>4, <1>8, KeptTypes DEF Called
  <1>10. ASSUME NEW u \in Threads, NEW d \in 1 .. H(u)'
         PROVE  \/ Other(t, u, d) /\ At(u, d)' = At(u, d)
                \/ u = t /\ d = H(t) /\ At(u, d)' = h
                \/ u = t /\ d = H(t)' /\ At(u, d)' = g
    BY <1>3, <1>8, CallCases DEF Called
  <1>11. ASSUME NEW y, Posting(y)'
         PROVE  Posting(y)
    BY <1>6, <1>7, <1>10, <1>11 DEF Posting, InFrame, Other
  <1>12. Completing(x, 1)
    <2>1. H(t) \in 1 .. H(t) /\ InFrame(t, H(t), "complete", x) /\ At(t, H(t)).at = 1
      BY <1>1, <1>3 DEF InFrame
    <2> QED BY <2>1 DEF Completing
  <1>13. ASSUME NEW y, Completing(y, 1)'
         PROVE  Completing(y, 1) /\ (y = Root \/ y # x)
    <2>5. PICK u \in Threads : \E d \in 1 .. H(u)' :
             InFrame(u, d, "complete", y)' /\ At(u, d)'.at = 1
      BY <1>13 DEF Completing
    <2>1. PICK d \in 1 .. H(u)' :
             InFrame(u, d, "complete", y)' /\ At(u, d)'.at = 1
      BY <2>5
    <2>2. Other(t, u, d) /\ At(u, d)' = At(u, d)
      BY <1>6, <1>7, <1>10, <2>1 DEF InFrame
    <2>3. Completing(y, 1)
      BY <2>1, <2>2 DEF Completing, InFrame, Other
    <2>4. ASSUME y = x, y # Root
          PROVE  FALSE
      <3>2. At(u, d).fn = "complete" /\ At(u, d).task = x
        BY <2>1, <2>2, <2>4 DEF InFrame
      <3>3. At(t, H(t)).fn = "complete" /\ At(t, H(t)).task = x
        BY <1>1, <1>3
      <3>1. Same(At(u, d), At(t, H(t)))
        BY <2>4, <3>2, <3>3, Zenon DEF Same
      <3> QED BY <1>3, <2>2, <3>1 DEF Inv, Unique, Other
    <2> QED BY <2>3, <2>4
  <1>14. /\ \A y : Started(y)' => Started(y)
         /\ \A y : Past(y) => Past(y)'
         /\ status[x] = "OK" /\ x # Root => Past(x)'
         /\ \A y : DepTask(y)' <=> DepTask(y)
    BY <1>5, <1>9, <1>11, <1>13
       DEF Started, Past, DepTask, Graph, Listeners, Stable
  <1>15. ASSUME NEW k, FrameOK(k)
         PROVE  FrameOK(k)'
    BY <1>9, <1>14, <1>15 DEF FrameOK, Stable, Graph
  <1>16. FrameOK(h)' /\ FrameOK(g)'
    BY <1>5, <1>6, <1>7, <1>9, <1>14 DEF FrameOK, Stable, Events
  <1>17. FramesOK'
    <2> SUFFICES ASSUME NEW u \in Threads, NEW d \in 1 .. H(u)'
                 PROVE  FrameOK(At(u, d))'
      BY DEF FramesOK
    <2>1. CASE Other(t, u, d) /\ At(u, d)' = At(u, d)
      <3>1. FrameOK(At(u, d))
        BY <2>1 DEF Inv, FramesOK, Other
      <3> QED BY <2>1, <3>1, <1>15
    <2> QED BY <1>10, <1>16, <2>1
  <1>18. Unique'
    <2>1. ASSUME NEW w \in Threads, NEW c \in 1 .. H(w), Same(At(w, c), g)
          PROVE  FALSE
      <3>1. FrameOK(At(w, c))
        BY DEF Inv, FramesOK
      <3>2. Past(x)
        BY <1>7, <2>1, <3>1, Zenon DEF Same, FrameOK
      <3> QED BY <1>12, <3>2 DEF Past
    <2>2. ASSUME NEW u \in Threads, NEW d \in 1 .. H(u)'
          PROVE  \/ d \in 1 .. H(u) /\ Alike(At(u, d), At(u, d)')
                 \/ u = t /\ d = H(t)' /\ At(u, d)' = g
      BY <1>1, <1>3, <1>6, <1>10 DEF Other, Alike
    <2> QED BY <2>1, <2>2, UniqueKept
  <1>19. Queue' /\ Runs'
    BY <1>9, Zenon
       DEF Inv, Queue, Runs, IsLeaf, IsSchedule, IsPipelined, Graph, Stable
  <1>20. NoneStarted(x, "COMPLETED")
    BY <1>3, <1>12, Zenon DEF NoneStarted, Inv, StartedByEvent, Past
  <1>21. StartedByEvent'
    <2>1. ASSUME NEW u \in Threads, NEW d \in 1 .. H(u)', At(u, d)'.fn = "notify",
                 At(u, d)'.arg \in {"COMPLETED", "SCHEDULE_STARTED"}
          PROVE  \/ d \in 1 .. H(u) /\ At(u, d)' = At(u, d)
                 \/ NoneStarted(At(u, d)'.task, At(u, d)'.arg)
      <3>1. CASE At(u, d)' = g
        <4>1. At(u, d)'.task = x /\ At(u, d)'.arg = "COMPLETED"
          BY <1>7, <2>1, <3>1
        <4> QED BY <1>20, <4>1
      <3> QED BY <1>6, <1>10, <2>1, <3>1, Zenon DEF Other
    <2> QED BY <1>9, <1>14, <2>1, ByEventKept, Zenon DEF Stable
  <1>22. StartedByDeps'
    <2>1. ASSUME NEW u \in Threads, NEW d \in 1 .. H(u)', At(u, d)'.fn = "dependency"
          PROVE  d \in 1 .. H(u) /\ At(u, d)' = At(u, d)
      BY <1>6, <1>7, <1>10, <2>1 DEF Other
    <2> QED BY <1>9, <1>14, <2>1, ByDepsKept DEF Stable
  <1> QED BY <1>3, <1>9, <1>17, <1>18, <1>19, <1>21, <1>22 DEF Inv, Fresh

\* What the post and the progress of a task that does the communication change:
\* its status, whether it is queued, and that it may be completed by thread t.
Ran(t, x) ==
    /\ UNCHANGED <<req, n_deps, n_satisfied, n_posts>>
    /\ n_runs'[x] = 1
    /\ \A y \in Tasks : y # x => /\ n_runs'[y] = n_runs[y]
                                 /\ status'[y] = status[y]
                                 /\ y \in queued' <=> y \in queued
    /\ \A u \in Threads : \A d \in 1 .. H(u)' :
          \/ /\ d \in 1 .. H(u) /\ At(u, d)' = At(u, d)
             /\ ~InFrame(u, d, "post", x)
          \/ /\ u = t /\ d = H(t)' /\ At(u, d)' = CompleteFrame(x)
             /\ status'[x] \in Results /\ x \notin queued'

LEMMA RanInv ==
    ASSUME OneGraphs, Inv, Types', n_posts # 0,
           NEW t \in Threads, NEW x \in Tasks, IsLeaf(x), Ran(t, x),
           Started(x), ~Past(x), ~Completing(x, 1), ~Completing(x, 2),
           x # Root => Graph.schedule[x] = Root /\ n_runs[Root] = 1
    PROVE  Inv'
  <1>15. PICK g : g = CompleteFrame(x)
    OBVIOUS
  <1>1. g = CompleteFrame(x) /\ g.fn = "complete" /\ g.task = x /\ g.at = 1
    BY <1>15 DEF CompleteFrame, Frame
  <1>2. ASSUME NEW u \in Threads, NEW d \in 1 .. H(u)'
        PROVE  \/ /\ d \in 1 .. H(u) /\ At(u, d)' = At(u, d)
                  /\ ~InFrame(u, d, "post", x)
               \/ /\ u = t /\ d = H(t)' /\ At(u, d)' = g
                  /\ status'[x] \in Results /\ x \notin queued'
    BY <1>1, Zenon DEF Ran
  <1>3. ASSUME NEW y, Posting(y)'
        PROVE  Posting(y)
    BY <1>1, <1>2, <1>3 DEF Posting, InFrame
  <1>4. ASSUME NEW y, NEW k, y # x, Completing(y, k)'
        PROVE  Completing(y, k)
    BY <1>1, <1>2, <1>4, Zenon DEF Completing, InFrame
  <1>5. /\ n_runs'[x] = 1 /\ req' = req /\ n_deps' = n_deps
        /\ n_satisfied' = n_satisfied /\ n_posts' = n_posts
        /\ \A y \in Tasks : y # x => /\ n_runs'[y] = n_runs[y]
                                     /\ status'[y] = status[y]
                                     /\ y \in queued' <=> y \in queued
        /\ Root \in Tasks
    BY ScheduleAssumption, Zenon DEF Ran
  <1>6. /\ \A y \in Tasks : Started(y)' => Started(y)
        /\ \A y \in Tasks : Past(y) => Past(y)'
        /\ \A y : DepTask(y)' <=> DepTask(y)
    <2>1. ASSUME NEW y \in Tasks, Started(y)'
          PROVE  Started(y)
      BY <1>3, <1>5, <2>1, Zenon DEF Started
    <2>2. ASSUME NEW y \in Tasks, Past(y)
          PROVE  Past(y)'
      BY <1>4, <1>5, <2>2 DEF Past
    <2>3. \A y : DepTask(y)' <=> DepTask(y)
      BY <1>5 DEF DepTask, Graph, Listeners
    <2> QED BY <2>1, <2>2, <2>3
  <1>7. ASSUME NEW h \in FrameType, FrameOK(h),
               ~(h.fn = "post" /\ h.task = x),
               ~(h.fn = "complete" /\ h.task = x)
        PROVE  FrameOK(h)'
    <2>1. h.task \in Tasks
      BY DEF FrameType
    <2>2. \A y \in Tasks : n_runs[y] = 1 => n_runs'[y] = 1
      BY <1>5
    <2> QED BY <1>5, <1>6, <1>7, <2>1, <2>2, Zenon DEF FrameOK, Graph
  <1>8. FramesOK'
    <2> SUFFICES ASSUME NEW u \in Threads, NEW d \in 1 .. H(u)'
                 PROVE  FrameOK(At(u, d))'
      BY DEF FramesOK
    <2>1. CASE /\ d \in 1 .. H(u) /\ At(u, d)' = At(u, d)
               /\ ~InFrame(u, d, "post", x)
      <3>1. FrameOK(At(u, d)) /\ At(u, d) \in FrameType
        BY <2>1, FramesType DEF Inv, FramesOK
      <3>2. ~(At(u, d).fn = "complete" /\ At(u, d).task = x)
        BY <2>1, <3>1, Zenon DEF Completing, InFrame, FrameOK
      <3> QED BY <2>1, <3>1, <3>2, <1>7 DEF InFrame
    <2>2. CASE At(u, d)' = g /\ status'[x] \in Results /\ x \notin queued'
      <3>1. FrameOK(g)'
        BY <1>1, <1>5, <2>2 DEF FrameOK
      <3> QED BY <2>2, <3>1, Zenon
    <2> QED BY <1>2, <2>1, <2>2, Zenon
  <1>9. Unique'
    <2>1. ASSUME NEW w \in Threads, NEW c \in 1 .. H(w), Same(At(w, c), g)
          PROVE  FALSE
      <3>1. FrameOK(At(w, c))
        BY DEF Inv, FramesOK
      <3>2. At(w, c).fn = "complete" /\ At(w, c).task = x
        BY <1>1, <2>1, Zenon DEF Same
      <3> QED BY <3>1, <3>2, Zenon DEF Completing, InFrame, FrameOK
    <2>2. ASSUME NEW u \in Threads, NEW d \in 1 .. H(u)'
          PROVE  \/ d \in 1 .. H(u) /\ Alike(At(u, d), At(u, d)')
                 \/ u = t /\ d = H(t)' /\ At(u, d)' = g
      BY <1>2, Zenon DEF Alike
    <2> QED BY <2>1, <2>2, UniqueKept, Zenon
  <1>10. Queue'
    <2>1. queued' \subseteq Tasks
      BY DEF Types
    <2>2. \A y : IsLeaf(y)' <=> IsLeaf(y)
      BY <1>5 DEF IsLeaf, IsSchedule, IsPipelined, Graph
    <2> QED BY <1>5, <2>1, <2>2, Zenon DEF Inv, Queue
  <1>11. Runs'
    BY <1>5, Zenon DEF Inv, Runs, Graph
  <1>12. ASSUME NEW u \in Threads, NEW d \in 1 .. H(u)',
                At(u, d)'.fn \in {"notify", "dependency"}
         PROVE  d \in 1 .. H(u) /\ At(u, d)' = At(u, d)
    BY <1>1, <1>2, <1>12
  <1>13. StartedByEvent'
    BY <1>5, <1>6, <1>12, ByEventKept, Zenon
  <1>14. StartedByDeps'
    BY <1>5, <1>6, <1>12, ByDepsKept, Zenon
  <1> QED BY <1>5, <1>8, <1>9, <1>10, <1>11, <1>13, <1>14, Zenon DEF Inv, Fresh

LEMMA CompleteInType ==
    ASSUME NEW x \in Tasks
    PROVE  CompleteFrame(x) \in FrameType
  BY FrameInType DEF CompleteFrame, Functions

\* The post of a task, through ucc_progress_queue_enqueue.
LEMMA PostTaskInv ==
    ASSUME OneGraphs, Inv, NEW t \in Threads, PostTask(t)
    PROVE  Inv'
  <1>1. PICK f, x : f = Top(t) /\ x = f.task
    OBVIOUS
  <1>2. /\ stack[t] # << >> /\ n_posts # 0 /\ f \in FrameType /\ x \in Tasks
        /\ f.fn = "post" /\ FrameOK(f) /\ IsLeaf(x)
        /\ f = At(t, H(t)) /\ H(t) \in Nat \ {0}
    BY <1>1, TopOK, Zenon DEF FrameType, PostTask
  <1>3. /\ n_runs' = [n_runs EXCEPT ![x] = @ + 1]
        /\ UNCHANGED <<n_deps, n_satisfied, n_completed, uservars>>
    BY <1>1, Zenon DEF PostTask
  <1>4. n_runs[x] = 0 /\ (x # Root => Graph.schedule[x] = Root /\ n_runs[Root] = 1)
    BY <1>1, <1>2, Zenon DEF FrameOK
  <1>5. /\ n_runs' \in [Tasks -> Nat] /\ n_runs'[x] = 1
        /\ \A y \in Tasks : y # x => n_runs'[y] = n_runs[y]
    BY <1>2, <1>3, <1>4 DEF Inv, Types
  <1>6. Started(x) /\ ~Past(x) /\ ~Completing(x, 1) /\ ~Completing(x, 2)
    <2>1. InFrame(t, H(t), "post", x) /\ H(t) \in 1 .. H(t)
      BY <1>1, <1>2 DEF InFrame
    <2>2. Started(x)
      BY <2>1 DEF Started, Posting
    <2>3. n_runs[x] # 1
      BY <1>4
    <2>4. ASSUME NEW u \in Threads, NEW d \in 1 .. H(u)
          PROVE  ~InFrame(u, d, "complete", x)
      <3>1. FrameOK(At(u, d))
        BY Zenon DEF Inv, FramesOK
      <3> QED BY <2>3, <3>1, Zenon DEF FrameOK, InFrame
    <2>5. ~Completing(x, 1) /\ ~Completing(x, 2)
      BY <2>4, Zenon DEF Completing
    <2> QED BY <2>2, <2>3, <2>5, Zenon DEF Past
  <1>7. ASSUME NEW u \in Threads, NEW d, Other(t, u, d)
        PROVE  ~InFrame(u, d, "post", x)
    <2> SUFFICES ASSUME InFrame(u, d, "post", x) PROVE FALSE
      OBVIOUS
    <2>1. Same(At(u, d), At(t, H(t)))
      BY <1>1, <1>2, Zenon DEF Same, InFrame
    <2> QED BY <1>2, <1>7, <2>1 DEF Inv, Unique, Other
  <1>8. CASE /\ Return(t, "ERR")
             /\ UNCHANGED <<status, ustatus, queued>>
    <2>1. Returned(t)
      BY <1>2, <1>8, ReturnFrames DEF Inv, Results, Failed
    <2>2. Types'
      BY <1>3, <1>5, <1>8, <2>1, Zenon
         DEF Inv, Types, Returned, Kept, uservars, Graph
    <2>3. Ran(t, x)
      BY <1>2, <1>3, <1>5, <1>7, <1>8, <2>1, ReturnCases
         DEF Ran, Other, uservars
    <2> QED BY <1>2, <1>4, <1>6, <2>2, <2>3, RanInv, Zenon
  <1>9. CASE /\ status' = [status EXCEPT ![x] = "INPROGRESS"]
             /\ ustatus' = [ustatus EXCEPT ![x] = "INPROGRESS"]
             /\ queued' = queued \cup {x}
             /\ Return(t, "OK")
    <2>1. Returned(t)
      BY <1>2, <1>9, ReturnFrames DEF Inv, Results, Failed
    <2>2. /\ status' \in [Tasks -> Status] /\ ustatus' \in [Tasks -> Status]
          /\ queued' \subseteq Tasks
          /\ \A y \in Tasks : y # x => /\ status'[y] = status[y]
                                       /\ y \in queued' <=> y \in queued
      BY <1>2, <1>9, Zenon DEF Inv, Types, Status
    <2>3. Types'
      BY <1>3, <1>5, <2>1, <2>2, Zenon
         DEF Inv, Types, Returned, Kept, uservars, Graph
    <2>4. ASSUME NEW u \in Threads, NEW d \in 1 .. H(u)'
          PROVE  /\ d \in 1 .. H(u) /\ At(u, d)' = At(u, d)
                 /\ ~InFrame(u, d, "post", x)
      BY <1>2, <1>7, <2>1, ReturnCases, Zenon DEF Other
    <2>5. Ran(t, x)
      BY <1>3, <1>5, <2>2, <2>4, Zenon DEF Ran, uservars
    <2> QED BY <1>2, <1>4, <1>6, <2>3, <2>5, RanInv, Zenon
  <1>10. CASE \E st \in Outcomes \ {"TIMED_OUT"} :
                /\ status' = [status EXCEPT ![x] = st]
                /\ Jump(t, CompleteFrame(x))
                /\ UNCHANGED <<ustatus, queued>>
    <2>1. PICK st \in Outcomes : /\ status' = [status EXCEPT ![x] = st]
                                 /\ Jump(t, CompleteFrame(x))
                                 /\ UNCHANGED <<ustatus, queued>>
      BY <1>10, Zenon
    <2>2. st \in Results
      BY GraphFacts DEF Inv
    <2>3. Jumped(t, CompleteFrame(x))
      BY <1>2, <2>1, CompleteInType, JumpFrames, Zenon DEF Inv
    <2>4. /\ status' \in [Tasks -> Status] /\ status'[x] \in Results
          /\ \A y \in Tasks : y # x => status'[y] = status[y]
      BY <1>2, <2>1, <2>2, ResultStatus, Zenon DEF Inv, Types
    <2>5. Types'
      BY <1>3, <1>5, <2>1, <2>3, <2>4, Zenon
         DEF Inv, Types, Jumped, Kept, uservars, Graph
    <2>6. x \notin queued
      BY <1>4 DEF Inv, Queue
    <2>7. ASSUME NEW u \in Threads, NEW d \in 1 .. H(u)'
          PROVE  \/ /\ d \in 1 .. H(u) /\ At(u, d)' = At(u, d)
                    /\ ~InFrame(u, d, "post", x)
                 \/ u = t /\ d = H(t)' /\ At(u, d)' = CompleteFrame(x)
      BY <1>2, <1>7, <2>3, JumpCases DEF Jumped, Other
    <2>8. Ran(t, x)
      BY <1>3, <1>5, <2>1, <2>4, <2>6, <2>7 DEF Ran, uservars
    <2> QED BY <1>2, <1>4, <1>6, <2>5, <2>8, RanInv, Zenon
  <1> QED BY <1>1, <1>8, <1>9, <1>10, Zenon DEF PostTask

\* The progress queue: a queued task ends.
LEMMA ProgressInv ==
    ASSUME OneGraphs, Inv, NEW t \in Threads, Progress(t)
    PROVE  Inv'
  <1>1. PICK x \in queued, st \in Outcomes :
           /\ queued' = queued \ {x}
           /\ status' = [status EXCEPT ![x] = st]
           /\ stack' = [stack EXCEPT ![t] = <<CompleteFrame(x)>>]
    BY Zenon DEF Progress
  <1>2. /\ UNCHANGED <<ustatus, n_deps, n_satisfied, n_completed, ret, n_runs,
                       uservars>>
        /\ stack[t] = << >>
    BY DEF Progress
  <1>3. x \in Tasks /\ n_runs[x] = 1 /\ IsLeaf(x) /\ n_posts # 0
    BY DEF Inv, Types, Queue, Fresh
  <1>4. /\ status' \in [Tasks -> Status] /\ status'[x] \in Results
        /\ \A y \in Tasks : y # x => status'[y] = status[y]
    BY <1>1, <1>3, GraphFacts, ResultStatus, Zenon DEF Inv, Types
  <1>5. stack' \in [Threads -> Seq(FrameType)]
    BY <1>1, <1>3, CompleteInType DEF Inv, Types
  <1>6. Types'
    BY <1>1, <1>2, <1>4, <1>5, Zenon DEF Inv, Types, uservars, Graph
  <1>7. ASSUME NEW u \in Threads, NEW d \in 1 .. H(u)'
        PROVE  \/ d \in 1 .. H(u) /\ At(u, d)' = At(u, d)
               \/ u = t /\ d = H(t)' /\ At(u, d)' = CompleteFrame(x)
    <2>1. CASE u # t
      <3>1. stack'[u] = stack[u]
        BY <1>1, <2>1 DEF Inv, Types
      <3> QED BY <3>1 DEF H, At
    <2>2. CASE u = t
      <3>1. stack'[t] = <<CompleteFrame(x)>>
        BY <1>1 DEF Inv, Types
      <3>2. H(t)' = 1 /\ At(t, 1)' = CompleteFrame(x)
        BY <3>1 DEF H, At
      <3> QED BY <2>2, <3>2
    <2> QED BY <2>1, <2>2
  <1>8. ASSUME NEW u \in Threads, NEW d \in 1 .. H(u)
        PROVE  ~InFrame(u, d, "post", x) /\ ~InFrame(u, d, "complete", x)
    <2>1. FrameOK(At(u, d))
      BY DEF Inv, FramesOK
    <2>2. n_runs[x] # 0
      BY <1>3
    <2> QED BY <2>1, <2>2, Zenon DEF FrameOK, InFrame
  <1>9. Ran(t, x)
    BY <1>1, <1>2, <1>3, <1>4, <1>7, <1>8 DEF Ran, uservars
  <1>10. Started(x) /\ ~Past(x) /\ ~Completing(x, 1) /\ ~Completing(x, 2)
    <2>1. n_runs[x] # 0
      BY <1>3
    <2> QED BY <1>8, <2>1, Zenon DEF Started, Past, Completing
  <1>11. x # Root => Graph.schedule[x] = Root /\ n_runs[Root] = 1
    BY <1>3 DEF Inv, Runs
  <1> QED BY <1>3, <1>6, <1>9, <1>10, <1>11, RanInv

\* ucc_schedule_start
LEMMA ScheduleStartInv ==
    ASSUME OneGraphs, Inv, NEW t \in Threads, ScheduleStart(t)
    PROVE  Inv'
  <1>1. PICK f, g : f = Top(t) /\ g = NotifyFrame(Root, "SCHEDULE_STARTED")
    OBVIOUS
  <1>2. /\ stack[t] # << >> /\ n_posts # 0 /\ f \in FrameType
        /\ f.fn = "post" /\ FrameOK(f) /\ f.task = Root /\ Root \in Tasks
        /\ f = At(t, H(t)) /\ H(t) \in Nat \ {0} /\ n_runs[Root] = 0
    <2>1. Running(t, "post") /\ IsSchedule(f.task)
      BY <1>1 DEF ScheduleStart
    <2>2. /\ stack[t] # << >> /\ n_posts # 0 /\ f \in FrameType
          /\ f.fn = "post" /\ FrameOK(f) /\ f = At(t, H(t)) /\ H(t) \in Nat \ {0}
      BY <1>1, <2>1, TopOK
    <2>3. f.task = Root /\ Root \in Tasks
      BY <2>1, <2>2, RootFacts DEF FrameType
    <2> QED BY <2>2, <2>3, Zenon DEF FrameOK
  <1>3. /\ n_completed' = [n_completed EXCEPT ![Root] = 0]
        /\ status' = [status EXCEPT ![Root] = "INPROGRESS"]
        /\ ustatus' = [ustatus EXCEPT ![Root] = "INPROGRESS"]
        /\ n_runs' = [n_runs EXCEPT ![Root] = @ + 1]
        /\ Jump(t, g)
        /\ UNCHANGED <<n_deps, n_satisfied, queued, uservars>>
    BY <1>1, <1>2, Zenon DEF ScheduleStart, StartCount
  <1>4. /\ g \in FrameType /\ g.fn = "notify" /\ g.task = Root /\ g.at = 1
        /\ g.arg = "SCHEDULE_STARTED"
    <2>1. g \in FrameType
      BY <1>1, <1>2, FrameInType DEF NotifyFrame, Functions, Events
    <2> QED BY <1>1, <2>1 DEF NotifyFrame, Frame
  <1>5. Jumped(t, g)
    BY <1>2, <1>3, <1>4, JumpFrames, Zenon DEF Inv
  <1>6. /\ n_runs' \in [Tasks -> Nat] /\ n_runs'[Root] = 1
        /\ status' \in [Tasks -> Status] /\ ustatus' \in [Tasks -> Status]
        /\ n_completed' \in [Tasks -> Nat]
        /\ \A y \in Tasks : y # Root => /\ n_runs'[y] = n_runs[y]
                                        /\ status'[y] = status[y]
    BY <1>2, <1>3 DEF Inv, Types, Status
  <1>7. Types'
    BY <1>3, <1>5, <1>6, Zenon DEF Inv, Types, Jumped, Kept, uservars, Graph
  <1>8. req' = req /\ queued' = queued /\ n_posts' = n_posts
    BY <1>3 DEF uservars
  <1>9. ASSUME NEW u \in Threads, NEW d \in 1 .. H(u)'
        PROVE  \/ Other(t, u, d) /\ At(u, d)' = At(u, d)
               \/ u = t /\ d = H(t)' /\ At(u, d)' = g
    BY <1>2, <1>5, JumpCases DEF Jumped
  <1>10. ASSUME NEW y, Posting(y)'
         PROVE  Posting(y)
    BY <1>4, <1>9, <1>10 DEF Posting, InFrame, Other
  <1>11. ASSUME NEW y, NEW k, Completing(y, k)'
         PROVE  Completing(y, k)
    BY <1>4, <1>9, <1>11 DEF Completing, InFrame, Other
  <1>12. Posting(Root)
    <2>1. InFrame(t, H(t), "post", Root) /\ H(t) \in 1 .. H(t)
      BY <1>2 DEF InFrame
    <2> QED BY <2>1 DEF Posting
  <1>13. /\ \A y \in Tasks : Started(y)' => Started(y)
         /\ \A y \in Tasks : Past(y) => Past(y)'
         /\ \A y : DepTask(y)' <=> DepTask(y)
    <2>1. \A y \in Tasks : Started(y)' => Started(y)
      BY <1>6, <1>10, <1>12 DEF Started
    <2>2. \A y \in Tasks : Past(y) => Past(y)'
      BY <1>2, <1>6, <1>8, <1>11 DEF Past
    <2>3. \A y : DepTask(y)' <=> DepTask(y)
      BY <1>8 DEF DepTask, Graph, Listeners
    <2> QED BY <2>1, <2>2, <2>3
  <1>14. FramesOK'
    <2> SUFFICES ASSUME NEW u \in Threads, NEW d \in 1 .. H(u)'
                 PROVE  FrameOK(At(u, d))'
      BY DEF FramesOK
    <2>1. CASE Other(t, u, d) /\ At(u, d)' = At(u, d)
      <3>1. PICK h : h = At(u, d)
        OBVIOUS
      <3>2. FrameOK(h) /\ h \in FrameType
        BY <2>1, <3>1, FramesType DEF Inv, FramesOK, Other
      <3>3. ~(h.fn = "post" /\ h.task = Root)
        <4> SUFFICES ASSUME h.fn = "post", h.task = Root PROVE FALSE
          OBVIOUS
        <4>1. Same(At(u, d), At(t, H(t)))
          BY <1>2, <3>1, Zenon DEF Same
        <4> QED BY <1>2, <2>1, <4>1 DEF Inv, Unique, Other
      <3>4. h.task \in Tasks
        BY <3>2 DEF FrameType
      <3>5. \A y \in Tasks : n_runs[y] = 1 => y # Root /\ n_runs'[y] = 1
        BY <1>2, <1>6
      <3>6. FrameOK(h)'
        BY <1>3, <1>6, <1>8, <1>13, <3>2, <3>3, <3>4, <3>5, Zenon
           DEF FrameOK, Graph
      <3> QED BY <2>1, <3>1, <3>6
    <2>2. CASE At(u, d)' = g
      <3>1. g.at # 0
        BY <1>4
      <3>2. FrameOK(g)'
        BY <1>4, <1>6, <3>1, Zenon DEF FrameOK, Events
      <3> QED BY <2>2, <3>2
    <2> QED BY <1>9, <2>1, <2>2
  <1>15. Unique'
    <2>1. ASSUME NEW w \in Threads, NEW c \in 1 .. H(w), Same(At(w, c), g)
          PROVE  FALSE
      <3>1. FrameOK(At(w, c))
        BY DEF Inv, FramesOK
      <3>2. n_runs[Root] = 1
        BY <1>4, <2>1, <3>1, Zenon DEF Same, FrameOK
      <3> QED BY <1>2, <3>2
    <2>2. ASSUME NEW u \in Threads, NEW d \in 1 .. H(u)'
          PROVE  \/ d \in 1 .. H(u) /\ Alike(At(u, d), At(u, d)')
                 \/ u = t /\ d = H(t)' /\ At(u, d)' = g
      BY <1>9 DEF Other, Alike
    <2> QED BY <2>1, <2>2, UniqueKept
  <1>16. Queue' /\ Runs'
    BY <1>2, <1>6, <1>8
       DEF Inv, Types, Queue, Runs, IsLeaf, IsSchedule, IsPipelined, Graph
  <1>17. NoneStarted(Root, "SCHEDULE_STARTED")
    <2> SUFFICES ASSUME NEW k \in 1 .. Len(Listeners(Root)),
                        Listeners(Root)[k].handler = "start",
                        Started(Listeners(Root)[k].task)
                 PROVE  FALSE
      BY DEF NoneStarted
    <2>1. PICK y : y = Listeners(Root)[k].task
      OBVIOUS
    <2>2. y \in Tasks /\ Graph.schedule[y] = Root
      BY <1>2, <2>1, ListenerFacts DEF Inv, Listener, IsListener
    <2>3. y # Root
      BY <2>2, RootFacts
    <2>4. n_runs[y] # 0 => n_runs[Root] = 1
      BY <2>2, <2>3 DEF Inv, Runs
    <2>5. ASSUME NEW u \in Threads, NEW d \in 1 .. H(u), InFrame(u, d, "post", y)
          PROVE  n_runs[Root] = 1
      <3>1. FrameOK(At(u, d))
        BY Zenon DEF Inv, FramesOK
      <3> QED BY <2>3, <2>5, <3>1, Zenon DEF FrameOK, InFrame
    <2>6. Posting(y) => n_runs[Root] = 1
      BY <2>5, Zenon DEF Posting
    <2> QED BY <1>2, <2>1, <2>4, <2>6 DEF Started
  <1>18. StartedByEvent'
    <2>1. ASSUME NEW u \in Threads, NEW d \in 1 .. H(u)'
          PROVE  \/ d \in 1 .. H(u) /\ At(u, d)' = At(u, d)
                 \/ NoneStarted(At(u, d)'.task, At(u, d)'.arg)
      BY <1>4, <1>9, <1>17 DEF Other
    <2> QED BY <1>8, <1>13, <2>1, ByEventKept
  <1>19. StartedByDeps'
    <2>1. ASSUME NEW u \in Threads, NEW d \in 1 .. H(u)', At(u, d)'.fn = "dependency"
          PROVE  d \in 1 .. H(u) /\ At(u, d)' = At(u, d)
      BY <1>4, <1>9, <2>1 DEF Other
    <2> QED BY <1>3, <1>8, <1>13, <2>1, ByDepsKept, Zenon
  <1> QED BY <1>2, <1>7, <1>8, <1>14, <1>15, <1>16, <1>18, <1>19, Zenon
             DEF Inv, Fresh

\* The last task: ucc_schedule_completed_handler completes the schedule.
LEMMA ScheduleCompletedInv ==
    ASSUME OneGraphs, Inv, NEW t \in Threads, NEW f \in FrameType, NEW h, NEW g,
           Running(t, "schedule_completed"), f = Top(t),
           h = ReturnFrame(Root, "OK"), g = CompleteFrame(Root),
           status' = [status EXCEPT ![Root] = "OK"],
           Call(t, h, g),
           UNCHANGED <<ustatus, n_deps, n_satisfied, n_completed, queued, n_runs,
                       uservars>>
    PROVE  Inv'
  <1>1. /\ stack[t] # << >> /\ n_posts # 0 /\ f.fn = "schedule_completed"
        /\ FrameOK(f) /\ f = At(t, H(t)) /\ H(t) \in Nat \ {0}
    BY TopOK
  <1>2. Root \in Tasks /\ n_runs[Root] = 1 /\ ~IsLeaf(Root)
    BY <1>1, RootFacts, Zenon DEF FrameOK
  <1>3. /\ h \in FrameType /\ h.fn = "return" /\ FrameOK(h)
    <2>1. h \in FrameType /\ Harmless(h)
      BY <1>2, HarmlessReturn DEF Results
    <2> QED BY <2>1 DEF ReturnFrame, Frame, Harmless
  <1>4. /\ g \in FrameType /\ g.fn = "complete" /\ g.task = Root /\ g.at = 1
    BY <1>2, CompleteInType, Zenon DEF CompleteFrame, Frame
  <1>5. Called(t, h, g)
    BY <1>1, <1>3, <1>4, CallFrames, Zenon DEF Inv
  <1>6. /\ status' \in [Tasks -> Status] /\ status'[Root] = "OK"
        /\ \A y \in Tasks : y # Root => status'[y] = status[y]
    BY <1>2, Zenon DEF Inv, Types, Status
  <1>7. Types'
    BY <1>5, <1>6, Zenon DEF Inv, Types, Called, Kept, uservars, Graph
  <1>8. req' = req /\ n_posts' = n_posts
    BY DEF uservars
  <1>9. ASSUME NEW u \in Threads, NEW d \in 1 .. H(u)'
        PROVE  \/ Other(t, u, d) /\ At(u, d)' = At(u, d)
               \/ At(u, d)' = h
               \/ u = t /\ d = H(t)' /\ At(u, d)' = g
    <2>1. H(t)' = H(t) + 1
      BY <1>5, Zenon DEF Called
    <2> QED BY <1>1, <1>5, <2>1, CallCases
  <1>10. ASSUME NEW y, Posting(y)'
         PROVE  Posting(y)
    BY <1>3, <1>4, <1>9, <1>10 DEF Posting, InFrame, Other
  <1>11. ASSUME NEW y, NEW k, Completing(y, k)', y # Root
         PROVE  Completing(y, k)
    BY <1>3, <1>4, <1>9, <1>11, Zenon DEF Completing, InFrame, Other
  <1>12. /\ \A y \in Tasks : Started(y)' => Started(y)
         /\ \A y \in Tasks : y # Root /\ Past(y) => Past(y)'
         /\ \A y : DepTask(y)' <=> DepTask(y)
    <2>1. \A y \in Tasks : Started(y)' => Started(y)
      BY <1>10 DEF Started
    <2>2. \A y \in Tasks : y # Root /\ Past(y) => Past(y)'
      BY <1>6, <1>11 DEF Past
    <2>3. \A y : DepTask(y)' <=> DepTask(y)
      BY <1>8 DEF DepTask, Graph, Listeners
    <2> QED BY <2>1, <2>2, <2>3
  <1>13. ASSUME NEW k \in FrameType, FrameOK(k)
         PROVE  FrameOK(k)'
    <2>1. k.task \in Tasks
      BY DEF FrameType
    <2> QED BY <1>6, <1>8, <1>12, <1>13, <2>1, Zenon DEF FrameOK, Graph, Results
  <1>14. FrameOK(g)'
    <2>1. Root \notin queued
      BY <1>2 DEF Inv, Queue
    <2>2. g.at \in {1, 2} /\ g.at # 2
      BY <1>4
    <2> QED BY <1>2, <1>4, <1>6, <2>1, <2>2, Zenon DEF FrameOK, Results
  <1>15. FramesOK'
    <2> SUFFICES ASSUME NEW u \in Threads, NEW d \in 1 .. H(u)'
                 PROVE  FrameOK(At(u, d))'
      BY DEF FramesOK
    <2>1. CASE Other(t, u, d) /\ At(u, d)' = At(u, d)
      <3>1. FrameOK(At(u, d)) /\ At(u, d) \in FrameType
        BY <2>1, FramesType, Zenon DEF Inv, FramesOK, Other
      <3> QED BY <1>13, <2>1, <3>1
    <2>2. FrameOK(h)'
      BY <1>3, <1>13
    <2> QED BY <1>9, <1>14, <2>1, <2>2
  <1>16. Unique'
    <2>1. ASSUME NEW u \in Threads, NEW d \in 1 .. H(u)'
          PROVE  \/ d \in 1 .. H(u) /\ Alike(At(u, d), At(u, d)')
                 \/ ~Same(At(u, d)', At(u, d)')
      BY <1>3, <1>4, <1>9, Zenon DEF Other, Alike, Same
    <2>2. \A u \in Threads : \A d \in 1 .. H(u) : ~Same(At(u, d), g)
      BY <1>4, Zenon DEF Same
    <2> QED BY <2>1, <2>2, UniqueKept, Zenon
  <1>17. Queue' /\ Runs'
    BY <1>8, Zenon DEF Inv, Queue, Runs, IsLeaf, IsSchedule, IsPipelined, Graph
  <1>18. ASSUME NEW u \in Threads, NEW d \in 1 .. H(u)',
                At(u, d)'.fn \in {"notify", "dependency"}
         PROVE  d \in 1 .. H(u) /\ At(u, d)' = At(u, d)
    BY <1>3, <1>4, <1>9, <1>18, Zenon DEF Other
  <1>19. StartedByEvent' /\ StartedByDeps'
    BY <1>8, <1>12, <1>18, ByEventKept, ByDepsKept, Zenon
  <1> QED BY <1>1, <1>7, <1>8, <1>15, <1>16, <1>17, <1>19, Zenon DEF Inv, Fresh

LEMMA ScheduleCompletedTestInv ==
    ASSUME OneGraphs, Inv, NEW t \in Threads, ScheduleCompletedTest(t)
    PROVE  Inv'
  <1>1. PICK f : f = Top(t)
    OBVIOUS
  <1>2. /\ stack[t] # << >> /\ n_posts # 0 /\ f \in FrameType
        /\ Running(t, "schedule_completed") /\ f.task = Root
    <2>1. Running(t, "schedule_completed")
      BY DEF ScheduleCompletedTest
    <2> QED BY <1>1, <2>1, TopOK, Zenon DEF FrameOK
  <1>3. UNCHANGED <<ustatus, n_deps, n_satisfied, n_completed, queued, n_runs,
                    uservars>>
    BY DEF ScheduleCompletedTest
  <1>4. CASE IsLastTask(Root, f.n[1])
    <2>1. /\ status' = [status EXCEPT ![Root] = "OK"]
          /\ Call(t, ReturnFrame(Root, "OK"), CompleteFrame(Root))
      BY <1>1, <1>2, <1>4 DEF ScheduleCompletedTest
    <2> QED BY <1>1, <1>2, <1>3, <2>1, ScheduleCompletedInv
  <1>5. CASE ~IsLastTask(Root, f.n[1])
    <2>1. Return(t, "OK") /\ UNCHANGED status
      BY <1>1, <1>2, <1>5 DEF ScheduleCompletedTest
    <2>2. Returned(t)
      BY <1>2, <2>1, ReturnFrames DEF Inv, Results
    <2>3. Types' /\ Stable /\ n_posts' = n_posts
      BY <1>3, <2>1, <2>2, KeptTypes DEF Returned, taskvars
    <2>4. Quiet
      BY <1>2, <2>2, <2>3, QuietReturn
    <2> QED BY <1>2, <2>3, <2>4, QuietStep
  <1> QED BY <1>4, <1>5
\* ucc_collective_post, the first time
LEMMA UserPostInv ==
    ASSUME OneGraphs, Inv, NEW t \in Threads, UserPost(t), n_posts = 0
    PROVE  Inv'
  <1>1. PICK f, g : f = Frame("posted", Root, NULL) /\ g = Frame("post", Root, NULL)
    OBVIOUS
  <1>2. /\ Root \in Tasks /\ f \in FrameType /\ f.fn = "posted" /\ f.task = Root
        /\ g \in FrameType /\ g.fn = "post" /\ g.task = Root
    <2>1. f \in FrameType /\ g \in FrameType
      BY <1>1, ScheduleAssumption, FrameInType DEF Functions
    <2> QED BY <1>1, <2>1, ScheduleAssumption DEF Frame
  <1>3. /\ queued = {} /\ \A u \in Threads : stack[u] = << >>
        /\ n_posts' = 1 /\ req' = req /\ queued' = queued
        /\ n_runs' = [x \in Tasks |-> 0]
        /\ stack' = [stack EXCEPT ![t] = <<g, f>>]
    BY <1>1 DEF UserPost, Inv, Fresh
  <1>4. /\ stack' \in [Threads -> Seq(FrameType)]
        /\ stack'[t] = <<g, f>>
        /\ \A u \in Threads : u # t => stack'[u] = << >>
    BY <1>2, <1>3 DEF Inv, Types
  <1>5. Types'
    BY <1>3, <1>4, ScheduleAssumption
       DEF UserPost, Inv, Types, Graph, taskvars, Results
  <1>6. ASSUME NEW u \in Threads, NEW d \in 1 .. H(u)'
        PROVE  /\ u = t
               /\ \/ d = 1 /\ At(u, d)' = f
                  \/ d = 2 /\ At(u, d)' = g
    <2>1. u = t
      BY <1>4, <1>6 DEF H
    <2>2. H(t)' = 2 /\ At(t, 1)' = f /\ At(t, 2)' = g
      BY <1>4 DEF H, At
    <2> QED BY <2>1, <2>2
  <1>7. FramesOK'
    <2>1. FrameOK(f)' /\ FrameOK(g)'
      BY <1>2, <1>3, Zenon DEF FrameOK
    <2>2. ASSUME NEW u \in Threads, NEW d \in 1 .. H(u)'
          PROVE  FrameOK(At(u, d))'
      BY <1>6, <2>1
    <2> QED BY <2>2 DEF FramesOK
  <1>8. Unique'
    <2>1. ~Same(f, g) /\ ~Same(g, f)
      BY <1>2, Zenon DEF Same
    <2> QED BY <1>6, <2>1 DEF Unique
  <1>9. Queue' /\ Runs' /\ Fresh'
    BY <1>3 DEF Queue, Runs, Fresh
  <1>10. ASSUME NEW x \in Tasks, Started(x)'
         PROVE  Graph.schedule[x] # Root
    <2>1. Posting(x)'
      BY <1>3, <1>10 DEF Started
    <2>2. x = Root
      BY <1>2, <1>6, <2>1 DEF Posting, InFrame
    <2> QED BY <2>2, RootFacts
  <1>11. StartedByEvent'
    <2> SUFFICES ASSUME NEW p \in Tasks, NEW k \in 1 .. Len(Listeners(p)),
                        Listeners(p)[k].handler = "start",
                        Started(Listeners(p)[k].task)'
                 PROVE  FALSE
      BY <1>3, Zenon DEF StartedByEvent, Listeners, Graph
    <2>1. PICK y : y = Listeners(p)[k].task
      OBVIOUS
    <2>2. y \in Tasks /\ Graph.schedule[y] = Root
      BY <2>1, ListenerFacts, Zenon DEF Inv, Listener, IsListener
    <2>3. Started(y)'
      BY <1>3, <2>1, Zenon DEF Listeners, Graph
    <2> QED BY <1>10, <2>2, <2>3
  <1>12. StartedByDeps'
    BY <1>3, <1>10, Zenon DEF StartedByDeps, DepTask, Graph
  <1> QED BY <1>5, <1>7, <1>8, <1>9, <1>11, <1>12 DEF Inv

-----------------------------------------------------------------------------
(* The results                                                             *)

LEMMA InitInv ==
    ASSUME OneGraphs, Init
    PROVE  FirstInv
  <1>1. /\ queued = {} /\ \A u \in Threads : stack[u] = << >>
        /\ n_posts = 0 /\ n_runs = [x \in Tasks |-> 0]
        /\ \A u \in Threads : H(u) = 0
    BY DEF Init, H
  <1>2. Types
    <2>1. stack \in [Threads -> Seq(FrameType)]
      BY DEF Init
    <2> QED BY <2>1, ScheduleAssumption DEF Init, Types, Status, Results
  <1>3. \A x \in Tasks : ~Started(x)
    BY <1>1 DEF Started, Posting
  <1>4. StartedByEvent
    <2> SUFFICES ASSUME NEW p \in Tasks, NEW k \in 1 .. Len(Listeners(p)),
                        Started(Listeners(p)[k].task)
                 PROVE  FALSE
      BY DEF StartedByEvent
    <2>1. Listeners(p)[k].task \in Tasks
      BY <1>2, ListenerFacts DEF Listener
    <2> QED BY <1>3, <2>1
  <1>5. StartedByDeps
    BY <1>3 DEF StartedByDeps
  <1>6. FramesOK /\ Unique /\ Queue /\ Runs /\ Fresh
    BY <1>1 DEF FramesOK, Unique, Queue, Runs, Fresh
  <1> QED BY <1>1, <1>2, <1>4, <1>5, <1>6 DEF FirstInv, Inv
=============================================================================
