--------------------------- MODULE ScheduleCount ---------------------------
(***************************************************************************)
(* The first post of a request, continued: the count of completed tasks    *)
(* and the completion of the schedule; and, for requests whose tasks all   *)
(* succeed, that no step turns a success into a failure.                   *)
(***************************************************************************)
EXTENDS ScheduleInvariant

\* the tasks of the schedule
Parts == Members(Graph, Tasks, Root)

-----------------------------------------------------------------------------
(* The inductive invariant                                                 *)

\* a notification that has reached listener i has yet to tell the schedule
Ahead(x, i) ==
    \E k \in 1 .. Len(Listeners(x)) :
        k >= i /\ Listeners(x)[k].handler = "schedule_completed"

\* A frame that will count the completion of x, if nothing fails.
Token(f, x) ==
    \/ f.fn = "complete" /\ f.task = x
    \/ /\ f.fn = "notify" /\ f.task = x /\ f.arg = "COMPLETED_SCHEDULE"
       /\ Ahead(x, f.at)
    \/ f.fn = "schedule_completed" /\ f.arg = x /\ f.at = 1

Held(x) == \E t \in Threads : \E d \in 1 .. H(t) : Token(At(t, d), x)

\* x ended well; ucc_task_complete replaces the status of a task that has an
\* executor by that of stopping the executor.
Ended(x) == status[x] = "OK" \/ x \in req.executor

Counted(x) ==
    /\ n_runs[x] = 1
    /\ x \notin queued
    /\ Ended(x)
    /\ ~Held(x)

OneToken ==
    \A x \in Parts : \A t, u \in Threads : \A d \in 1 .. H(t), e \in 1 .. H(u) :
        Token(At(t, d), x) /\ Token(At(u, e), x) => t = u /\ d = e

TokenOK(f) ==
    \A x \in Parts : Token(f, x) => /\ n_runs[x] = 1
                                    /\ x \notin queued
                                    /\ f.fn # "complete" => Ended(x)

TokensOK == \A t \in Threads : \A d \in 1 .. H(t) : TokenOK(At(t, d))

Adding(f) == f.fn = "schedule_completed" /\ f.at = 2

Added ==
    \A t \in Threads : \A d \in 1 .. H(t) :
        Adding(At(t, d)) => At(t, d).n[1] < n_completed[Root]

CountedParts == {x \in Parts : Counted(x)}

Count == n_completed[Root] <= Cardinality(CountedParts)

Done == IsSchedule(Root) /\ status[Root] = "OK" => CountedParts = Parts

Counting == OneToken /\ TokensOK /\ Added /\ Count /\ Done

-----------------------------------------------------------------------------
(* Stacks                                                                  *)

LEMMA ReturnShape ==
    ASSUME Inv, NEW t \in Threads, stack[t] # << >>, NEW st, Return(t, st)
    PROVE  \A u \in Threads : \A d \in 1 .. H(u)' :
              Other(t, u, d) /\ At(u, d)' = At(u, d)
  <1> SUFFICES ASSUME NEW u \in Threads, NEW d \in 1 .. H(u)'
               PROVE  Other(t, u, d) /\ At(u, d)' = At(u, d)
    OBVIOUS
  <1>1. PICK s : s = stack[t]
    OBVIOUS
  <1>2. s \in Seq(FrameType) /\ s # << >>
    BY <1>1 DEF Inv, Types
  <1>3. stack'[t] = Tail(s) /\ (u # t => stack'[u] = stack[u])
    BY <1>1 DEF Return, Inv, Types
  <1>4. CASE u # t
    BY <1>3, <1>4, Zenon DEF H, At, Other
  <1>5. CASE u = t
    <2>1. PICK r : r = Tail(s)
      BY Zenon
    <2>2. /\ Len(r) = Len(s) - 1 /\ Len(s) \in Nat
          /\ \A k \in 1 .. Len(s) - 1 : r[Len(r) + 1 - k] = s[Len(s) + 1 - k]
      BY <1>2, <2>1, DropHead
    <2>3. H(t) = Len(s) /\ H(t)' = Len(r)
      BY <1>1, <1>3, <2>1 DEF H
    <2>4. At(t, d) = s[Len(s) + 1 - d] /\ At(t, d)' = r[Len(r) + 1 - d]
      BY <1>1, <1>3, <2>1 DEF At
    <2> QED BY <1>5, <2>2, <2>3, <2>4 DEF Other
  <1> QED BY <1>4, <1>5

LEMMA JumpShape ==
    ASSUME Inv, NEW t \in Threads, stack[t] # << >>, NEW g, Jump(t, g)
    PROVE  \A u \in Threads : \A d \in 1 .. H(u)' :
              \/ Other(t, u, d) /\ At(u, d)' = At(u, d)
              \/ u = t /\ d = H(t) /\ d = H(t)' /\ At(u, d)' = g
  <1> SUFFICES ASSUME NEW u \in Threads, NEW d \in 1 .. H(u)'
               PROVE  \/ Other(t, u, d) /\ At(u, d)' = At(u, d)
                      \/ u = t /\ d = H(t) /\ d = H(t)' /\ At(u, d)' = g
    OBVIOUS
  <1>1. PICK s : s = stack[t]
    OBVIOUS
  <1>2. s \in Seq(FrameType \cup {g}) /\ s # << >>
    BY <1>1 DEF Inv, Types
  <1>3. stack'[t] = <<g>> \o Tail(s) /\ (u # t => stack'[u] = stack[u])
    BY <1>1, Zenon DEF Jump, Inv, Types
  <1>4. CASE u # t
    BY <1>3, <1>4, Zenon DEF H, At, Other
  <1>5. CASE u = t
    BY <1>1, <1>2, <1>3, <1>5 DEF H, At, Other
  <1> QED BY <1>4, <1>5

LEMMA CallShape ==
    ASSUME Inv, NEW t \in Threads, stack[t] # << >>, NEW f, NEW g, Call(t, f, g)
    PROVE  \A u \in Threads : \A d \in 1 .. H(u)' :
              \/ Other(t, u, d) /\ At(u, d)' = At(u, d)
              \/ u = t /\ d = H(t) /\ At(u, d)' = f
              \/ u = t /\ d = H(t) + 1 /\ d = H(t)' /\ At(u, d)' = g
  <1> SUFFICES ASSUME NEW u \in Threads, NEW d \in 1 .. H(u)'
               PROVE  \/ Other(t, u, d) /\ At(u, d)' = At(u, d)
                      \/ u = t /\ d = H(t) /\ At(u, d)' = f
                      \/ u = t /\ d = H(t) + 1 /\ d = H(t)' /\ At(u, d)' = g
    OBVIOUS
  <1>1. PICK s : s = stack[t]
    OBVIOUS
  <1>2. s \in Seq(FrameType \cup {f, g}) /\ s # << >>
    BY <1>1 DEF Inv, Types
  <1>3. stack'[t] = <<g, f>> \o Tail(s) /\ (u # t => stack'[u] = stack[u])
    BY <1>1, Zenon DEF Call, Inv, Types
  <1>4. CASE u # t
    BY <1>3, <1>4, Zenon DEF H, At, Other
  <1>5. CASE u = t
    <2>1. PICK r : r = <<g, f>> \o Tail(s)
      BY Zenon
    <2>2. /\ Len(r) = Len(s) + 1 /\ Len(s) \in Nat \ {0}
          /\ r[Len(r) + 1 - Len(s)] = f
          /\ r[Len(r) + 1 - (Len(s) + 1)] = g
          /\ \A k \in 1 .. Len(s) - 1 : r[Len(r) + 1 - k] = s[Len(s) + 1 - k]
      BY <1>2, <2>1
    <2>3. H(t) = Len(s) /\ H(t)' = Len(r)
      BY <1>1, <1>3, <2>1, Zenon DEF H
    <2>4. At(t, d) = s[Len(s) + 1 - d] /\ At(t, d)' = r[Len(r) + 1 - d]
      BY <1>1, <1>3, <2>1, Zenon DEF At
    <2> QED BY <1>5, <2>2, <2>3, <2>4 DEF Other
  <1> QED BY <1>4, <1>5

-----------------------------------------------------------------------------
(* Cardinalities                                                           *)

\* What the proofs use of cardinalities.  It is a hypothesis here, and a theorem
\* of ScheduleProofs.
CardinalityFacts ==
    \A S : IsFiniteSet(S) =>
        /\ Cardinality(S) \in Nat
        /\ \A T \in SUBSET S :
              /\ IsFiniteSet(T)
              /\ Cardinality(T) \in Nat
              /\ Cardinality(T) <= Cardinality(S)
              /\ Cardinality(T) = Cardinality(S) => T = S
        /\ \A x : x \notin S => Cardinality(S \cup {x}) = Cardinality(S) + 1

LEMMA FiniteSubset ==
    ASSUME CardinalityFacts, NEW S, IsFiniteSet(S), NEW T \in SUBSET S
    PROVE  /\ IsFiniteSet(T)
           /\ Cardinality(T) \in Nat /\ Cardinality(S) \in Nat
           /\ Cardinality(T) <= Cardinality(S)
           /\ Cardinality(T) = Cardinality(S) => T = S
  BY Zenon DEF CardinalityFacts

LEMMA OneMore ==
    ASSUME CardinalityFacts, NEW S, IsFiniteSet(S), NEW x, x \notin S
    PROVE  Cardinality(S \cup {x}) = Cardinality(S) + 1
  BY Zenon DEF CardinalityFacts

-----------------------------------------------------------------------------
(* Steps that count nothing                                                *)

LEMMA PartsFacts ==
    ASSUME OneGraphs, Inv
    PROVE  /\ Parts \subseteq Tasks /\ Root \notin Parts
           /\ \A x \in Tasks : x \in Parts <=> Graph.schedule[x] = Root
           /\ \A x \in Parts : IsLeaf(x)
           /\ IsFiniteSet(Parts)
           /\ Cardinality(Parts) = Len(Graph.tasks[Root])
           /\ IsSchedule(Root) <=> Parts # {}
           /\ n_completed[Root] \in Nat /\ Root \in Tasks
  <1>1. OneSchedule(Graph, Tasks, Root) /\ IsGraph(Graph, Tasks)
    BY GraphFacts DEF Inv
  <1>2. Root \in Tasks /\ NULL \notin Tasks
    BY ScheduleAssumption
  <1>3. IsFiniteSet(Parts) /\ Cardinality(Parts) = Len(Graph.tasks[Root])
    BY <1>1, Zenon DEF OneSchedule, Parts
  <1>4. /\ Graph.tasks[Root] \in Seq(Tasks)
        /\ Parts = {Graph.tasks[Root][i] : i \in 1 .. Len(Graph.tasks[Root])}
    BY <1>1, <1>2, Zenon DEF OneSchedule, IsGraph, Parts
  <1>5. IsSchedule(Root) <=> Parts # {}
    <2>1. PICK s : s = Graph.tasks[Root]
      OBVIOUS
    <2>2. s # << >> <=> 1 .. Len(s) # {}
      BY <1>4, <2>1
    <2>3. 1 .. Len(s) # {} <=> {s[i] : i \in 1 .. Len(s)} # {}
      BY Zenon
    <2>4. Parts = {s[i] : i \in 1 .. Len(s)}
      BY <1>4, <2>1, Zenon
    <2> QED BY <2>1, <2>2, <2>3, <2>4, Zenon DEF IsSchedule
  <1>6. ASSUME NEW x \in Tasks, Graph.schedule[x] = Root
        PROVE  x # Root /\ IsLeaf(x)
    BY <1>6, RootFacts DEF IsLeaf
  <1> QED BY <1>2, <1>3, <1>5, <1>6, Zenon DEF Parts, Members, Inv, Types

Plain(f) == ~Adding(f) /\ \A x \in Parts : ~Token(f, x)

Passes(f, g) ==
    /\ ~Adding(g)
    /\ \A x \in Parts : Token(g, x) => /\ Token(f, x)
                                       /\ g.fn # "complete" => Ended(x)

Begins(g) ==
    /\ g.fn = "complete"
    /\ g.task \in Parts => n_runs[g.task] = 0 \/ g.task \in queued

\* A step of thread t: of the frames it leaves, only the one at depth p can hold
\* what the running frame held, or begin the completion of a task.
Calm(t, p) ==
    \A u \in Threads : \A d \in 1 .. H(u)' :
        \/ Other(t, u, d) /\ At(u, d)' = At(u, d)
        \/ Plain(At(u, d)')
        \/ /\ u = t /\ d = p
           /\ \/ stack[t] # << >> /\ Passes(Top(t), At(u, d)')
              \/ Begins(At(u, d)')

CalmTask(x) ==
    /\ n_runs'[x] = n_runs[x]
    /\ status'[x] = status[x]
    /\ x \in queued' <=> x \in queued

LEMMA SameGraph ==
    ASSUME req' = req
    PROVE  /\ Parts' = Parts
           /\ \A f, x : Token(f, x)' <=> Token(f, x)
           /\ IsSchedule(Root)' <=> IsSchedule(Root)
           /\ req.executor' = req.executor
  BY DEF Parts, Token, Ahead, Listeners, Graph, IsSchedule

\* what the count can rely on once the tokens are accounted for
LEMMA CountKept ==
    ASSUME CardinalityFacts, OneGraphs, Inv, Inv', Counting, req' = req,
           \A x \in Parts : CalmTask(x) \/ n_runs[x] = 0 \/ x \in queued,
           \A x \in Parts : Held(x)' => Held(x) \/ n_runs[x] = 0 \/ x \in queued
    PROVE  /\ \A x \in Parts : Counted(x) => Counted(x)'
           /\ CountedParts \subseteq CountedParts'
           /\ CountedParts' \subseteq Parts
           /\ Cardinality(CountedParts) \in Nat
           /\ Cardinality(CountedParts') \in Nat
           /\ Cardinality(CountedParts) <= Cardinality(CountedParts')
  <1>1. ASSUME NEW x \in Parts, Counted(x)
        PROVE  Counted(x)'
    BY <1>1 DEF Counted, CalmTask, Ended
  <1>2. Parts' = Parts
    BY SameGraph
  <1>3. CountedParts \subseteq CountedParts' /\ CountedParts' \subseteq Parts
    BY <1>1, <1>2 DEF CountedParts
  <1>4. IsFiniteSet(CountedParts') /\ IsFiniteSet(CountedParts)
    BY <1>3, PartsFacts, FiniteSubset, Zenon
  <1> QED BY <1>1, <1>3, <1>4, FiniteSubset

LEMMA CalmCount ==
    ASSUME CardinalityFacts, OneGraphs, Inv, Inv', Counting, req' = req,
           NEW t \in Threads, NEW p, Calm(t, p),
           \A x \in Parts : CalmTask(x) \/ n_runs[x] = 0 \/ x \in queued,
           \/ n_completed'[Root] = n_completed[Root]
           \/ n_completed'[Root] = 0 /\ n_runs[Root] = 0,
           IsSchedule(Root) /\ status'[Root] = "OK" => CountedParts = Parts
    PROVE  Counting'
  <1>1. /\ Parts' = Parts
        /\ \A f, x : Token(f, x)' <=> Token(f, x)
        /\ IsSchedule(Root)' <=> IsSchedule(Root)
    BY SameGraph
  <1>2. ASSUME NEW x \in Parts, NEW u \in Threads, NEW d \in 1 .. H(u)',
               Token(At(u, d)', x)
        PROVE  \/ Other(t, u, d) /\ Token(At(u, d), x) /\ At(u, d)' = At(u, d)
               \/ /\ u = t /\ d = p
                  /\ stack[t] # << >> /\ Token(At(t, H(t)), x) /\ H(t) \in 1 .. H(t)
                  /\ At(u, d)'.fn # "complete" => Ended(x)
               \/ /\ u = t /\ d = p /\ ~Held(x)
                  /\ n_runs[x] = 0 \/ x \in queued
                  /\ At(u, d)'.fn = "complete" /\ At(u, d)'.task = x
    <2>1. CASE Other(t, u, d) /\ At(u, d)' = At(u, d)
      BY <1>2, <2>1, Zenon
    <2>2. CASE Plain(At(u, d)')
      BY <1>2, <2>2, Zenon DEF Plain
    <2>3. CASE u = t /\ d = p /\ stack[t] # << >> /\ Passes(Top(t), At(u, d)')
      <3>1. Top(t) = At(t, H(t)) /\ H(t) \in 1 .. H(t)
        BY <2>3, TopFrame DEF Inv
      <3> QED BY <1>2, <2>3, <3>1, Zenon DEF Passes
    <2>4. CASE u = t /\ d = p /\ Begins(At(u, d)')
      <3>1. At(u, d)'.fn = "complete" /\ At(u, d)'.task = x
        BY <1>2, <2>4, Zenon DEF Begins, Token
      <3>2. n_runs[x] = 0 \/ x \in queued
        BY <2>4, <3>1 DEF Begins
      <3>3. ~Held(x)
        BY <3>2 DEF Held, Counting, TokensOK, TokenOK
      <3> QED BY <2>4, <3>1, <3>2, <3>3, Zenon
    <2> QED BY <2>1, <2>2, <2>3, <2>4, Zenon DEF Calm
  <1>3. OneToken'
    <2> SUFFICES ASSUME NEW x \in Parts, NEW v \in Threads, NEW u \in Threads,
                        NEW d \in 1 .. H(v)', NEW e \in 1 .. H(u)',
                        Token(At(v, d)', x), Token(At(u, e)', x)
                 PROVE  v = u /\ d = e
      BY <1>1 DEF OneToken, Token, Ahead, Listeners, Graph
    <2>1. ASSUME NEW w \in Threads, NEW c, Other(t, w, c), Token(At(w, c), x)
          PROVE  ~Token(At(t, H(t)), x) \/ ~(H(t) \in 1 .. H(t))
      BY <2>1, Zenon DEF Counting, OneToken, Other
    <2>2. ASSUME NEW w \in Threads, NEW c, Other(t, w, c), Token(At(w, c), x)
          PROVE  Held(x)
      BY <2>2 DEF Held, Other
    <2>3. CASE Other(t, v, d) /\ Token(At(v, d), x)
      <3>1. Other(t, u, e) /\ Token(At(u, e), x)
        BY <1>2, <2>1, <2>2, <2>3, Zenon
      <3> QED BY <2>3, <3>1, Zenon DEF Counting, OneToken, Other
    <2>4. CASE v = t /\ d = p /\ ~(Other(t, v, d) /\ Token(At(v, d), x))
      <3>1. CASE Other(t, u, e) /\ Token(At(u, e), x)
        BY <1>2, <2>1, <2>2, <2>4, <3>1, Zenon
      <3> QED BY <1>2, <2>4, <3>1, Zenon
    <2> QED BY <1>2, <2>3, <2>4, Zenon
  <1>4. ASSUME NEW x \in Parts, NEW u \in Threads, NEW d \in 1 .. H(u)',
               Token(At(u, d)', x)
        PROVE  /\ n_runs'[x] = 1 /\ x \notin queued'
               /\ At(u, d)'.fn # "complete" => Ended(x)'
    <2>1. CASE \E w \in Threads : \E c \in 1 .. H(w) :
                 /\ Token(At(w, c), x)
                 /\ At(u, d)' = At(w, c) \/ (At(u, d)'.fn # "complete" => Ended(x))
      <3>1. PICK w \in Threads : \E c \in 1 .. H(w) :
                 /\ Token(At(w, c), x)
                 /\ At(u, d)' = At(w, c) \/ (At(u, d)'.fn # "complete" => Ended(x))
        BY <2>1
      <3>2. PICK c \in 1 .. H(w) :
                 /\ Token(At(w, c), x)
                 /\ At(u, d)' = At(w, c) \/ (At(u, d)'.fn # "complete" => Ended(x))
        BY <3>1, Zenon
      <3>3. /\ n_runs[x] = 1 /\ x \notin queued
            /\ At(w, c).fn # "complete" => Ended(x)
        BY <3>2 DEF Counting, TokensOK, TokenOK
      <3>4. CalmTask(x)
        BY <3>3
      <3>5. Ended(x) => Ended(x)'
        BY <3>4 DEF Ended, CalmTask
      <3> QED BY <3>2, <3>3, <3>4, <3>5, Zenon DEF CalmTask
    <2>2. CASE At(u, d)'.fn = "complete" /\ At(u, d)'.task = x
      <3>1. FrameOK(At(u, d))'
        BY DEF Inv, FramesOK
      <3> QED BY <2>2, <3>1, Zenon DEF FrameOK
    <2> QED BY <1>2, <1>4, <2>1, <2>2 DEF Other
  <1>5. TokensOK'
    BY <1>1, <1>4 DEF TokensOK, TokenOK, Token, Ahead, Listeners, Graph
  <1>6. ASSUME NEW x \in Parts, Held(x)'
        PROVE  Held(x) \/ n_runs[x] = 0 \/ x \in queued
    <2>1. PICK u \in Threads : \E d \in 1 .. H(u)' : Token(At(u, d)', x)
      BY <1>6, Zenon DEF Held, Token, Ahead, Listeners, Graph
    <2>2. PICK d \in 1 .. H(u)' : Token(At(u, d)', x)
      BY <2>1
    <2> QED BY <1>2, <2>2, Zenon DEF Held, Other
  <1>7. /\ CountedParts \subseteq CountedParts' /\ CountedParts' \subseteq Parts
        /\ Cardinality(CountedParts) \in Nat /\ Cardinality(CountedParts') \in Nat
        /\ Cardinality(CountedParts) <= Cardinality(CountedParts')
    BY <1>6, CountKept, Zenon
  <1>8. Count'
    <2>1. n_completed[Root] \in Nat
      BY PartsFacts
    <2> QED BY <1>7, <2>1 DEF Counting, Count
  <1>9. Added'
    <2> SUFFICES ASSUME NEW u \in Threads, NEW d \in 1 .. H(u)',
                        Adding(At(u, d)')
                 PROVE  At(u, d)'.n[1] < n_completed'[Root]
      BY DEF Added, Adding
    <2>1. d \in 1 .. H(u) /\ At(u, d)' = At(u, d)
      BY Zenon DEF Calm, Plain, Passes, Begins, Adding, Other
    <2>2. FrameOK(At(u, d)) /\ At(u, d).n[1] < n_completed[Root]
      BY <2>1, Zenon DEF Counting, Added, Inv, FramesOK
    <2>3. n_runs[Root] = 1
      BY <2>1, <2>2, Zenon DEF FrameOK, Adding
    <2> QED BY <2>1, <2>2, <2>3
  <1>10. Done'
    <2>2. CountedParts = Parts => CountedParts' = Parts'
      BY <1>1, <1>7, Zenon
    <2>3. IsSchedule(Root)' /\ status'[Root] = "OK" => CountedParts' = Parts'
      BY <1>1, <2>2
    <2> QED BY <2>3 DEF Done
  <1> QED BY <1>3, <1>5, <1>8, <1>9, <1>10 DEF Counting

LEMMA ReturnCalm ==
    ASSUME Inv, NEW t \in Threads, stack[t] # << >>, NEW st, Return(t, st)
    PROVE  Calm(t, 0)
  BY ReturnShape DEF Calm

LEMMA JumpCalm ==
    ASSUME Inv, NEW t \in Threads, stack[t] # << >>, NEW g, Jump(t, g),
           Plain(g) \/ Passes(Top(t), g) \/ Begins(g)
    PROVE  Calm(t, H(t))
  BY JumpShape DEF Calm

LEMMA CallCalm ==
    ASSUME Inv, NEW t \in Threads, stack[t] # << >>, NEW f, NEW g, Call(t, f, g),
           Plain(f) \/ Passes(Top(t), f), Plain(g)
    PROVE  Calm(t, H(t))
  BY CallShape DEF Calm

LEMMA PlainFrame ==
    ASSUME OneGraphs, Inv, NEW f,
           \/ f.fn \notin {"complete", "notify", "schedule_completed"}
           \/ f.fn = "notify" /\ f.arg # "COMPLETED_SCHEDULE"
           \/ f.fn = "complete" /\ f.task = Root
    PROVE  Plain(f)
  BY PartsFacts DEF Plain, Adding, Token

LEMMA StillCount ==
    ASSUME CardinalityFacts, OneGraphs, Inv, Inv', Counting,
           NEW t \in Threads, NEW p, Calm(t, p),
           UNCHANGED <<status, queued, n_runs, n_completed, req>>
    PROVE  Counting'
  BY CalmCount, Zenon DEF CalmTask, Counting, Done

LEMMA ErrorHandlerCount ==
    ASSUME CardinalityFacts, OneGraphs, Inv, Inv', Counting,
           NEW t \in Threads, ErrorHandler(t)
    PROVE  Counting'
  <1>1. PICK f : f = Top(t)
    OBVIOUS
  <1>2. /\ stack[t] # << >> /\ f \in FrameType /\ f.fn = "error"
        /\ UNCHANGED <<status, queued, n_runs, n_completed, req>>
    BY <1>1, TopOK, Zenon DEF ErrorHandler, uservars
  <1>3. ASSUME NEW k, NEW g, g = [f EXCEPT !.at = k]
        PROVE  Plain(g)
    <2>1. g.fn = "error"
      BY <1>2, <1>3 DEF FrameType
    <2> QED BY <2>1, PlainFrame
  <1>4. ASSUME NEW x, NEW y, NEW g, g = ErrorFrame(x, y)
        PROVE  Plain(g)
    <2>1. g.fn = "error"
      BY <1>4 DEF ErrorFrame, Frame
    <2> QED BY <2>1, PlainFrame
  <1>5. CASE f.at = 0
    <2>1. PICK g : g = [f EXCEPT !.at = 1]
      BY Zenon
    <2>2. Jump(t, g)
      BY <1>1, <1>5, <2>1 DEF ErrorHandler
    <2>3. Plain(g)
      BY <1>3, <2>1
    <2> QED BY <1>2, <2>2, <2>3, JumpCalm, StillCount
  <1>6. CASE f.at # 0
    <2>1. \/ Return(t, "OK")
          \/ \E k : Call(t, [f EXCEPT !.at = k + 1],
                         ErrorFrame(f.task, Listeners(f.arg)[k].task))
      BY <1>1, <1>6, Zenon DEF ErrorHandler
    <2>2. CASE Return(t, "OK")
      BY <1>2, <2>2, ReturnCalm, StillCount
    <2>3. ASSUME NEW k, Call(t, [f EXCEPT !.at = k + 1],
                             ErrorFrame(f.task, Listeners(f.arg)[k].task))
          PROVE  Counting'
      <3>1. PICK h, g : /\ h = [f EXCEPT !.at = k + 1]
                        /\ g = ErrorFrame(f.task, Listeners(f.arg)[k].task)
        BY Zenon
      <3>2. Call(t, h, g) /\ Plain(h) /\ Plain(g)
        BY <1>3, <1>4, <2>3, <3>1, Zenon
      <3> QED BY <1>2, <3>2, CallCalm, StillCount, Zenon
    <2> QED BY <2>1, <2>2, <2>3, Zenon
  <1> QED BY <1>5, <1>6

LEMMA CompleteNotifyCount ==
    ASSUME CardinalityFacts, OneGraphs, Inv, Inv', Counting,
           NEW t \in Threads, CompleteNotify(t)
    PROVE  Counting'
  <1>7. PICK f, x : f = Top(t) /\ x = f.task
    BY Zenon
  <1>8. PICK h, g : /\ h = [f EXCEPT !.at = 2, !.local = status[x]]
                    /\ g = NotifyFrame(x, CompletionEvent(status[x]))
    BY Zenon
  <1>1. /\ f = Top(t) /\ x = f.task
        /\ h = [f EXCEPT !.at = 2, !.local = status[x]]
        /\ g = NotifyFrame(x, CompletionEvent(status[x]))
    BY <1>7, <1>8
  <1>2. /\ stack[t] # << >> /\ f \in FrameType /\ f.fn = "complete"
        /\ Call(t, h, g)
        /\ UNCHANGED <<status, queued, n_runs, n_completed, req>>
    BY <1>1, TopOK, Zenon DEF CompleteNotify, taskvars, uservars
  <1>3. h.fn = "complete" /\ h.task = x
    BY <1>1, <1>2 DEF FrameType
  <1>4. g.fn = "notify" /\ g.arg # "COMPLETED_SCHEDULE"
    BY <1>1 DEF NotifyFrame, Frame, CompletionEvent
  <1>5. Plain(g)
    BY <1>4, PlainFrame
  <1>6. Passes(Top(t), h)
    BY <1>1, <1>2, <1>3, Zenon DEF Passes, Adding, Token
  <1> QED BY <1>2, <1>5, <1>6, CallCalm, StillCount, Zenon

LEMMA CompleteFinishCount ==
    ASSUME CardinalityFacts, OneGraphs, Inv, Inv', Counting,
           NEW t \in Threads, CompleteFinish(t)
    PROVE  Counting'
  <1>1. PICK f, x, g : /\ f = Top(t) /\ x = f.task
                       /\ g = NotifyFrame(x, "COMPLETED_SCHEDULE")
    OBVIOUS
  <1>2. PICK st : st = FinalStatus(x, f.local, ret[t])
    OBVIOUS
  <1>3. /\ stack[t] # << >> /\ f \in FrameType /\ f.fn = "complete" /\ f.at = 2
        /\ FrameOK(f)
        /\ UNCHANGED <<status, queued, n_runs, n_completed, req>>
        /\ \/ st = "OK" /\ Jump(t, g)
           \/ Return(t, st)
    BY <1>1, <1>2, TopOK, Zenon DEF CompleteFinish, uservars
  <1>4. CASE Return(t, st)
    BY <1>3, <1>4, ReturnCalm, StillCount
  <1>5. CASE st = "OK" /\ Jump(t, g)
    <2>1. g.fn = "notify" /\ g.task = x
      BY <1>1 DEF NotifyFrame, Frame
    <2>2. x \in Parts => Ended(x)
      <3>1. x # Root => f.local = status[x]
        BY <1>1, <1>3, Zenon DEF FrameOK
      <3> QED BY <1>2, <1>5, <3>1, PartsFacts DEF FinalStatus, Ended
    <2>3. Passes(Top(t), g)
      BY <1>1, <1>3, <2>1, <2>2, Zenon DEF Passes, Adding, Token
    <2> QED BY <1>3, <1>5, <2>3, JumpCalm, StillCount, Zenon
  <1> QED BY <1>3, <1>4, <1>5

LEMMA ReturnOwnCount ==
    ASSUME CardinalityFacts, OneGraphs, Inv, Inv', Counting,
           NEW t \in Threads, ReturnOwn(t)
    PROVE  Counting'
  <1>1. stack[t] # << >> /\ UNCHANGED <<status, queued, n_runs, n_completed, req>>
    BY TopOK DEF ReturnOwn, taskvars, uservars
  <1> QED BY <1>1, ReturnCalm, StillCount DEF ReturnOwn

LEMMA UserPostedCount ==
    ASSUME CardinalityFacts, OneGraphs, Inv, Inv', Counting,
           NEW t \in Threads, UserPosted(t)
    PROVE  Counting'
  <1>1. stack[t] # << >> /\ UNCHANGED <<status, queued, n_runs, n_completed, req>>
    BY TopOK DEF UserPosted, taskvars
  <1> QED BY <1>1, ReturnCalm, StillCount DEF UserPosted

LEMMA DependencyCount ==
    ASSUME CardinalityFacts, OneGraphs, Inv, Inv', Counting, NEW t \in Threads,
           DependencyAdd(t) \/ DependencyTest(t) \/ DependencyStarted(t)
    PROVE  Counting'
  <1>1. PICK f, x : f = Top(t) /\ x = f.task
    BY Zenon
  <1>2. /\ stack[t] # << >> /\ f \in FrameType /\ f.fn = "dependency"
        /\ UNCHANGED <<status, queued, n_runs, n_completed, req>>
    BY <1>1, TopOK, Zenon
       DEF DependencyAdd, DependencyTest, DependencyStarted, taskvars,
                       uservars
  <1>3. CASE DependencyAdd(t)
    <2>1. PICK g : g = [f EXCEPT !.at = 2, !.n = <<n_satisfied[x]>>]
      BY Zenon
    <2>2. Jump(t, g)
      BY <1>1, <1>3, <2>1 DEF DependencyAdd
    <2>3. g.fn = "dependency"
      BY <1>2, <2>1 DEF FrameType
    <2> QED BY <1>2, <2>2, <2>3, PlainFrame, JumpCalm, StillCount, Zenon
  <1>4. CASE DependencyTest(t)
    <2>1. PICK h, g : h = [f EXCEPT !.at = 3] /\ g = Frame("post", x, f.arg)
      BY Zenon
    <2>2. Return(t, "OK") \/ Call(t, h, g)
      BY <1>1, <1>4, <2>1 DEF DependencyTest
    <2>3. h.fn = "dependency" /\ g.fn = "post"
      BY <1>2, <2>1 DEF FrameType, Frame
    <2>4. Plain(h) /\ Plain(g)
      BY <2>3, PlainFrame
    <2> QED BY <1>2, <2>2, <2>4, ReturnCalm, CallCalm, StillCount, Zenon
  <1>5. CASE DependencyStarted(t)
    <2>1. PICK h, g : h = ReturnFrame(x, ret[t]) /\ g = NotifyFrame(x, "TASK_STARTED")
      BY Zenon
    <2>2. Return(t, ret[t]) \/ Call(t, h, g)
      BY <1>1, <1>5, <2>1, Zenon DEF DependencyStarted
    <2>3. h.fn = "return" /\ g.fn = "notify" /\ g.arg = "TASK_STARTED"
      BY <2>1 DEF ReturnFrame, NotifyFrame, Frame
    <2>4. Plain(h) /\ Plain(g)
      BY <2>3, PlainFrame
    <2> QED BY <1>2, <2>2, <2>4, ReturnCalm, CallCalm, StillCount, Zenon
  <1> QED BY <1>3, <1>4, <1>5

LEMMA NotifyCount ==
    ASSUME CardinalityFacts, OneGraphs, Inv, Inv', Counting,
           NEW t \in Threads, Notify(t)
    PROVE  Counting'
  <1>1. PICK f, x : f = Top(t) /\ x = f.task
    BY Zenon
  <1>2. /\ stack[t] # << >> /\ f \in FrameType /\ f.fn = "notify" /\ x \in Tasks
        /\ FrameOK(f) /\ Running(t, "notify")
        /\ UNCHANGED <<status, queued, n_runs, n_completed, req>>
    BY <1>1, TopOK, Zenon DEF Notify, taskvars, uservars, FrameType
  <1>3. CASE ret[t] # "OK" \/ NextListener(x, f.arg, f.at) = {}
    <2>1. \E st : Return(t, st)
      BY <1>1, <1>3, Zenon DEF Notify
    <2> QED BY <1>2, <2>1, ReturnCalm, StillCount
  <1>4. CASE ~(ret[t] # "OK" \/ NextListener(x, f.arg, f.at) = {})
    <2>1. PICK k \in NextListener(x, f.arg, f.at) :
             Call(t, [f EXCEPT !.at = k + 1], HandlerFrame(x, f.arg, Listeners(x)[k]))
      BY <1>1, <1>4, Zenon DEF Notify
    <2>2. PICK l, h, g : /\ l = Listeners(x)[k]
                         /\ h = [f EXCEPT !.at = k + 1]
                         /\ g = HandlerFrame(x, f.arg, l)
      BY Zenon
    <2>3. /\ k \in 1 .. Len(Listeners(x)) /\ k >= f.at
          /\ IsListener(Graph, Root, x, l)
          /\ f.arg = "ERROR" \/ l.event = f.arg
      BY <1>1, <1>2, <2>2, NotifyCall, Zenon
    <2>4. /\ h.fn = "notify" /\ h.task = x /\ h.arg = f.arg /\ h.at = k + 1
          /\ Call(t, h, g)
      BY <1>1, <1>2, <2>1, <2>2, <2>3, Zenon DEF FrameType
    <2>5. CASE f.arg # "COMPLETED_SCHEDULE"
      <3>1. g.fn \in {"error", "post", "dependency"}
        BY <2>2, <2>3, <2>5, Zenon
           DEF HandlerFrame, ErrorFrame, Frame, IsListener
      <3>2. Plain(g) /\ Plain(h)
        BY <2>4, <2>5, <3>1, PlainFrame
      <3> QED BY <1>2, <2>4, <3>2, CallCalm, StillCount, Zenon
    <2>6. CASE f.arg = "COMPLETED_SCHEDULE"
      <3>1. l.handler = "schedule_completed" /\ x \in Parts
        BY <1>2, <2>3, <2>6, PartsFacts, Zenon DEF IsListener
      <3>2. g.fn = "schedule_completed" /\ g.arg = x /\ g.at = 1
        BY <2>2, <2>6, <3>1 DEF HandlerFrame, Frame
      <3>3. Token(f, x)
        BY <1>1, <1>2, <2>2, <2>3, <2>6, <3>1, Zenon DEF Token, Ahead
      <3>4. Ended(x)
        <4>1. TokenOK(f)
          <5>1. f = At(t, H(t)) /\ H(t) \in 1 .. H(t)
            BY <1>1, <1>2, TopFrame DEF Inv
          <5> QED BY <5>1, Zenon DEF Counting, TokensOK
        <4> QED BY <1>2, <3>1, <3>3, <4>1, Zenon DEF TokenOK
      <3>5. Passes(Top(t), g)
        BY <1>1, <3>2, <3>3, <3>4 DEF Passes, Adding, Token
      <3>6. ~Ahead(x, k + 1)
        <4> SUFFICES ASSUME NEW j \in 1 .. Len(Listeners(x)), j >= k + 1,
                            Listeners(x)[j].handler = "schedule_completed"
                     PROVE  FALSE
          BY DEF Ahead
        <4>1. j = k
          BY <1>2, <2>2, <2>3, <3>1, GraphFacts, Zenon
             DEF OneSchedule, Listeners, Inv
        <4>2. Len(Listeners(x)) \in Nat
          BY <1>2, ListenerFacts, Zenon DEF Inv
        <4> QED BY <2>3, <4>1, <4>2
      <3>7. Plain(h)
        BY <2>4, <3>6 DEF Plain, Adding, Token
      <3>8. Calm(t, H(t) + 1)
        <4> SUFFICES ASSUME NEW u \in Threads, NEW d \in 1 .. H(u)'
                     PROVE  \/ Other(t, u, d) /\ At(u, d)' = At(u, d)
                            \/ At(u, d)' = h
                            \/ u = t /\ d = H(t) + 1 /\ At(u, d)' = g
          BY <1>2, <3>5, <3>7, Zenon DEF Calm
        <4> QED BY <1>2, <2>4, CallShape
      <3> QED BY <1>2, <3>8, StillCount
    <2> QED BY <2>5, <2>6
  <1> QED BY <1>3, <1>4

LEMMA ScheduleCompletedTestCount ==
    ASSUME CardinalityFacts, OneGraphs, Inv, Inv', Counting, NEW t \in Threads,
           ScheduleCompletedTest(t)
    PROVE  Counting'
  <1>1. PICK f : f = Top(t)
    BY Zenon
  <1>2. /\ stack[t] # << >> /\ f \in FrameType /\ f.at = 2
        /\ f.fn = "schedule_completed" /\ FrameOK(f) /\ f.task = Root
        /\ f = At(t, H(t)) /\ H(t) \in 1 .. H(t)
        /\ UNCHANGED <<queued, n_runs, n_completed, req>>
    <2>1. Running(t, "schedule_completed")
      BY DEF ScheduleCompletedTest
    <2>2. /\ stack[t] # << >> /\ f \in FrameType /\ FrameOK(f)
          /\ f.fn = "schedule_completed" /\ f = At(t, H(t)) /\ H(t) \in Nat \ {0}
      BY <1>1, <2>1, TopOK, Zenon
    <2>3. f.at = 2 /\ UNCHANGED <<queued, n_runs, n_completed, req>>
      BY <1>1 DEF ScheduleCompletedTest, uservars
    <2>4. f.task = Root
      BY <2>2, Zenon DEF FrameOK
    <2>5. H(t) \in 1 .. H(t)
      BY <2>2
    <2> QED BY <2>2, <2>3, <2>4, <2>5
  <1>3. CASE ~IsLastTask(Root, f.n[1])
    <2>1. Return(t, "OK") /\ UNCHANGED status
      BY <1>1, <1>2, <1>3, Zenon DEF ScheduleCompletedTest
    <2> QED BY <1>2, <2>1, ReturnCalm, StillCount
  <1>4. CASE IsLastTask(Root, f.n[1])
    <2>1. PICK h, g : h = ReturnFrame(Root, "OK") /\ g = CompleteFrame(Root)
      BY Zenon
    <2>2. status' = [status EXCEPT ![Root] = "OK"] /\ Call(t, h, g)
      BY <1>1, <1>2, <1>4, <2>1, Zenon DEF ScheduleCompletedTest
    <2>3. h.fn = "return" /\ g.fn = "complete" /\ g.task = Root
      BY <2>1 DEF ReturnFrame, CompleteFrame, Frame
    <2>4. Plain(h) /\ Plain(g)
      BY <2>3, PlainFrame
    <2>5. Calm(t, H(t))
      BY <1>2, <2>2, <2>4, CallCalm, Zenon
    <2>6. \A x \in Parts : CalmTask(x)
      BY <1>2, <2>2, PartsFacts, Zenon DEF CalmTask, Inv, Types
    <2>7. f.n[1] \in Nat /\ f.n[1] < n_completed[Root]
      <3>1. Len(f.n) = 1 /\ f.n \in Seq(Nat)
        BY <1>2, Zenon DEF FrameOK, FrameType, Counts
      <3>2. f.n[1] < n_completed[Root]
        BY <1>2 DEF Counting, Added, Adding
      <3> QED BY <3>1, <3>2
    <2>8. f.n[1] + 1 = Cardinality(Parts)
      BY <1>4, PartsFacts DEF IsLastTask
    <2>9. CountedParts = Parts
      <3>1. CountedParts \subseteq Parts /\ IsFiniteSet(Parts)
        BY PartsFacts DEF CountedParts
      <3>2. /\ Cardinality(CountedParts) \in Nat /\ Cardinality(Parts) \in Nat
            /\ Cardinality(CountedParts) <= Cardinality(Parts)
            /\ Cardinality(CountedParts) = Cardinality(Parts) => CountedParts = Parts
        BY <3>1, FiniteSubset
      <3>3. n_completed[Root] \in Nat /\ n_completed[Root] <= Cardinality(CountedParts)
        BY PartsFacts DEF Counting, Count
      <3> QED BY <2>7, <2>8, <3>2, <3>3
    <2> QED BY <1>2, <2>5, <2>6, <2>9, CalmCount, Zenon
  <1> QED BY <1>3, <1>4

\* Counting a task: its token goes as the counter is incremented.
LEMMA ScheduleCompletedAddCount ==
    ASSUME CardinalityFacts, OneGraphs, Inv, Inv', Counting, NEW t \in Threads,
           ScheduleCompletedAdd(t)
    PROVE  Counting'
  <1>1. PICK f, x : f = Top(t) /\ x = f.arg
    BY Zenon
  <1>2. /\ stack[t] # << >> /\ f \in FrameType /\ FrameOK(f)
        /\ f.fn = "schedule_completed" /\ f.at = 1
        /\ f = At(t, H(t)) /\ H(t) \in Nat \ {0} /\ H(t) \in 1 .. H(t)
    <2>1. Running(t, "schedule_completed")
      BY DEF ScheduleCompletedAdd
    <2>2. /\ stack[t] # << >> /\ f \in FrameType /\ FrameOK(f)
          /\ f.fn = "schedule_completed" /\ f = At(t, H(t)) /\ H(t) \in Nat \ {0}
      BY <1>1, <2>1, TopOK, Zenon
    <2>3. H(t) \in 1 .. H(t)
      BY <2>2
    <2> QED BY <1>1, <2>2, <2>3 DEF ScheduleCompletedAdd
  <1>3. f.task = Root /\ x \in Parts
    BY <1>1, <1>2, PartsFacts, Zenon DEF FrameOK
  <1>4. PICK g : g = [f EXCEPT !.at = 2, !.n = <<n_completed[Root]>>]
    BY Zenon
  <1>5. /\ n_completed' = [n_completed EXCEPT ![Root] = @ + 1]
        /\ Jump(t, g)
        /\ UNCHANGED <<status, queued, n_runs, req>>
    BY <1>1, <1>3, <1>4 DEF ScheduleCompletedAdd, uservars
  <1>6. n_completed[Root] \in Nat /\ n_completed'[Root] = n_completed[Root] + 1
    BY <1>5, PartsFacts, Zenon DEF Inv, Types
  <1>7. g.fn = "schedule_completed" /\ g.at = 2 /\ g.n[1] = n_completed[Root]
    BY <1>2, <1>4 DEF FrameType
  <1>8. /\ Parts' = Parts
        /\ \A h, y : Token(h, y)' <=> Token(h, y)
        /\ IsSchedule(Root)' <=> IsSchedule(Root)
    BY <1>5, SameGraph
  <1>9. ASSUME NEW u \in Threads, NEW d \in 1 .. H(u)'
        PROVE  \/ Other(t, u, d) /\ At(u, d)' = At(u, d)
               \/ At(u, d)' = g
    BY <1>2, <1>5, JumpShape
  <1>10. ASSUME NEW y
         PROVE  ~Token(g, y)
    BY <1>7 DEF Token
  <1>11. OneToken'
    <2> SUFFICES ASSUME NEW y \in Parts, NEW v \in Threads, NEW u \in Threads,
                        NEW d \in 1 .. H(v)', NEW e \in 1 .. H(u)',
                        Token(At(v, d)', y), Token(At(u, e)', y)
                 PROVE  v = u /\ d = e
      BY <1>8 DEF OneToken
    <2>1. /\ Other(t, v, d) /\ Token(At(v, d), y)
          /\ Other(t, u, e) /\ Token(At(u, e), y)
      BY <1>9, <1>10
    <2> QED BY <2>1 DEF Counting, OneToken, Other
  <1>12. TokensOK'
    <2> SUFFICES ASSUME NEW y \in Parts, NEW u \in Threads, NEW d \in 1 .. H(u)',
                        Token(At(u, d)', y)
                 PROVE  /\ n_runs[y] = 1 /\ y \notin queued
                        /\ At(u, d)'.fn # "complete" => Ended(y)
      BY <1>5, <1>8 DEF TokensOK, TokenOK, Ended
    <2>1. Other(t, u, d) /\ At(u, d)' = At(u, d)
      BY <1>9, <1>10
    <2> QED BY <2>1 DEF Counting, TokensOK, TokenOK, Other
  <1>13. Added'
    <2> SUFFICES ASSUME NEW u \in Threads, NEW d \in 1 .. H(u)',
                        Adding(At(u, d)')
                 PROVE  At(u, d)'.n[1] < n_completed'[Root]
      BY DEF Added, Adding
    <2>1. CASE At(u, d)' = g
      BY <1>6, <1>7, <2>1
    <2>2. CASE Other(t, u, d) /\ At(u, d)' = At(u, d)
      <3>1. At(u, d).n[1] < n_completed[Root]
        BY <2>2 DEF Counting, Added, Other
      <3>2. FrameOK(At(u, d)) /\ At(u, d) \in FrameType
        BY <2>2, FramesType DEF Inv, FramesOK, Other
      <3>3. At(u, d).n[1] \in Nat
        <4>1. Len(At(u, d).n) = 1
          BY <2>2, <3>2, Zenon DEF FrameOK, Adding
        <4> QED BY <3>2, <4>1 DEF FrameType, Counts
      <3> QED BY <1>6, <2>2, <3>1, <3>3
    <2> QED BY <1>9, <2>1, <2>2
  <1>14. ASSUME NEW y \in Parts, Held(y)'
         PROVE  Held(y) /\ y # x
    <2>1. PICK u \in Threads : \E d \in 1 .. H(u)' : Token(At(u, d)', y)
      BY <1>5, <1>14, Zenon DEF Held, Token, Ahead, Listeners, Graph
    <2>2. PICK d \in 1 .. H(u)' : Token(At(u, d)', y)
      BY <2>1
    <2>3. Other(t, u, d) /\ Token(At(u, d), y)
      BY <1>9, <1>10, <2>2
    <2>4. Token(At(t, H(t)), x)
      BY <1>1, <1>2, Zenon DEF Token
    <2>5. y # x
      BY <1>2, <1>3, <2>3, <2>4 DEF Counting, OneToken, Other
    <2> QED BY <2>3, <2>5 DEF Held, Other
  <1>15. /\ CountedParts \subseteq CountedParts' /\ CountedParts' \subseteq Parts
         /\ Cardinality(CountedParts') \in Nat
    <2>1. \A y \in Parts : CalmTask(y)
      BY <1>5 DEF CalmTask
    <2> QED BY <1>5, <1>14, <2>1, CountKept, Zenon
  <1>16. x \in CountedParts' /\ x \notin CountedParts
    <2>1. Token(At(t, H(t)), x)
      BY <1>1, <1>2, Zenon DEF Token
    <2>2. Held(x)
      BY <1>2, <2>1 DEF Held
    <2>3. n_runs[x] = 1 /\ x \notin queued /\ Ended(x)
      BY <1>2, <1>3, <2>1 DEF Counting, TokensOK, TokenOK
    <2>4. Counted(x)'
      BY <1>3, <1>5, <1>14, <2>3 DEF Counted, Ended
    <2> QED BY <1>3, <1>8, <2>2, <2>4, Zenon DEF CountedParts, Counted
  <1>17. Count'
    <2>1. IsFiniteSet(CountedParts') /\ IsFiniteSet(CountedParts)
      BY <1>15, PartsFacts, FiniteSubset
    <2>2. Cardinality(CountedParts \cup {x}) = Cardinality(CountedParts) + 1
      BY <1>16, <2>1, OneMore
    <2>3. Cardinality(CountedParts \cup {x}) <= Cardinality(CountedParts')
      BY <1>15, <1>16, <2>1, FiniteSubset
    <2>4. Cardinality(CountedParts) \in Nat
      BY <2>1, FiniteSubset
    <2> QED BY <1>6, <1>15, <2>2, <2>3, <2>4 DEF Counting, Count
  <1>18. Done'
    <2>1. status[Root] = "OK" /\ IsSchedule(Root) => CountedParts' = Parts'
      BY <1>8, <1>15, Zenon DEF Counting, Done
    <2> QED BY <1>5, <1>8, <2>1 DEF Done
  <1> QED BY <1>11, <1>12, <1>13, <1>17, <1>18 DEF Counting

LEMMA PostTaskCount ==
    ASSUME CardinalityFacts, OneGraphs, Inv, Inv', Counting,
           NEW t \in Threads, PostTask(t)
    PROVE  Counting'
  <1>1. PICK f, x : f = Top(t) /\ x = f.task
    BY Zenon
  <1>2. /\ stack[t] # << >> /\ x \in Tasks /\ f.fn = "post" /\ FrameOK(f)
    BY <1>1, TopOK, Zenon DEF FrameType, PostTask
  <1>3. n_runs[x] = 0
    BY <1>1, <1>2, Zenon DEF FrameOK
  <1>4. /\ n_runs' = [n_runs EXCEPT ![x] = @ + 1]
        /\ UNCHANGED <<n_completed, req>>
        /\ IsLeaf(x)
    BY <1>1, Zenon DEF PostTask, uservars
  <1>5. /\ \A y \in Tasks : y # x => status'[y] = status[y]
        /\ \A y \in Tasks : y # x => (y \in queued' <=> y \in queued)
    BY <1>1, Zenon DEF PostTask, Inv, Types
  <1>6. \A y \in Parts : CalmTask(y) \/ n_runs[y] = 0
    BY <1>3, <1>4, <1>5, PartsFacts, Zenon DEF CalmTask, Inv, Types
  <1>7. IsSchedule(Root) /\ status'[Root] = "OK" => CountedParts = Parts
    BY <1>4, <1>5, PartsFacts, Zenon DEF IsLeaf, Counting, Done
  <1>8. \E p : Calm(t, p)
    <2>1. PICK g : g = CompleteFrame(x)
      BY Zenon
    <2>2. Return(t, "ERR") \/ Return(t, "OK") \/ Jump(t, g)
      BY <1>1, <2>1, Zenon DEF PostTask
    <2>3. Begins(g)
      BY <1>3, <2>1 DEF Begins, CompleteFrame, Frame
    <2> QED BY <1>2, <2>2, <2>3, ReturnCalm, JumpCalm, Zenon
  <1> QED BY <1>4, <1>6, <1>7, <1>8, CalmCount

LEMMA ProgressCount ==
    ASSUME CardinalityFacts, OneGraphs, Inv, Inv', Counting,
           NEW t \in Threads, Progress(t)
    PROVE  Counting'
  <1>1. PICK x \in queued, st \in Outcomes :
           /\ queued' = queued \ {x}
           /\ status' = [status EXCEPT ![x] = st]
           /\ stack' = [stack EXCEPT ![t] = <<CompleteFrame(x)>>]
    BY Zenon DEF Progress
  <1>2. UNCHANGED <<n_completed, n_runs, req>> /\ stack[t] = << >>
    BY DEF Progress, uservars
  <1>3. x \in Tasks /\ IsLeaf(x)
    BY Zenon DEF Inv, Types, Queue
  <1>4. \A y \in Parts : CalmTask(y) \/ y \in queued
    BY <1>1, <1>2, PartsFacts, Zenon DEF CalmTask, Inv, Types
  <1>5. IsSchedule(Root) /\ status'[Root] = "OK" => CountedParts = Parts
    BY <1>1, <1>3, PartsFacts, Zenon DEF IsLeaf, Counting, Done, Inv, Types
  <1>6. Calm(t, 1)
    <2>1. PICK g : g = CompleteFrame(x)
      BY Zenon
    <2>2. Begins(g)
      BY <2>1 DEF Begins, CompleteFrame, Frame
    <2>3. ASSUME NEW u \in Threads, NEW d \in 1 .. H(u)'
          PROVE  \/ Other(t, u, d) /\ At(u, d)' = At(u, d)
                 \/ u = t /\ d = 1 /\ At(u, d)' = g
      <3>1. CASE u # t
        <4>1. stack'[u] = stack[u]
          BY <1>1, <3>1, Zenon DEF Inv, Types
        <4> QED BY <3>1, <4>1 DEF H, At, Other
      <3>2. CASE u = t
        <4>1. stack'[t] = <<g>>
          BY <1>1, <2>1, Zenon DEF Inv, Types
        <4>2. H(t)' = 1 /\ At(t, 1)' = g
          BY <4>1 DEF H, At
        <4> QED BY <3>2, <4>2
      <3> QED BY <3>1, <3>2
    <2> QED BY <2>2, <2>3, Zenon DEF Calm
  <1> QED BY <1>2, <1>4, <1>5, <1>6, CalmCount

LEMMA ScheduleStartCount ==
    ASSUME CardinalityFacts, OneGraphs, Inv, Inv', Counting,
           NEW t \in Threads, ScheduleStart(t)
    PROVE  Counting'
  <1>1. PICK f, g : f = Top(t) /\ g = NotifyFrame(Root, "SCHEDULE_STARTED")
    BY Zenon
  <1>2. /\ stack[t] # << >> /\ f \in FrameType /\ f.fn = "post" /\ FrameOK(f)
    BY <1>1, TopOK, Zenon DEF ScheduleStart
  <1>3. f.task = Root /\ Root \in Tasks
    BY <1>1, <1>2, RootFacts, Zenon DEF ScheduleStart, FrameType
  <1>4. /\ n_completed' = [n_completed EXCEPT ![Root] = 0]
        /\ status' = [status EXCEPT ![Root] = "INPROGRESS"]
        /\ n_runs' = [n_runs EXCEPT ![Root] = @ + 1]
        /\ Jump(t, g) /\ UNCHANGED <<queued, req>>
    BY <1>1, <1>3 DEF ScheduleStart, StartCount, uservars
  <1>5. n_runs[Root] = 0 /\ n_completed'[Root] = 0 /\ status'[Root] = "INPROGRESS"
    <2>1. /\ status \in [Tasks -> Status] /\ n_completed \in [Tasks -> Nat]
          /\ n_runs \in [Tasks -> Nat]
      BY Zenon DEF Inv, Types
    <2>2. n_runs[Root] = 0
      BY <1>2, <1>3, Zenon DEF FrameOK
    <2> QED BY <1>3, <1>4, <2>1, <2>2
  <1>6. \A y \in Parts : CalmTask(y)
    <2>1. status \in [Tasks -> Status] /\ n_runs \in [Tasks -> Nat]
      BY Zenon DEF Inv, Types
    <2>2. \A y \in Parts : y \in Tasks /\ y # Root
      BY PartsFacts
    <2> QED BY <1>4, <2>1, <2>2 DEF CalmTask
  <1>7. Plain(g)
    <2>1. g.fn = "notify" /\ g.arg = "SCHEDULE_STARTED"
      BY <1>1 DEF NotifyFrame, Frame
    <2> QED BY <2>1, PlainFrame
  <1>8. Calm(t, H(t))
    BY <1>2, <1>4, <1>7, JumpCalm
  <1> QED BY <1>4, <1>5, <1>6, <1>8, CalmCount, Zenon

LEMMA UserPostCount ==
    ASSUME CardinalityFacts, OneGraphs, Inv, Inv', Counting,
           NEW t \in Threads, UserPost(t),
           n_posts = 0
    PROVE  Counting'
  <1>1. PICK f, g : f = Frame("posted", Root, NULL) /\ g = Frame("post", Root, NULL)
    BY Zenon
  <1>2. f.fn = "posted" /\ g.fn = "post"
    BY <1>1 DEF Frame
  <1>3. /\ n_runs' = n_runs /\ UNCHANGED <<status, queued, n_completed, req>>
        /\ stack' = [stack EXCEPT ![t] = <<g, f>>]
    BY <1>1, Zenon DEF UserPost, Inv, Fresh, taskvars
  <1>4. Plain(f) /\ Plain(g)
    BY <1>2, PlainFrame
  <1>5. ASSUME NEW u \in Threads, NEW d \in 1 .. H(u)'
        PROVE  \/ Other(t, u, d) /\ At(u, d)' = At(u, d)
               \/ At(u, d)' = f
               \/ At(u, d)' = g
    <2>1. CASE u # t
      <3>1. stack'[u] = stack[u]
        BY <1>3, <2>1, Zenon DEF Inv, Types
      <3> QED BY <2>1, <3>1 DEF H, At, Other
    <2>2. CASE u = t
      <3>1. stack'[t] = <<g, f>>
        BY <1>3, Zenon DEF Inv, Types
      <3>2. H(t)' = 2 /\ At(t, 1)' = f /\ At(t, 2)' = g
        BY <3>1 DEF H, At
      <3> QED BY <2>2, <3>2
    <2> QED BY <2>1, <2>2
  <1>6. Calm(t, 0)
    BY <1>4, <1>5 DEF Calm
  <1> QED BY <1>3, <1>6, StillCount

LEMMA UnchangedCount ==
    ASSUME Counting,
           UNCHANGED <<stack, status, queued, n_runs, n_completed, req>>
    PROVE  Counting'
  <1>1. \A u, d : H(u)' = H(u) /\ At(u, d)' = At(u, d)
    BY DEF H, At
  <1>2. /\ Parts' = Parts
        /\ \A f, x : Token(f, x)' <=> Token(f, x)
        /\ IsSchedule(Root)' <=> IsSchedule(Root)
    BY SameGraph
  <1>3. \A x : (Held(x)' <=> Held(x)) /\ (Ended(x)' <=> Ended(x))
    BY <1>1, <1>2 DEF Held, Ended, Token, Ahead, Listeners, Graph
  <1>4. CountedParts' = CountedParts
    BY <1>2, <1>3 DEF CountedParts, Counted
  <1>5. OneToken'
    BY <1>1, <1>2 DEF Counting, OneToken
  <1>6. TokensOK'
    BY <1>1, <1>2, <1>3 DEF Counting, TokensOK, TokenOK
  <1>7. Added' /\ Count'
    BY <1>1, <1>4 DEF Counting, Added, Adding, Count
  <1>8. Done'
    BY <1>2, <1>4, Zenon DEF Counting, Done, IsSchedule
  <1> QED BY <1>5, <1>6, <1>7, <1>8 DEF Counting

-----------------------------------------------------------------------------
(* The count                                                               *)

CountInv == FirstInv /\ (n_posts <= 1 => Counting)

LEMMA InitCount ==
    ASSUME CardinalityFacts, OneGraphs, Init, FirstInv
    PROVE  CountInv
  <1>1. Inv
    BY DEF FirstInv, Init
  <1>2. /\ \A u \in Threads : H(u) = 0
        /\ n_completed[Root] = 0 /\ status[Root] # "OK"
    BY ScheduleAssumption DEF Init, H
  <1>3. CountedParts \subseteq Parts /\ IsFiniteSet(Parts)
    BY <1>1, PartsFacts DEF CountedParts
  <1>4. Cardinality(CountedParts) \in Nat
    BY <1>3, FiniteSubset
  <1>5. OneToken /\ TokensOK /\ Added
    BY <1>2 DEF OneToken, TokensOK, Added
  <1>6. Count /\ Done
    BY <1>2, <1>4 DEF Count, Done
  <1> QED BY <1>1, <1>5, <1>6, Zenon DEF CountInv, Counting

LEMMA NextCount ==
    ASSUME CardinalityFacts, OneGraphs, CountInv, FirstInv', [Next]_vars
    PROVE  CountInv'
  <1>1. FirstInv /\ FirstInv'
    BY DEF CountInv
  <1> SUFFICES ASSUME n_posts' <= 1 PROVE Counting'
    BY <1>1 DEF CountInv
  <1>2. n_posts \in Nat /\ n_posts' \in {n_posts, n_posts + 1}
    BY <1>1, PostsGrow DEF FirstInv
  <1>3. Inv /\ Inv' /\ Counting
    BY <1>1, <1>2 DEF FirstInv, CountInv
  <1>4. CASE UNCHANGED vars
    BY <1>3, <1>4, UnchangedCount DEF vars, taskvars, uservars
  <1>5. ASSUME NEW t \in req.callers,
               Step(t) \/ Progress(t) \/ UserPost(t) \/ UserTest(t)
                       \/ UserFinalize(t)
        PROVE  Counting'
    <2>1. t \in Threads
      BY <1>3, <1>5, GraphFacts DEF Inv
    <2>2. CASE Step(t)
      <3> USE <1>3, <2>1
      <3>1. CASE Notify(t) \/ DependencyTest(t) \/ DependencyAdd(t)
                           \/ DependencyStarted(t)
        BY <3>1, NotifyCount, DependencyCount, Zenon
      <3>2. CASE CompleteNotify(t) \/ CompleteFinish(t) \/ ErrorHandler(t)
                                   \/ ReturnOwn(t)
        BY <3>2, CompleteNotifyCount, CompleteFinishCount, ErrorHandlerCount,
           ReturnOwnCount, Zenon
      <3>3. CASE ScheduleCompletedAdd(t) \/ ScheduleCompletedTest(t)
        BY <3>3, ScheduleCompletedAddCount, ScheduleCompletedTestCount, Zenon
      <3>4. CASE PostTask(t) \/ ScheduleStart(t) \/ UserPosted(t)
        BY <3>4, PostTaskCount, ScheduleStartCount, UserPostedCount, Zenon
      <3> QED BY <2>2, <3>1, <3>2, <3>3, <3>4, Zenon DEF Step
    <2>3. CASE UserTest(t) \/ UserFinalize(t)
      BY <1>3, <2>3, UnchangedCount, Zenon DEF UserTest, UserFinalize, taskvars
    <2>4. CASE UserPost(t)
      <3>1. n_posts = 0
        BY <1>2, <2>4 DEF UserPost
      <3> QED BY <1>3, <2>1, <2>4, <3>1, UserPostCount
    <2> QED BY <1>3, <1>5, <2>1, <2>2, <2>3, <2>4, ProgressCount
  <1> QED BY <1>4, <1>5 DEF Next

-----------------------------------------------------------------------------
(* Requests whose tasks all succeed: the inductive invariant               *)

\* No call fails, and a task that completes has succeeded.
SmoothFrame(f) ==
    /\ f.fn # "error"
    /\ f.fn = "notify" => f.arg # "ERROR"
    /\ f.fn = "return" => f.local = "OK"
    /\ f.fn = "complete" => status[f.task] = "OK"
    /\ f.fn = "complete" /\ f.at = 2 => f.local = "OK"

SmoothFrames == \A t \in Threads : \A d \in 1 .. H(t) : SmoothFrame(At(t, d))

SmoothEnds ==
    \A x \in Tasks :
        IsLeaf(x) /\ n_runs[x] = 1 /\ x \notin queued => status[x] = "OK"

\* the user sees the request as complete once it is
Seen ==
    /\ ustatus[Root] \notin Failed
    /\ ustatus[Root] = "OK" =>
         n_runs[Root] = 1 /\ status[Root] = "OK" /\ Root \notin queued

UserOK ==
    /\ user \in {"idle", "finalized"} /\ n_posts > 0 => ustatus[Root] = "OK"
    /\ user = "finalized" => n_posts > 0
    /\ user # "failed"

Smooth ==
    /\ \A t \in Threads : ret[t] = "OK"
    /\ SmoothFrames /\ SmoothEnds /\ Seen /\ UserOK

\* the requests the results are about
Succeeding == \A r \in Requests : r.outcomes = {"OK"}

SmoothInv == CountInv /\ (n_posts <= 1 => Smooth)

-----------------------------------------------------------------------------
(* No failure                                                              *)

\* a frame that is smooth whatever the tasks are
Mild(f) ==
    \/ f.fn \notin {"error", "notify", "return", "complete"}
    \/ f.fn = "notify" /\ f.arg # "ERROR"
    \/ f.fn = "return" /\ f.local = "OK"

LEMMA SmoothTop ==
    ASSUME Inv, Smooth, NEW t \in Threads, stack[t] # << >>
    PROVE  SmoothFrame(Top(t)) /\ ret[t] = "OK"
  <1>1. H(t) \in 1 .. H(t) /\ Top(t) = At(t, H(t))
    BY TopFrame DEF Inv
  <1> QED BY <1>1 DEF Smooth, SmoothFrames

LEMMA FramesKept ==
    ASSUME Inv, Smooth, NEW t \in Threads,
           \A x \in Tasks : \/ status'[x] \in {status[x], "OK"}
                            \/ n_runs[x] = 0
                            \/ x \in queued,
           \A u \in Threads : \A d \in 1 .. H(u)' :
              \/ Other(t, u, d) /\ At(u, d)' = At(u, d)
              \/ SmoothFrame(At(u, d))'
    PROVE  SmoothFrames'
  <1> SUFFICES ASSUME NEW u \in Threads, NEW d \in 1 .. H(u)'
               PROVE  SmoothFrame(At(u, d))'
    BY DEF SmoothFrames
  <1>1. CASE SmoothFrame(At(u, d))'
    BY <1>1
  <1>2. CASE Other(t, u, d) /\ At(u, d)' = At(u, d)
    <2>1. PICK f : f = At(u, d)
      BY Zenon
    <2>2. SmoothFrame(f) /\ FrameOK(f) /\ f \in FrameType
      BY <1>2, <2>1, FramesType, Zenon
         DEF Smooth, SmoothFrames, Inv, FramesOK, Other
    <2>3. f.fn = "complete" => status'[f.task] = "OK"
      BY <2>2 DEF SmoothFrame, FrameOK, FrameType
    <2>4. SmoothFrame(f)'
      BY <2>2, <2>3, Zenon DEF SmoothFrame
    <2> QED BY <1>2, <2>1, <2>4, Zenon DEF SmoothFrame
  <1> QED BY <1>1, <1>2

LEMMA MildSmooth ==
    ASSUME NEW f, Mild(f)
    PROVE  SmoothFrame(f) /\ SmoothFrame(f)'
  BY DEF Mild, SmoothFrame

LEMMA QuietSmooth ==
    ASSUME Inv, Smooth, NEW t \in Threads, stack[t] # << >>,
           UNCHANGED <<status, ustatus, queued, n_runs, user, n_posts, req>>,
           \/ Return(t, "OK")
           \/ \E g : Jump(t, g) /\ Mild(g)
           \/ \E f, g : Call(t, f, g) /\ SmoothFrame(f)' /\ Mild(g)
    PROVE  Smooth'
  <1>1. \A u \in Threads : ret'[u] = "OK"
    <2>1. ret' = [ret EXCEPT ![t] = "OK"]
      BY Zenon DEF Return, Jump, Call
    <2>2. ret \in [Threads -> Results] /\ \A u \in Threads : ret[u] = "OK"
      BY Zenon DEF Smooth, Inv, Types
    <2> QED BY <2>1, <2>2
  <1>2. ASSUME NEW u \in Threads, NEW d \in 1 .. H(u)'
        PROVE  \/ Other(t, u, d) /\ At(u, d)' = At(u, d)
               \/ SmoothFrame(At(u, d))'
    <2>1. CASE Return(t, "OK")
      BY <2>1, ReturnShape
    <2>2. CASE \E g : Jump(t, g) /\ Mild(g)
      <3>1. PICK g : Jump(t, g) /\ Mild(g)
        BY <2>2
      <3>2. \/ Other(t, u, d) /\ At(u, d)' = At(u, d)
            \/ At(u, d)' = g
        BY <3>1, JumpShape
      <3>3. SmoothFrame(g)'
        BY <3>1, MildSmooth
      <3> QED BY <3>2, <3>3, Zenon DEF SmoothFrame
    <2>3. CASE \E f, g : Call(t, f, g) /\ SmoothFrame(f)' /\ Mild(g)
      <3>1. PICK f, g : Call(t, f, g) /\ SmoothFrame(f)' /\ Mild(g)
        BY <2>3
      <3>2. \/ Other(t, u, d) /\ At(u, d)' = At(u, d)
            \/ At(u, d)' = f
            \/ At(u, d)' = g
        BY <3>1, CallShape
      <3>3. SmoothFrame(g)'
        BY <3>1, MildSmooth
      <3> QED BY <3>1, <3>2, <3>3, Zenon DEF SmoothFrame
    <2> QED BY <2>1, <2>2, <2>3, Zenon
  <1>3. SmoothFrames'
    BY <1>2, FramesKept
  <1>4. SmoothEnds' /\ Seen' /\ UserOK'
    BY
       DEF Smooth, SmoothEnds, Seen, UserOK, IsLeaf, IsSchedule, IsPipelined, Graph
  <1> QED BY <1>1, <1>3, <1>4 DEF Smooth

LEMMA NotifySmooth ==
    ASSUME OneGraphs, Inv, Smooth, NEW t \in Threads, Notify(t)
    PROVE  Smooth'
  <1>1. PICK f, x : f = Top(t) /\ x = f.task
    BY Zenon
  <1>2. /\ stack[t] # << >> /\ f \in FrameType /\ f.fn = "notify" /\ x \in Tasks
        /\ FrameOK(f) /\ Running(t, "notify")
        /\ UNCHANGED <<status, ustatus, queued, n_runs, user, n_posts, req>>
    BY <1>1, TopOK DEF Notify, taskvars, uservars, FrameType
  <1>3. f.arg # "ERROR" /\ ret[t] = "OK"
    BY <1>1, <1>2, SmoothTop DEF SmoothFrame
  <1>4. CASE NextListener(x, f.arg, f.at) = {}
    <2>1. Return(t, "OK")
      BY <1>1, <1>3, <1>4 DEF Notify
    <2> QED BY <1>2, <2>1, QuietSmooth
  <1>5. CASE NextListener(x, f.arg, f.at) # {}
    <2>1. PICK k \in NextListener(x, f.arg, f.at) :
             Call(t, [f EXCEPT !.at = k + 1], HandlerFrame(x, f.arg, Listeners(x)[k]))
      BY <1>1, <1>3, <1>5, Zenon DEF Notify
    <2>2. PICK l, h, g : /\ l = Listeners(x)[k]
                         /\ h = [f EXCEPT !.at = k + 1]
                         /\ g = HandlerFrame(x, f.arg, l)
      BY Zenon
    <2>3. IsListener(Graph, Root, x, l)
      BY <1>1, <1>2, <2>2, NotifyCall, Zenon
    <2>4. h.fn = "notify" /\ h.arg = f.arg /\ Call(t, h, g)
      BY <1>2, <2>1, <2>2 DEF FrameType
    <2>5. g.fn \in {"post", "dependency", "schedule_completed"}
      BY <1>3, <2>2, <2>3, Zenon DEF HandlerFrame, Frame, IsListener
    <2>6. Mild(h) /\ Mild(g)
      BY <1>3, <2>4, <2>5 DEF Mild
    <2>7. SmoothFrame(h)'
      BY <2>6, MildSmooth
    <2> QED BY <1>2, <2>4, <2>6, <2>7, QuietSmooth, Zenon
  <1> QED BY <1>4, <1>5

LEMMA CompleteNotifySmooth ==
    ASSUME OneGraphs, Inv, Smooth, NEW t \in Threads, CompleteNotify(t)
    PROVE  Smooth'
  <1>1. PICK f, x : f = Top(t) /\ x = f.task
    BY Zenon
  <1>2. PICK h, g : /\ h = [f EXCEPT !.at = 2, !.local = status[x]]
                    /\ g = NotifyFrame(x, CompletionEvent(status[x]))
    BY Zenon
  <1>3. /\ stack[t] # << >> /\ f \in FrameType /\ f.fn = "complete"
        /\ Call(t, h, g)
        /\ UNCHANGED <<status, ustatus, queued, n_runs, user, n_posts, req>>
    BY <1>1, <1>2, TopOK, Zenon DEF CompleteNotify, taskvars, uservars
  <1>4. status[x] = "OK"
    BY <1>1, <1>3, SmoothTop DEF SmoothFrame
  <1>5. h.fn = "complete" /\ h.task = x /\ h.local = "OK"
    BY <1>1, <1>2, <1>3, <1>4 DEF FrameType
  <1>6. g.fn = "notify" /\ g.arg = "COMPLETED"
    BY <1>2, <1>4 DEF NotifyFrame, Frame, CompletionEvent
  <1>7. SmoothFrame(h)' /\ Mild(g)
    BY <1>3, <1>4, <1>5, <1>6 DEF SmoothFrame, Mild
  <1> QED BY <1>3, <1>7, QuietSmooth

LEMMA ReturnOwnSmooth ==
    ASSUME OneGraphs, Inv, Smooth, NEW t \in Threads, ReturnOwn(t)
    PROVE  Smooth'
  <1>1. PICK f : f = Top(t)
    BY Zenon
  <1>2. /\ stack[t] # << >> /\ f.fn = "return"
        /\ UNCHANGED <<status, ustatus, queued, n_runs, user, n_posts, req>>
        /\ Return(t, f.local)
    BY <1>1, TopOK DEF ReturnOwn, taskvars, uservars
  <1>3. f.local = "OK"
    BY <1>1, <1>2, SmoothTop DEF SmoothFrame
  <1> QED BY <1>2, <1>3, QuietSmooth

LEMMA DependencySmooth ==
    ASSUME OneGraphs, Inv, Smooth, NEW t \in Threads,
           DependencyAdd(t) \/ DependencyTest(t) \/ DependencyStarted(t)
    PROVE  Smooth'
  <1>1. PICK f, x : f = Top(t) /\ x = f.task
    BY Zenon
  <1>2. /\ stack[t] # << >> /\ f \in FrameType /\ f.fn = "dependency"
        /\ UNCHANGED <<status, ustatus, queued, n_runs, user, n_posts, req>>
    BY <1>1, TopOK, Zenon
       DEF DependencyAdd, DependencyTest, DependencyStarted, taskvars,
                       uservars
  <1>3. CASE DependencyAdd(t)
    <2>1. PICK g : g = [f EXCEPT !.at = 2, !.n = <<n_satisfied[x]>>]
      BY Zenon
    <2>2. Jump(t, g)
      BY <1>1, <1>3, <2>1 DEF DependencyAdd
    <2>3. g.fn = "dependency"
      BY <1>2, <2>1 DEF FrameType
    <2>4. Mild(g)
      BY <2>3 DEF Mild
    <2> QED BY <1>2, <2>2, <2>4, QuietSmooth
  <1>4. CASE DependencyTest(t)
    <2>1. PICK h, g : h = [f EXCEPT !.at = 3] /\ g = Frame("post", x, f.arg)
      BY Zenon
    <2>2. Return(t, "OK") \/ Call(t, h, g)
      BY <1>1, <1>4, <2>1 DEF DependencyTest
    <2>3. h.fn = "dependency" /\ g.fn = "post"
      BY <1>2, <2>1 DEF FrameType, Frame
    <2>4. Mild(h) /\ Mild(g)
      BY <2>3 DEF Mild
    <2>5. SmoothFrame(h)'
      BY <2>4, MildSmooth
    <2> QED BY <1>2, <2>2, <2>4, <2>5, QuietSmooth
  <1>5. CASE DependencyStarted(t)
    <2>1. PICK h, g : h = ReturnFrame(x, "OK") /\ g = NotifyFrame(x, "TASK_STARTED")
      BY Zenon
    <2>2. ret[t] = "OK" /\ Call(t, h, g)
      BY <1>1, <1>2, <1>5, <2>1, SmoothTop, Zenon DEF DependencyStarted, Failed
    <2>3. h.fn = "return" /\ h.local = "OK" /\ g.fn = "notify" /\ g.arg = "TASK_STARTED"
      BY <2>1 DEF ReturnFrame, NotifyFrame, Frame
    <2>4. Mild(h) /\ Mild(g)
      BY <2>3 DEF Mild
    <2>5. SmoothFrame(h)'
      BY <2>4, MildSmooth
    <2> QED BY <1>2, <2>2, <2>4, <2>5, QuietSmooth, Zenon
  <1> QED BY <1>3, <1>4, <1>5

LEMMA ScheduleCompletedAddSmooth ==
    ASSUME OneGraphs, Inv, Smooth, NEW t \in Threads, ScheduleCompletedAdd(t)
    PROVE  Smooth'
  <1>1. PICK f, g : /\ f = Top(t)
                    /\ g = [f EXCEPT !.at = 2, !.n = <<n_completed[f.task]>>]
    BY Zenon
  <1>2. /\ stack[t] # << >> /\ f \in FrameType /\ f.fn = "schedule_completed"
        /\ UNCHANGED <<status, ustatus, queued, n_runs, user, n_posts, req>>
        /\ Jump(t, g)
    BY <1>1, TopOK DEF ScheduleCompletedAdd, uservars
  <1>3. g.fn = "schedule_completed"
    BY <1>1, <1>2 DEF FrameType
  <1>4. Mild(g)
    BY <1>3 DEF Mild
  <1> QED BY <1>2, <1>4, QuietSmooth

LEMMA ErrorHandlerSmooth ==
    ASSUME OneGraphs, Inv, Smooth, NEW t \in Threads, ErrorHandler(t)
    PROVE  FALSE
  <1>1. PICK f : f = Top(t)
    BY Zenon
  <1>2. stack[t] # << >> /\ f.fn = "error"
    BY <1>1, TopOK DEF ErrorHandler
  <1> QED BY <1>1, <1>2, SmoothTop DEF SmoothFrame

LEMMA CompleteFinishSmooth ==
    ASSUME OneGraphs, Inv, Smooth, NEW t \in Threads, CompleteFinish(t)
    PROVE  /\ Smooth'
           /\ UNCHANGED <<status, queued, n_runs, user, n_posts, released, req>>
           /\ ustatus'[Root] # ustatus[Root] =>
                 ustatus'[Root] = "OK" /\ n_runs[Root] = 1 /\ status[Root] = "OK"
  <1>1. PICK f, x, g : /\ f = Top(t) /\ x = f.task
                       /\ g = NotifyFrame(x, "COMPLETED_SCHEDULE")
    BY Zenon
  <1>2. /\ stack[t] # << >> /\ f \in FrameType /\ f.fn = "complete" /\ f.at = 2
        /\ FrameOK(f)
    BY <1>1, TopOK, Zenon DEF CompleteFinish
  <1>3. f.local = "OK" /\ ret[t] = "OK" /\ status[x] = "OK"
    BY <1>1, <1>2, SmoothTop DEF SmoothFrame
  <1>4. FinalStatus(x, f.local, ret[t]) = "OK"
    BY <1>3 DEF FinalStatus
  <1>5. /\ ustatus' = [ustatus EXCEPT ![x] = "OK"]
        /\ Jump(t, g) \/ Return(t, "OK")
        /\ UNCHANGED <<status, queued, n_runs, user, n_posts, released, req>>
    BY <1>1, <1>4, Zenon DEF CompleteFinish, uservars
  <1>6. n_runs[x] = 1 /\ x \notin queued /\ x \in Tasks
    BY <1>1, <1>2, Zenon DEF FrameOK, FrameType
  <1>7. \A u \in Threads : ret'[u] = "OK"
    <2>1. ret' = [ret EXCEPT ![t] = "OK"]
      BY <1>5, Zenon DEF Return, Jump
    <2>2. ret \in [Threads -> Results] /\ \A u \in Threads : ret[u] = "OK"
      BY DEF Smooth, Inv, Types
    <2> QED BY <2>1, <2>2
  <1>8. SmoothFrames'
    <2>1. g.fn = "notify" /\ g.arg # "ERROR"
      BY <1>1 DEF NotifyFrame, Frame
    <2>2. SmoothFrame(g)'
      BY <2>1 DEF SmoothFrame
    <2>3. ASSUME NEW u \in Threads, NEW d \in 1 .. H(u)'
          PROVE  \/ Other(t, u, d) /\ At(u, d)' = At(u, d)
                 \/ At(u, d)' = g
      BY <1>2, <1>5, JumpShape, ReturnShape
    <2>4. ASSUME NEW u \in Threads, NEW d \in 1 .. H(u)'
          PROVE  \/ Other(t, u, d) /\ At(u, d)' = At(u, d)
                 \/ SmoothFrame(At(u, d))'
      BY <2>2, <2>3, Zenon DEF SmoothFrame
    <2>5. \A y \in Tasks : status'[y] \in {status[y], "OK"}
      BY <1>5
    <2> QED BY <2>4, <2>5, FramesKept
  <1>9. ustatus'[Root] # ustatus[Root] => x = Root /\ ustatus'[Root] = "OK"
    BY <1>5, <1>6, ScheduleAssumption, Zenon DEF Inv, Types
  <1>10. SmoothEnds'
    BY <1>5 DEF Smooth, SmoothEnds, IsLeaf, IsSchedule, IsPipelined, Graph
  <1>11. Seen' /\ UserOK'
    BY <1>3, <1>5, <1>6, <1>9, Zenon DEF Smooth, Seen, UserOK, Failed
  <1> QED BY <1>3, <1>5, <1>6, <1>7, <1>8, <1>9, <1>10, <1>11, Zenon DEF Smooth

LEMMA ScheduleCompletedTestSmooth ==
    ASSUME OneGraphs, Inv, Smooth, NEW t \in Threads, ScheduleCompletedTest(t)
    PROVE  /\ Smooth'
           /\ UNCHANGED <<ustatus, queued, n_runs, user, n_posts, released, req>>
           /\ status' = status \/ status' = [status EXCEPT ![Root] = "OK"]
           /\ IsSchedule(Root)
  <1>1. PICK f : f = Top(t)
    BY Zenon
  <1>2. /\ stack[t] # << >> /\ f \in FrameType /\ f.fn = "schedule_completed"
        /\ FrameOK(f) /\ f.at = 2
        /\ UNCHANGED <<ustatus, queued, n_runs, user, n_posts, released, req>>
    BY <1>1, TopOK, Zenon DEF ScheduleCompletedTest, uservars
  <1>3. f.task = Root /\ f.arg \in Parts /\ Root \in Tasks
    BY <1>2, PartsFacts, Zenon DEF FrameOK
  <1>4. IsSchedule(Root)
    BY <1>3, PartsFacts
  <1>5. CASE Return(t, "OK") /\ status' = status
    BY <1>2, <1>4, <1>5, QuietSmooth
  <1>6. CASE ~(Return(t, "OK") /\ status' = status)
    <2>1. PICK h, g : h = ReturnFrame(Root, "OK") /\ g = CompleteFrame(Root)
      BY Zenon
    <2>2. status' = [status EXCEPT ![Root] = "OK"] /\ Call(t, h, g)
      BY <1>1, <1>3, <1>6, <2>1 DEF ScheduleCompletedTest
    <2>3. /\ h.fn = "return" /\ h.local = "OK"
          /\ g.fn = "complete" /\ g.task = Root /\ g.at = 1
      BY <2>1 DEF ReturnFrame, CompleteFrame, Frame
    <2>4. /\ status'[Root] = "OK"
          /\ \A y \in Tasks : status'[y] \in {status[y], "OK"}
      BY <1>3, <2>2 DEF Inv, Types
    <2>5. SmoothFrame(h)' /\ SmoothFrame(g)'
      BY <2>3, <2>4 DEF SmoothFrame
    <2>6. ASSUME NEW u \in Threads, NEW d \in 1 .. H(u)'
          PROVE  \/ Other(t, u, d) /\ At(u, d)' = At(u, d)
                 \/ At(u, d)' = h
                 \/ At(u, d)' = g
      BY <1>2, <2>2, CallShape
    <2>7. ASSUME NEW u \in Threads, NEW d \in 1 .. H(u)'
          PROVE  \/ Other(t, u, d) /\ At(u, d)' = At(u, d)
                 \/ SmoothFrame(At(u, d))'
      BY <2>5, <2>6, Zenon DEF SmoothFrame
    <2>8. SmoothFrames'
      BY <2>4, <2>7, FramesKept
    <2>9. \A u \in Threads : ret'[u] = "OK"
      <3>1. ret' = [ret EXCEPT ![t] = "OK"]
        BY <2>2 DEF Call
      <3>2. ret \in [Threads -> Results] /\ \A u \in Threads : ret[u] = "OK"
        BY DEF Smooth, Inv, Types
      <3> QED BY <3>1, <3>2
    <2>10. SmoothEnds'
      BY <1>2, <2>4
         DEF Smooth, SmoothEnds, IsLeaf, IsSchedule, IsPipelined, Graph
    <2>11. Seen' /\ UserOK'
      BY <1>2, <2>4, Zenon DEF Smooth, Seen, UserOK
    <2> QED BY <1>2, <1>4, <2>2, <2>8, <2>9, <2>10, <2>11 DEF Smooth
  <1> QED BY <1>5, <1>6

LEMMA UserPostedSmooth ==
    ASSUME OneGraphs, Inv, Smooth, NEW t \in Threads, UserPosted(t)
    PROVE  Smooth'
  <1>1. /\ stack[t] # << >> /\ Return(t, "OK")
        /\ UNCHANGED <<status, ustatus, queued, n_runs, n_posts, req>>
    BY TopOK DEF UserPosted, taskvars
  <1>2. ret[t] = "OK"
    BY <1>1, SmoothTop
  <1>3. user' = "waiting"
    BY <1>2 DEF UserPosted, Failed
  <1>4. \A u \in Threads : ret'[u] = "OK"
    BY <1>1, Zenon DEF Return, Smooth, Inv, Types
  <1>5. SmoothFrames'
    BY <1>1, ReturnShape, FramesKept
  <1>6. SmoothEnds' /\ Seen'
    BY <1>1, Zenon
       DEF Smooth, SmoothEnds, Seen, IsLeaf, IsSchedule, IsPipelined, Graph
  <1>7. UserOK'
    BY <1>3 DEF UserOK
  <1> QED BY <1>4, <1>5, <1>6, <1>7 DEF Smooth
=============================================================================
