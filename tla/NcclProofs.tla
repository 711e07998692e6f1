----------------------------- MODULE NcclProofs -----------------------------
(***************************************************************************)
(* TL nccl with any number of ranks, any list of collectives and failures  *)
(* of any steps of any ranks: what a rank makes of a collective depends on *)
(* the collectives and on its own failures alone, so the ranks agree on it *)
(* where they fail alike, although each goes its own way.                  *)
(***************************************************************************)
EXTENDS Nccl, TLAPS

Places == {"start", "oob", "comm", "idle", "ready", "posted", "final", "end",
           "gone", "kept"}
Comms == {"none", "OOB", "INIT_TEAM", "READY", "ERROR"}
Base == {"team", "unique_id"}
Handles == {"task", "event", "scratch", "stream", "comm"} \cup Base
Outcomes == {"ok", "failed", "captured", "refused", "skipped"}

RankType ==
    [pc : Places, comm : Comms, ret : {"none", "create", "coll"},
     i : Nat \ {0}, held : SUBSET Handles, res : Seq(Outcomes), evs : Nat,
     aborted : BOOLEAN]

-----------------------------------------------------------------------------
(* What a rank holds, and what a failure leaves                            *)

HasFailed(me) == \E k \in 1 .. Len(me.res) : me.res[k] = "failed"

\* the collective a rank is at, and the results it has
AtOp(me) ==
    /\ me.pc \in {"start", "oob"} => me.i = 1 /\ me.res = << >>
    /\ me.pc \in {"comm", "idle", "ready", "posted"} => Len(me.res) = me.i - 1
    /\ me.pc \in {"comm", "ready", "posted", "final"} /\ me.ret # "create" =>
         me.i <= Len(sc.ops)
    /\ me.pc \in {"ready", "posted", "final"} => me.i <= Len(sc.ops)
    /\ me.pc = "final" => Len(me.res) = me.i

\* tasks are held between init and finalize only, the communicator once ready
Holding(me) ==
    /\ me.pc \notin {"ready", "posted", "final"} =>
         me.held \subseteq {"stream", "comm"} \cup Base
    /\ me.pc \notin {"start", "gone"} => Base \subseteq me.held
    /\ me.pc = "gone" => me.held = {"unique_id"}
    /\ me.pc = "kept" => me.held = Base
    /\ me.pc \notin {"gone", "kept"} /\ me.comm = "READY" => "comm" \in me.held
    /\ me.pc \in {"ready", "posted", "final"} => me.comm = "READY"
    /\ me.pc \in {"oob", "comm"} => me.comm \in {"OOB", "INIT_TEAM"}
    /\ me.pc # "start" => me.comm # "none"

\* a failure is followed by refusals only, and by the abort
Failing(me) ==
    /\ \A k \in 1 .. Len(me.res) : me.res[k] = "failed" =>
         \A j \in k + 1 .. Len(me.res) : me.res[j] \in {"refused", "skipped"}
    /\ HasFailed(me) =>
         /\ me.pc \notin {"final", "gone", "kept"} => me.comm = "ERROR" /\ "comm" \in me.held
         /\ me.pc = "final" => me.res[me.i] = "failed"
         /\ me.pc \in {"gone", "kept"} => me.aborted

RankOK(me) == me \in RankType /\ AtOp(me) /\ Holding(me) /\ Failing(me)

Inv ==
    /\ sc \in Scenarios
    /\ DOMAIN rank = Team
    /\ rank = [r \in Team |-> rank[r]]
    /\ \A r \in Team : RankOK(rank[r])

-----------------------------------------------------------------------------
(* What becomes of the i-th collective, from the scenario and the rank's   *)
(* own results                                                             *)

Failed(r, what) == Fails(r, what, 0)
NoId == Fails(0, "id", 0)

\* a collective that would build the communicator
Builds(i) == Op(i).set = <<>> /\ Op(i).dt # "user"
Tried(i) == (~sc.lazy /\ ~NoId) \/ \E k \in 1 .. i - 1 : Builds(k)

TaskFails(r, i) ==
    \/ sc.sync = "event" /\ Fails(r, "event", i)
    \/ ~Supported(Op(i))
    \/ NeedsScratch(Op(i)) /\ Fails(r, "scratch", i)
Broken(res, i) == \E k \in 1 .. i - 1 : res[k] = "failed"

NoComm(r) == Failed(r, "comm") \/ NoId
CommIf(r, tried, broken) ==
    IF ~tried \/ Failed(r, "stream")
    THEN IF NoId THEN "OOB" ELSE "INIT_TEAM"
    ELSE IF NoComm(r) \/ broken THEN "ERROR" ELSE "READY"
CommAt(r, res, i) == CommIf(r, Tried(i), Broken(res, i))
\* the communicator after a collective that is passed over
NextComm(r, me) == CommIf(r, Tried(me.i + 1), Broken(me.res, me.i))
Refuses(r, res, i) ==
    \/ Op(i).dt = "user" \/ TaskFails(r, i)
    \/ Failed(r, "stream") \/ NoComm(r) \/ Broken(res, i)
    \/ ~(Tried(i) \/ Builds(i))

\* the results so far, and the communicator, are the ones of the scenario
Results(r, me) ==
    \A k \in 1 .. Len(me.res) :
      /\ me.res[k] = "skipped" <=> ~Member(Op(k), r)
      /\ Member(Op(k), r) => (me.res[k] = "refused" <=> Refuses(r, me.res, k))
Course(r, me) ==
    /\ Results(r, me)
    /\ me.pc = "oob" => me.comm = "OOB"
    /\ me.pc = "idle" => me.comm = CommAt(r, me.res, me.i)
    /\ me.pc \in {"ready", "posted", "final"} =>
         ~Refuses(r, me.res, me.i) /\ Member(Op(me.i), r)
    /\ me.pc = "comm" => ~Failed(r, "stream")
    /\ me.pc = "comm" /\ me.ret = "create" => me.i = 1 /\ ~sc.lazy /\ ~NoId
    /\ me.pc = "comm" /\ me.ret # "create" =>
         Member(Op(me.i), r) /\ Builds(me.i) /\ ~Tried(me.i)
Courses == \A r \in Team : Course(r, rank[r])

-----------------------------------------------------------------------------
(* The records that the helpers of the actions write                       *)

\* a rank between two collectives, whatever it goes on to
Pending(me) ==
    /\ me \in RankType
    /\ Len(me.res) = me.i - 1
    /\ Base \subseteq me.held /\ me.held \subseteq {"stream", "comm"} \cup Base
    /\ me.comm # "none" /\ (me.comm = "READY" => "comm" \in me.held)
    /\ \A k \in 1 .. Len(me.res) : me.res[k] = "failed" =>
         \A j \in k + 1 .. Len(me.res) : me.res[j] \in {"refused", "skipped"}
    /\ HasFailed(me) => me.comm = "ERROR" /\ "comm" \in me.held

Passed(me, outcome) ==
    [me EXCEPT !.pc = "idle", !.i = @ + 1, !.res = Append(@, outcome)]
Ended(me, outcome, evs) ==
    [me EXCEPT !.pc = "final", !.res = Append(@, outcome), !.evs = evs]

LEMMA Shape ==
  ASSUME sc \in Scenarios
  PROVE  Len(sc.ops) \in Nat
<1>1. PICK S : sc.ops \in Seq(S)
  BY NcclAssumption, Zenon
<1> QED
  BY <1>1

LEMMA Change ==
  ASSUME Inv, UNCHANGED sc, NEW r \in Team, NEW new,
         RankOK(new), rank' = [rank EXCEPT ![r] = new]
  PROVE  Inv'
<1>1. Team' = Team
  BY DEF Team
<1>2. \A q \in Team : rank'[q] = IF q = r THEN new ELSE rank[q]
  BY DEF Inv
<1>3. DOMAIN rank' = Team /\ rank' = [q \in Team |-> rank'[q]]
  BY DEF Inv
<1>4. \A q \in Team : RankOK(rank'[q])
  BY <1>2 DEF Inv
<1>5. \A q \in Team : RankOK(rank'[q]) <=> RankOK(rank[q])'
  BY DEF RankOK, AtOp, Holding, Failing, HasFailed
<1> QED
  BY <1>1, <1>3, <1>4, <1>5, Zenon DEF Inv

LEMMA PassedOK ==
  ASSUME NEW me, Pending(me), NEW outcome \in {"refused", "skipped"}
  PROVE  RankOK(Passed(me, outcome))
<1> DEFINE new == Passed(me, outcome)
<1>0. me.i + 1 \in Nat \ {0} /\ Append(me.res, outcome) \in Seq(Outcomes)
  BY DEF Pending, RankType, Outcomes
<1>1. new \in RankType
  BY <1>0, Zenon DEF Passed, Pending, RankType, Places
<1>2. /\ new.pc = "idle" /\ new.i = me.i + 1 /\ new.comm = me.comm
      /\ new.held = me.held /\ new.res = Append(me.res, outcome)
  BY DEF Passed, Pending, RankType
<1>3. /\ Len(new.res) = Len(me.res) + 1
      /\ Len(me.res) \in Nat
      /\ new.res[Len(me.res) + 1] = outcome
      /\ \A k \in 1 .. Len(me.res) : new.res[k] = me.res[k]
  BY <1>2 DEF Pending, RankType
<1> HIDE DEF new
<1>4. AtOp(new)
  BY <1>2, <1>3 DEF AtOp, Pending, RankType
<1>5. Holding(new)
  BY <1>2 DEF Holding, Pending
<1>6. HasFailed(new) => HasFailed(me)
  BY <1>3 DEF HasFailed
<1>7. Failing(new)
  <2>1. \A k \in 1 .. Len(new.res) : new.res[k] = "failed" =>
          \A j \in k + 1 .. Len(new.res) : new.res[j] \in {"refused", "skipped"}
    <3> SUFFICES ASSUME NEW k \in 1 .. Len(new.res), new.res[k] = "failed",
                        NEW j \in k + 1 .. Len(new.res)
                 PROVE  new.res[j] \in {"refused", "skipped"}
      OBVIOUS
    <3>1. CASE j = Len(me.res) + 1
      BY <3>1, <1>3
    <3>2. CASE j # Len(me.res) + 1
      <4>1. /\ k \in 1 .. Len(me.res) /\ j \in 1 .. Len(me.res)
            /\ j \in k + 1 .. Len(me.res)
        BY <3>2, <1>3
      <4>2. me.res[k] = "failed" /\ new.res[j] = me.res[j]
        BY <4>1, <1>3, Zenon
      <4> QED
        BY <4>1, <4>2 DEF Pending
    <3> QED
      BY <3>1, <3>2
  <2> QED
    BY <2>1, <1>2, <1>6 DEF Failing, Pending
<1> QED
  BY <1>1, <1>4, <1>5, <1>7 DEF RankOK, new

LEMMA ReadyOK ==
  ASSUME sc \in Scenarios, NEW me, Pending(me), me.comm = "READY",
         me.i <= Len(sc.ops), NEW needs \in SUBSET Handles
  PROVE  RankOK([me EXCEPT !.pc = "ready", !.held = @ \cup needs])
<1> DEFINE new == [me EXCEPT !.pc = "ready", !.held = @ \cup needs]
<1>1. new \in RankType
  BY Zenon DEF Pending, RankType, Places
<1>2. /\ new.pc = "ready" /\ new.i = me.i /\ new.comm = "READY"
      /\ new.held = me.held \cup needs /\ new.res = me.res
  BY DEF Pending, RankType
<1>3. ~HasFailed(new)
  BY <1>2 DEF Pending, HasFailed
<1>4. AtOp(new)
  BY <1>2 DEF AtOp, Pending
<1>5. Holding(new)
  BY <1>2 DEF Holding, Pending
<1>6. Failing(new)
  BY <1>2, <1>3 DEF Failing, Pending
<1> QED
  BY <1>1, <1>4, <1>5, <1>6 DEF RankOK

LEMMA CreatedOK ==
  ASSUME NEW me, Pending(me), NEW pc \in {"idle", "end"}
  PROVE  RankOK([me EXCEPT !.pc = pc])
<1> DEFINE new == [me EXCEPT !.pc = pc]
<1>1. new \in RankType
  BY Zenon DEF Pending, RankType, Places
<1>2. /\ new.pc = pc /\ new.i = me.i /\ new.comm = me.comm
      /\ new.held = me.held /\ new.res = me.res
  BY DEF Pending, RankType
<1>4. AtOp(new)
  BY <1>2 DEF AtOp, Pending
<1>5. Holding(new)
  BY <1>2 DEF Holding, Pending
<1>6. Failing(new)
  BY <1>2 DEF Failing, Pending, HasFailed
<1> QED
  BY <1>1, <1>4, <1>5, <1>6 DEF RankOK

LEMMA CallingOK ==
  ASSUME sc \in Scenarios, NEW me, Pending(me), me.comm \in {"OOB", "INIT_TEAM"},
         NEW ret \in {"create", "coll"}, ret = "create" \/ me.i <= Len(sc.ops)
  PROVE  RankOK([me EXCEPT !.pc = "comm", !.ret = ret, !.held = @ \cup {"stream"}])
<1> DEFINE new == [me EXCEPT !.pc = "comm", !.ret = ret, !.held = @ \cup {"stream"}]
<1>1. new \in RankType
  BY Zenon DEF Pending, RankType, Places, Handles
<1>2. /\ new.pc = "comm" /\ new.i = me.i /\ new.comm = me.comm /\ new.ret = ret
      /\ new.held = me.held \cup {"stream"} /\ new.res = me.res
  BY DEF Pending, RankType
<1>4. AtOp(new)
  BY <1>2 DEF AtOp, Pending
<1>5. Holding(new)
  BY <1>2 DEF Holding, Pending
<1>6. Failing(new)
  BY <1>2 DEF Failing, Pending, HasFailed
<1> QED
  BY <1>1, <1>4, <1>5, <1>6 DEF RankOK

-----------------------------------------------------------------------------
(* A step of a rank gives it a record that is right                        *)

Moved(r) == \E new : RankOK(new) /\ rank' = [rank EXCEPT ![r] = new]

LEMMA RefusedMoves ==
  ASSUME NEW r, NEW me, Pending(me), Refused(r, me)
  PROVE  Moved(r)
<1>1. RankOK(Passed(me, "refused"))
  BY PassedOK
<1>2. rank' = [rank EXCEPT ![r] = Passed(me, "refused")]
  BY Zenon DEF Refused, Passed
<1> QED
  BY <1>1, <1>2, Zenon DEF Moved

LEMMA TaskMoves ==
  ASSUME sc \in Scenarios, NEW r, NEW me, Pending(me), me.comm = "READY",
         me.i <= Len(sc.ops), Task(r, me)
  PROVE  Moved(r)
<1>1. PICK needs : needs =
        {"task"} \cup Event \cup (IF NeedsScratch(Op(me.i)) THEN {"scratch"} ELSE {})
  BY Zenon
<1>2. needs \in SUBSET Handles
  BY <1>1 DEF Event, Handles
<1>3. CASE Refused(r, me)
  BY <1>3, RefusedMoves
<1>4. CASE ~Refused(r, me)
  <2>1. rank' = [rank EXCEPT ![r] = [me EXCEPT !.pc = "ready", !.held = @ \cup needs]]
    BY <1>4, <1>1, Zenon DEF Task
  <2>2. RankOK([me EXCEPT !.pc = "ready", !.held = @ \cup needs])
    BY <1>2, ReadyOK, Zenon
  <2> QED
    BY <2>1, <2>2, Zenon DEF Moved
<1> QED
  BY <1>3, <1>4

LEMMA CreatedMoves ==
  ASSUME NEW r, NEW me, Pending(me), NEW status, Created(r, me, status)
  PROVE  Moved(r)
<1>1. PICK pc \in {"idle", "end"} : rank' = [rank EXCEPT ![r] = [me EXCEPT !.pc = pc]]
  BY Zenon DEF Created
<1>2. RankOK([me EXCEPT !.pc = pc])
  BY CreatedOK, Zenon
<1> QED
  BY <1>1, <1>2, Zenon DEF Moved

LEMMA CommInitMoves ==
  ASSUME sc \in Scenarios, NEW r, NEW me, Pending(me),
         me.comm \in {"OOB", "INIT_TEAM", "ERROR"},
         NEW ret \in {"create", "coll"}, ret = "create" \/ me.i <= Len(sc.ops),
         comm_init(r, me, ret)
  PROVE  Moved(r)
<1>1. ASSUME NEW status, status # "OK", Answer(r, me, ret, status)
      PROVE  Moved(r)
  BY <1>1, CreatedMoves, RefusedMoves, Zenon DEF Answer, TaskIf
<1>2. CASE me.comm = "ERROR"
  <2>1. Answer(r, me, ret, "NOT_SUPPORTED")
    BY <1>2 DEF comm_init
  <2> QED
    BY <2>1, <1>1
<1>3. CASE me.comm # "ERROR" /\ Fails(r, "stream", 0)
  <2>1. Answer(r, me, ret, "NO_MESSAGE")
    BY <1>3 DEF comm_init
  <2> QED
    BY <2>1, <1>1
<1>4. CASE me.comm # "ERROR" /\ ~Fails(r, "stream", 0)
  <2>1. rank' = [rank EXCEPT ![r] =
                   [me EXCEPT !.pc = "comm", !.ret = ret, !.held = @ \cup {"stream"}]]
    BY <1>4 DEF comm_init
  <2>2. RankOK([me EXCEPT !.pc = "comm", !.ret = ret, !.held = @ \cup {"stream"}])
    BY <1>4, CallingOK, Zenon
  <2> QED
    BY <2>1, <2>2, Zenon DEF Moved
<1> QED
  BY <1>2, <1>3, <1>4

LEMMA PendingIdle ==
  ASSUME NEW me, RankOK(me), me.pc \in {"oob", "comm", "idle"}
  PROVE  Pending(me)
<1>1. me \in RankType /\ Len(me.res) = me.i - 1
  BY DEF RankOK, AtOp
<1>2. /\ Base \subseteq me.held /\ me.held \subseteq {"stream", "comm"} \cup Base
      /\ me.comm # "none"
      /\ me.comm = "READY" => "comm" \in me.held
  BY DEF RankOK, Holding
<1>3. HasFailed(me) => me.comm = "ERROR" /\ "comm" \in me.held
  BY DEF RankOK, Failing
<1> QED
  BY <1>1, <1>2, <1>3, Zenon DEF Pending, RankOK, Failing

LEMMA TeamInitMoves ==
  ASSUME Inv, NEW r \in Team, TeamInit(r)
  PROVE  Moved(r)
<1> DEFINE new == [rank[r] EXCEPT !.pc = "oob", !.comm = "OOB", !.held = Base]
<1>0. RankOK(rank[r]) /\ rank[r].pc = "start"
  BY DEF Inv, TeamInit
<1>1. rank' = [rank EXCEPT ![r] = new]
  BY <1>0, Zenon DEF TeamInit, Inv, Base, RankOK, RankType
<1>2. new \in RankType
  BY <1>0, Zenon DEF RankOK, RankType, Places, Comms, Handles
<1>3. /\ new.pc = "oob" /\ new.comm = "OOB" /\ new.i = rank[r].i
      /\ new.res = rank[r].res /\ new.held = Base /\ new.ret = rank[r].ret
  BY <1>0 DEF RankOK, RankType
<1> HIDE DEF new
<1>4. new.i = 1 /\ new.res = << >> /\ Len(new.res) = 0
  BY <1>0, <1>3 DEF RankOK, AtOp
<1>5. AtOp(new) /\ Holding(new) /\ Failing(new)
  BY <1>0, <1>3, <1>4 DEF RankOK, AtOp, Holding, Failing, HasFailed
<1> QED
  BY <1>1, <1>2, <1>5, Zenon DEF Moved, RankOK

LEMMA CreateTestMoves ==
  ASSUME Inv, NEW r \in Team, team_create_test(r)
  PROVE  Moved(r)
<1>0. RankOK(rank[r]) /\ rank[r].pc = "oob"
  BY DEF Inv, team_create_test
<1>1. Pending(rank[r])
  BY <1>0, PendingIdle
<1>2. PICK me : me = [rank[r] EXCEPT !.comm = "INIT_TEAM"]
  BY Zenon
<1>3. me \in RankType /\ me.res = rank[r].res /\ me.i = rank[r].i
      /\ me.held = rank[r].held /\ me.comm = "INIT_TEAM"
  BY <1>1, <1>2, Zenon DEF Pending, RankType, Comms
<1>4. rank[r].res = << >>
  BY <1>0 DEF RankOK, AtOp
<1>5. Pending(me)
  BY <1>1, <1>3, <1>4 DEF Pending, HasFailed
<1>6. Created(r, rank[r], "OK") \/ Created(r, me, "OK") \/ comm_init(r, me, "create")
  BY <1>2, Zenon DEF team_create_test
<1> QED
  BY <1>1, <1>3, <1>5, <1>6, CreatedMoves, CommInitMoves DEF Inv

LEMMA InitTaskMoves ==
  ASSUME Inv, NEW r \in Team, init_task(r)
  PROVE  Moved(r)
<1>0. RankOK(rank[r]) /\ rank[r].pc = "idle" /\ rank[r].i <= Len(sc.ops)
  BY DEF Inv, init_task
<1>1. Pending(rank[r])
  BY <1>0, PendingIdle
<1>2. \/ Refused(r, rank[r])
      \/ rank[r].comm = "READY" /\ Task(r, rank[r])
      \/ rank[r].comm # "READY" /\ comm_init(r, rank[r], "coll")
  BY Zenon DEF init_task
<1>3. CASE rank[r].comm # "READY" /\ comm_init(r, rank[r], "coll")
  <2>1. rank[r].comm \in {"OOB", "INIT_TEAM", "ERROR"}
    BY <1>0, <1>3 DEF RankOK, RankType, Comms, Holding
  <2> QED
    BY <1>0, <1>1, <1>3, <2>1, CommInitMoves DEF Inv
<1> QED
  BY <1>0, <1>1, <1>2, <1>3, RefusedMoves, TaskMoves DEF Inv

LEMMA PassedFromIdle ==
  ASSUME NEW me \in RankType, me.pc = "idle", NEW outcome
  PROVE  [me EXCEPT !.i = @ + 1, !.res = Append(@, outcome)] = Passed(me, outcome)
<1>1. [me EXCEPT !.pc = "idle"] = me
  BY DEF RankType
<1> QED
  BY <1>1, Zenon DEF Passed

LEMMA TwiceExcept ==
  ASSUME NEW f, NEW r \in DOMAIN f, NEW a, NEW b
  PROVE  [[f EXCEPT ![r] = a] EXCEPT ![r] = b] = [f EXCEPT ![r] = b]
  BY Zenon

LEMMA SkipPasses ==
  ASSUME Inv, NEW r \in Team, Skip(r)
  PROVE  rank' = [rank EXCEPT ![r] = Passed(rank[r], "skipped")]
<1>1. r \in DOMAIN rank /\ rank[r] \in RankType /\ rank[r].pc = "idle"
  BY Zenon DEF Inv, Skip, RankOK
<1>2. rank' = [rank EXCEPT ![r].i = @ + 1, ![r].res = Append(@, "skipped")]
  BY Zenon DEF Skip
<1>3. rank' = [rank EXCEPT ![r] =
                 [rank[r] EXCEPT !.i = @ + 1, !.res = Append(@, "skipped")]]
  <2>1. PICK a : a = [rank[r] EXCEPT !.i = @ + 1]
    BY Zenon
  <2>2. [rank EXCEPT ![r] = a][r] = a
    BY <1>1, Zenon
  <2> QED
    BY <1>1, <1>2, <2>1, <2>2, TwiceExcept, Zenon
<1> QED
  BY <1>1, <1>3, PassedFromIdle, Zenon

LEMMA SkipMoves ==
  ASSUME Inv, NEW r \in Team, Skip(r)
  PROVE  Moved(r)
<1>0. RankOK(rank[r]) /\ rank[r].pc = "idle"
  BY DEF Inv, Skip
<1>1. RankOK(Passed(rank[r], "skipped"))
  BY <1>0, PendingIdle, PassedOK
<1>2. rank' = [rank EXCEPT ![r] = Passed(rank[r], "skipped")]
  BY <1>0, SkipPasses
<1> QED
  BY <1>1, <1>2, Zenon DEF Moved

LEMMA InitRankMoves ==
  ASSUME Inv, NEW r \in Team, CommInitRank(r)
  PROVE  Moved(r)
<1>0. RankOK(rank[r]) /\ rank[r].pc = "comm"
  BY DEF Inv, CommInitRank
<1>1. Pending(rank[r])
  BY <1>0, PendingIdle
<1>2. PICK ok : ok = (~Fails(r, "comm", 0) /\ ~Fails(0, "id", 0))
  BY Zenon
<1>3. PICK me : me = [rank[r] EXCEPT !.comm = IF ok THEN "READY" ELSE "ERROR",
                                     !.held = IF ok THEN @ \cup {"comm"} ELSE @]
  BY Zenon
<1>4. ok \in BOOLEAN
  BY <1>2
<1>5. /\ me \in RankType /\ me.res = rank[r].res /\ me.i = rank[r].i
      /\ me.ret = rank[r].ret
      /\ me.held = (IF ok THEN rank[r].held \cup {"comm"} ELSE rank[r].held)
      /\ me.comm = IF ok THEN "READY" ELSE "ERROR"
  BY <1>1, <1>3, Zenon DEF Pending, RankType, Comms, Handles
<1>6. ~HasFailed(rank[r])
  BY <1>0 DEF RankOK, Failing, Holding
<1>7. Pending(me)
  <2>1. ~HasFailed(me)
    BY <1>5, <1>6 DEF HasFailed
  <2> QED
    BY <1>1, <1>5, <2>1 DEF Pending, HasFailed
<1>8. IF me.ret = "create" THEN Created(r, me, IF ok THEN "OK" ELSE "NO_RESOURCE")
      ELSE TaskIf(r, me, IF ok THEN "OK" ELSE "NO_RESOURCE")
  BY <1>2, <1>3, Zenon DEF CommInitRank
<1>9. CASE me.ret = "create"
  BY <1>7, <1>8, <1>9, CreatedMoves
<1>10. CASE me.ret # "create" /\ ~ok
  <2>1. Refused(r, me)
    BY <1>8, <1>10 DEF TaskIf
  <2> QED
    BY <1>7, <2>1, RefusedMoves
<1>11. CASE me.ret # "create" /\ ok
  <2>1. Task(r, me)
    BY <1>8, <1>11 DEF TaskIf
  <2>2. me.i <= Len(sc.ops) /\ me.comm = "READY"
    BY <1>0, <1>5, <1>11 DEF RankOK, AtOp
  <2> QED
    BY <1>7, <2>1, <2>2, TaskMoves DEF Inv
<1> QED
  BY <1>4, <1>9, <1>10, <1>11

\* the end of a collective that was ready or posted
LEMMA EndedOK ==
  ASSUME Inv, NEW r \in Team, rank[r].pc \in {"ready", "posted"},
         NEW outcome \in {"ok", "failed", "captured"}, NEW evs \in Nat
  PROVE  RankOK(Ended(rank[r], outcome, evs))
<1> DEFINE me  == rank[r]
           new == Ended(me, outcome, evs)
<1>0. RankOK(me)
  BY DEF Inv
<1>1. Append(me.res, outcome) \in Seq(Outcomes)
  BY <1>0 DEF RankOK, RankType, Outcomes
<1>2. new \in RankType
  BY <1>0, <1>1, Zenon DEF Ended, RankOK, RankType, Places
<1>3. /\ new.pc = "final" /\ new.i = me.i /\ new.comm = me.comm
      /\ new.held = me.held /\ new.res = Append(me.res, outcome)
      /\ me.pc \in {"ready", "posted"}
  BY <1>0, Zenon DEF Ended, RankOK, RankType
<1> HIDE DEF new, me
<1>4. /\ Len(me.res) \in Nat /\ Len(new.res) = Len(me.res) + 1
      /\ new.res[Len(me.res) + 1] = outcome
      /\ \A k \in 1 .. Len(me.res) : new.res[k] = me.res[k]
  BY <1>0, <1>3 DEF RankOK, RankType
<1>5. Len(me.res) = me.i - 1 /\ me.i \in Nat /\ me.comm = "READY" /\ me.i <= Len(sc.ops)
  BY <1>0, <1>3 DEF RankOK, AtOp, Holding, RankType
<1>6. \A k \in 1 .. Len(me.res) : me.res[k] # "failed"
  BY <1>0, <1>3, <1>5, Zenon DEF RankOK, Failing, HasFailed
<1>7. AtOp(new)
  BY <1>3, <1>4, <1>5 DEF AtOp
<1>8. Holding(new)
  BY <1>0, <1>3, <1>5 DEF RankOK, Holding
<1>9. \A k \in 1 .. Len(new.res) : new.res[k] = "failed" => k = new.i
  BY <1>3, <1>4, <1>5, <1>6
<1>10. Failing(new)
  <2>1. Len(new.res) = new.i /\ new.i \in Nat
    BY <1>3, <1>4, <1>5
  <2>2. \A k \in 1 .. Len(new.res) : new.res[k] = "failed" => k + 1 .. Len(new.res) = {}
    BY <1>9, <2>1
  <2>3. HasFailed(new) => new.res[new.i] = "failed"
    BY <1>9, Zenon DEF HasFailed
  <2> QED
    BY <1>3, <2>2, <2>3, Zenon DEF Failing
<1> QED
  BY <1>2, <1>7, <1>8, <1>10 DEF RankOK, new, me

LEMMA PostEnds ==
  ASSUME Inv, NEW r \in Team, Post(r)
  PROVE  \/ \E outcome \in {"ok", "failed", "captured"} : \E evs \in Nat :
              rank' = [rank EXCEPT ![r] = Ended(rank[r], outcome, evs)]
         \/ \E evs \in Nat :
              rank' = [rank EXCEPT ![r] = [rank[r] EXCEPT !.pc = "posted", !.evs = evs]]
<1>0. rank[r] \in RankType
  BY DEF Inv, RankOK
<1>1. PICK evs : evs = IF Op(rank[r].i).trig = "no" THEN rank[r].evs ELSE rank[r].evs + 1
  BY Zenon
<1>2. evs \in Nat /\ rank[r].evs \in Nat
  BY <1>0, <1>1 DEF RankType
<1>3. ASSUME NEW outcome
      PROVE  Ended(rank[r], outcome, evs) =
               [[rank[r] EXCEPT !.pc = "final"] EXCEPT !.res = Append(@, outcome), !.evs = evs]
  BY <1>0 DEF Ended, RankType
<1>4. Ended(rank[r], "failed", rank[r].evs) =
        [[rank[r] EXCEPT !.pc = "final"] EXCEPT !.res = Append(@, "failed")]
  BY <1>0, Zenon DEF Ended, RankType
<1>5. \/ \E outcome \in {"ok", "captured"} :
            rank' = [rank EXCEPT ![r] = Ended(rank[r], outcome, evs)]
      \/ rank' = [rank EXCEPT ![r] = Ended(rank[r], "failed", rank[r].evs)]
      \/ rank' = [rank EXCEPT ![r] = [rank[r] EXCEPT !.pc = "posted", !.evs = evs]]
  <2>0. PICK op, i : op = Op(rank[r].i) /\ i = rank[r].i
    BY Zenon
  <2>1. CASE Empty(op)
    <3>1. rank' = [rank EXCEPT ![r] = Ended(rank[r], "ok", evs)]
      BY <1>1, <1>3, <2>0, <2>1, Zenon DEF Post
    <3> QED
      BY <3>1, Zenon
  <2>2. CASE ~Empty(op) /\ (Fails(r, "post", i) \/ (Fails(r, "sync", i) /\ op.trig # "capture"))
    <3>1. rank' = [rank EXCEPT ![r] = Ended(rank[r], "failed", rank[r].evs)]
      BY <1>4, <2>0, <2>2, Zenon DEF Post
    <3> QED
      BY <3>1, Zenon
  <2>3. CASE ~Empty(op) /\ ~Fails(r, "post", i) /\ op.trig = "capture"
    <3>1. rank' = [rank EXCEPT ![r] = Ended(rank[r], "captured", evs)]
      BY <1>1, <1>3, <2>0, <2>3, Zenon DEF Post
    <3> QED
      BY <3>1, Zenon
  <2>4. CASE ~Empty(op) /\ ~Fails(r, "post", i) /\ op.trig # "capture" /\ ~Fails(r, "sync", i)
    <3>1. rank' = [rank EXCEPT ![r] = [rank[r] EXCEPT !.pc = "posted", !.evs = evs]]
      BY <1>1, <2>0, <2>4, Zenon DEF Post
    <3> QED
      BY <3>1, Zenon
  <2> QED
    BY <2>1, <2>2, <2>3, <2>4, Zenon
<1> QED
  BY <1>2, <1>5, Zenon

LEMMA PostMoves ==
  ASSUME Inv, NEW r \in Team, Post(r)
  PROVE  Moved(r)
<1>1. RankOK(rank[r]) /\ rank[r].pc = "ready"
  BY Zenon DEF Inv, Post
<1>2. CASE \E outcome \in {"ok", "failed", "captured"} : \E evs \in Nat :
             rank' = [rank EXCEPT ![r] = Ended(rank[r], outcome, evs)]
  BY <1>1, <1>2, EndedOK, Zenon DEF Moved
<1>3. CASE \E evs \in Nat :
             rank' = [rank EXCEPT ![r] = [rank[r] EXCEPT !.pc = "posted", !.evs = evs]]
  <2>1. PICK evs \in Nat :
          rank' = [rank EXCEPT ![r] = [rank[r] EXCEPT !.pc = "posted", !.evs = evs]]
    BY <1>3, Zenon
  <2> DEFINE new == [rank[r] EXCEPT !.pc = "posted", !.evs = evs]
  <2>2. new \in RankType
    BY <1>1, Zenon DEF RankOK, RankType, Places
  <2>3. /\ new.pc = "posted" /\ new.i = rank[r].i /\ new.comm = rank[r].comm
        /\ new.held = rank[r].held /\ new.res = rank[r].res
    BY <1>1 DEF RankOK, RankType
  <2> HIDE DEF new
  <2>4. AtOp(new) /\ Holding(new) /\ Failing(new)
    BY <1>1, <2>3 DEF RankOK, AtOp, Holding, Failing, HasFailed
  <2> QED
    BY <2>1, <2>2, <2>4, Zenon DEF Moved, RankOK, new
<1> QED
  BY <1>2, <1>3, PostEnds, Zenon

LEMMA ProgressEnds ==
  ASSUME Inv, NEW r \in Team, Progress(r)
  PROVE  /\ RankOK(rank[r]) /\ rank[r].pc = "posted" /\ rank[r].evs \in Nat
         /\ \E outcome \in {"ok", "failed"} :
              rank' = [rank EXCEPT ![r] = Ended(rank[r], outcome, rank[r].evs)]
<1>0. RankOK(rank[r]) /\ rank[r].pc = "posted" /\ rank[r].evs \in Nat
  BY DEF Inv, Progress, RankOK, RankType
<1>1. ASSUME NEW outcome,
             rank' = [rank EXCEPT ![r].pc = "final", ![r].res = Append(@, outcome)]
      PROVE  rank' = [rank EXCEPT ![r] = Ended(rank[r], outcome, rank[r].evs)]
  BY <1>0, <1>1, Zenon DEF Inv, Ended, RankOK, RankType
<1>2. CASE rank' = [rank EXCEPT ![r].pc = "final", ![r].res = Append(@, "ok")]
  BY <1>0, <1>1, <1>2, Zenon
<1>3. CASE rank' = [rank EXCEPT ![r].pc = "final", ![r].res = Append(@, "failed")]
  BY <1>0, <1>1, <1>3, Zenon
<1> QED
  BY <1>2, <1>3, Zenon DEF Progress

LEMMA ProgressMoves ==
  ASSUME Inv, NEW r \in Team, Progress(r)
  PROVE  Moved(r)
  BY ProgressEnds, EndedOK, Zenon DEF Moved

LEMMA FinalizeMoves ==
  ASSUME Inv, NEW r \in Team, coll_finalize(r)
  PROVE  Moved(r)
<1> DEFINE me  == rank[r]
           new == [me EXCEPT !.pc = "idle", !.i = @ + 1, !.held = free_task(@),
                             !.comm = FinalComm(me)]
<1>0. RankOK(me) /\ me.pc = "final"
  BY DEF Inv, coll_finalize
<1>1. rank' = [rank EXCEPT ![r] = new]
  BY Zenon DEF coll_finalize
<1>2. me.i + 1 \in Nat \ {0} /\ FinalComm(me) \in Comms
      /\ free_task(me.held) \in SUBSET Handles
  BY <1>0 DEF RankOK, RankType, FinalComm, Comms, free_task
<1>3. new \in RankType
  BY <1>0, <1>2, Zenon DEF RankOK, RankType, Places
<1>4. /\ new.pc = "idle" /\ new.i = me.i + 1 /\ new.res = me.res
      /\ new.held = free_task(me.held) /\ new.comm = FinalComm(me)
  BY <1>0 DEF RankOK, RankType
<1> HIDE DEF new, me
<1>5. me.comm = "READY" /\ "comm" \in me.held /\ Len(me.res) = me.i /\ me.i \in Nat
  BY <1>0 DEF RankOK, Holding, AtOp, RankType
<1>6. /\ new.held \subseteq {"stream", "comm"} \cup Base /\ Base \subseteq new.held
      /\ "comm" \in new.held
  BY <1>0, <1>4, <1>5 DEF free_task, RankOK, RankType, Handles, Holding, Base
<1>7. AtOp(new)
  BY <1>4, <1>5 DEF AtOp
<1>8. Holding(new)
  BY <1>4, <1>5, <1>6 DEF Holding, FinalComm
<1>9. HasFailed(new) => new.comm = "ERROR"
  BY <1>0, <1>4 DEF HasFailed, RankOK, Failing, FinalComm
<1>10. Failing(new)
  BY <1>0, <1>4, <1>6, <1>9 DEF RankOK, Failing
<1> QED
  BY <1>1, <1>3, <1>7, <1>8, <1>10, Zenon DEF Moved, RankOK

\* the record of a rank that has destroyed its team, or could not
Left(me, S, ab, pc) == [me EXCEPT !.pc = pc, !.held = @ \ S, !.aborted = ab]

LEMMA DestroyLeaves ==
  ASSUME Inv, NEW r \in Team, team_destroy(r)
  PROVE  /\ RankOK(rank[r]) /\ rank[r].pc \in {"end", "idle"}
         /\ \/ rank' = [rank EXCEPT ![r] =
                          Left(rank[r], {"stream", "comm", "team"},
                               "comm" \in rank[r].held /\ rank[r].comm = "ERROR", "gone")]
            \/ rank' = [rank EXCEPT ![r] = Left(rank[r], {"stream", "comm"}, TRUE, "kept")]
<1>0. RankOK(rank[r]) /\ rank[r].pc \in {"end", "idle"}
  BY Zenon DEF Inv, team_destroy
<1>2. PICK ab, S, T :
        /\ ab = ("comm" \in rank[r].held /\ rank[r].comm = "ERROR")
        /\ S = {"stream", "comm", "team"} /\ T = {"stream", "comm"}
  BY Zenon
<1>3. CASE rank' = [rank EXCEPT ![r].pc = "gone", ![r].held = @ \ S, ![r].aborted = ab]
  <2>1. rank' = [rank EXCEPT ![r] = Left(rank[r], S, ab, "gone")]
    BY <1>0, <1>3, Zenon DEF Inv, RankOK, RankType, Left
  <2> QED
    BY <1>0, <1>2, <2>1, Zenon
<1>4. CASE rank' = [rank EXCEPT ![r].pc = "kept", ![r].held = @ \ T, ![r].aborted = TRUE]
  <2>1. rank' = [rank EXCEPT ![r] = Left(rank[r], T, TRUE, "kept")]
    BY <1>0, <1>4, Zenon DEF Inv, RankOK, RankType, Left
  <2> QED
    BY <1>0, <1>2, <2>1, Zenon
<1> QED
  BY <1>2, <1>3, <1>4, Zenon DEF team_destroy

LEMMA LeftOK ==
  ASSUME NEW me, RankOK(me), me.pc \in {"end", "idle"},
         NEW new,
         \/ new = Left(me, {"stream", "comm", "team"},
                       "comm" \in me.held /\ me.comm = "ERROR", "gone")
         \/ new = Left(me, {"stream", "comm"}, TRUE, "kept")
  PROVE  RankOK(new)
<1>0. ASSUME NEW S, NEW ab \in BOOLEAN, NEW pc \in Places
      PROVE  Left(me, S, ab, pc) \in RankType
  <2>1. me.held \ S \in SUBSET Handles
    BY DEF RankOK, RankType
  <2> QED
    BY <2>1, Zenon DEF RankOK, RankType, Left
<1>1. new \in RankType
  <2>1. PICK ab : ab = ("comm" \in me.held /\ me.comm = "ERROR")
    BY Zenon
  <2>2. ab \in BOOLEAN /\ TRUE \in BOOLEAN /\ "gone" \in Places /\ "kept" \in Places
    BY <2>1 DEF Places
  <2> QED
    BY <1>0, <2>1, <2>2, Zenon
<1>2. /\ new.i = me.i /\ new.res = me.res /\ new.comm = me.comm
      /\ \/ /\ new.pc = "gone" /\ new.held = me.held \ {"stream", "comm", "team"}
            /\ new.aborted = ("comm" \in me.held /\ me.comm = "ERROR")
         \/ new.pc = "kept" /\ new.held = me.held \ {"stream", "comm"} /\ new.aborted
  BY Zenon DEF RankOK, RankType, Left
<1>3. me.held \subseteq {"stream", "comm"} \cup Base /\ Base \subseteq me.held
      /\ me.comm # "none" /\ me.comm \in Comms
  BY DEF RankOK, Holding, RankType
<1>4. AtOp(new)
  BY <1>2, Zenon DEF AtOp
<1>5. Holding(new)
  BY <1>2, <1>3 DEF Holding, Base
<1>6. Failing(new)
  BY <1>2, Zenon DEF RankOK, Failing, HasFailed
<1> QED
  BY <1>1, <1>4, <1>5, <1>6, Zenon DEF RankOK

LEMMA DestroyMoves ==
  ASSUME Inv, NEW r \in Team, team_destroy(r)
  PROVE  Moved(r)
  BY DestroyLeaves, LeftOK, Zenon DEF Moved

LEMMA InitInv ==
  ASSUME Init
  PROVE  Inv
<1>1. sc \in Scenarios /\ DOMAIN rank = Team /\ rank = [r \in Team |-> rank[r]]
  BY DEF Init
<1>2. ASSUME NEW r \in Team
      PROVE  RankOK(rank[r])
  <2>1. PICK me : me = [pc |-> "start", comm |-> "none", ret |-> "none", i |-> 1,
                        held |-> {}, res |-> <<>>, evs |-> 0, aborted |-> FALSE]
    BY Zenon
  <2>2. rank[r] = me
    BY <2>1 DEF Init
  <2>3. me \in RankType
    BY <2>1 DEF RankType, Places, Comms
  <2>4. AtOp(me) /\ Holding(me) /\ Failing(me)
    BY <2>1 DEF AtOp, Holding, Failing, HasFailed
  <2> QED
    BY <2>2, <2>3, <2>4 DEF RankOK
<1> QED
  BY <1>1, <1>2 DEF Inv

LEMMA NextInv ==
  ASSUME Inv, [Next]_vars
  PROVE  Inv'
<1>1. CASE UNCHANGED <<sc, rank>>
  BY <1>1 DEF Inv, Team, RankOK, AtOp, Holding, Failing, HasFailed
<1>2. ASSUME NEW r \in Team, Moved(r), UNCHANGED sc
      PROVE  Inv'
  BY <1>2, Change, Zenon DEF Moved
<1>3. ASSUME NEW r \in Team,
             \/ TeamInit(r) \/ team_create_test(r) \/ CommInitRank(r)
             \/ init_task(r) \/ Skip(r) \/ Post(r) \/ Progress(r)
             \/ coll_finalize(r) \/ team_destroy(r)
      PROVE  Moved(r) /\ UNCHANGED sc
  <2>1. UNCHANGED sc
    BY <1>3, Zenon DEF TeamInit, team_create_test, CommInitRank, init_task, Skip, Post,
                       Progress, coll_finalize, team_destroy
  <2> QED
    BY <1>3, <2>1, TeamInitMoves, CreateTestMoves, InitRankMoves, InitTaskMoves,
       SkipMoves, PostMoves, ProgressMoves, FinalizeMoves, DestroyMoves, Zenon
<1>4. \/ UNCHANGED <<sc, rank>>
      \/ \E r \in Team : \/ TeamInit(r) \/ team_create_test(r) \/ CommInitRank(r)
                          \/ init_task(r) \/ Skip(r) \/ Post(r) \/ Progress(r)
                          \/ coll_finalize(r) \/ team_destroy(r)
  BY Zenon DEF Next, Stream, vars
<1> QED
  BY <1>1, <1>2, <1>3, <1>4

-----------------------------------------------------------------------------
(* The course of a rank is the one of the scenario                         *)

MovedOn(r) == \E new : Course(r, new) /\ rank' = [rank EXCEPT ![r] = new]

LEMMA Lists ==
  ASSUME NEW i \in Nat \ {0}
  PROVE  Tried(i + 1) <=> Tried(i) \/ Builds(i)
<1>1. \A k : k \in 1 .. (i + 1) - 1 <=> k \in 1 .. i - 1 \/ k = i
  OBVIOUS
<1> QED
  BY <1>1, Zenon DEF Tried

\* one more result
LEMMA Grown ==
  ASSUME NEW res \in Seq(Outcomes), NEW outcome \in Outcomes, NEW new,
         new = Append(res, outcome)
  PROVE  /\ Len(res) \in Nat /\ Len(new) = Len(res) + 1 /\ new[Len(res) + 1] = outcome
         /\ \A k \in 1 .. Len(res) : new[k] = res[k]
         /\ \A k \in 1 .. Len(res) + 1 : Broken(new, k) <=> Broken(res, k)
         /\ Broken(new, Len(res) + 2) <=> Broken(res, Len(res) + 1) \/ outcome = "failed"
<1>1. /\ Len(res) \in Nat /\ Len(new) = Len(res) + 1 /\ new[Len(res) + 1] = outcome
      /\ \A k \in 1 .. Len(res) : new[k] = res[k]
  OBVIOUS
<1>2. ASSUME NEW k \in 1 .. Len(res) + 1
      PROVE  Broken(new, k) <=> Broken(res, k)
  <2>1. \A j \in 1 .. k - 1 : new[j] = res[j]
    BY <1>1
  <2> QED
    BY <2>1, Zenon DEF Broken
<1>3. Broken(new, Len(res) + 2) <=> Broken(res, Len(res) + 1) \/ outcome = "failed"
  <2>1. \A j : j \in 1 .. (Len(res) + 2) - 1 <=> j \in 1 .. (Len(res) + 1) - 1 \/ j = Len(res) + 1
    BY <1>1
  <2>2. \A j \in 1 .. (Len(res) + 1) - 1 : new[j] = res[j]
    BY <1>1
  <2> QED
    BY <1>1, <2>1, <2>2, Zenon DEF Broken
<1> QED
  BY <1>1, <1>2, <1>3

LEMMA GrownResults ==
  ASSUME NEW r, NEW me, Results(r, me), me.res \in Seq(Outcomes), NEW outcome \in Outcomes,
         NEW new, new.res = Append(me.res, outcome),
         outcome = "skipped" <=> ~Member(Op(Len(me.res) + 1), r),
         Member(Op(Len(me.res) + 1), r) =>
           (outcome = "refused" <=> Refuses(r, me.res, Len(me.res) + 1))
  PROVE  Results(r, new)
<1>1. /\ Len(me.res) \in Nat /\ Len(new.res) = Len(me.res) + 1
      /\ new.res[Len(me.res) + 1] = outcome
      /\ \A k \in 1 .. Len(me.res) : new.res[k] = me.res[k]
      /\ \A k \in 1 .. Len(me.res) + 1 : Broken(new.res, k) <=> Broken(me.res, k)
  BY Grown
<1>2. \A k \in 1 .. Len(me.res) + 1 : Refuses(r, new.res, k) <=> Refuses(r, me.res, k)
  BY <1>1, Zenon DEF Refuses
<1>3. \A k \in 1 .. Len(new.res) :
        k \in 1 .. Len(me.res) + 1 /\ (k \in 1 .. Len(me.res) \/ k = Len(me.res) + 1)
  BY <1>1
<1> QED
  BY <1>1, <1>2, <1>3, Zenon DEF Results

LEMMA PassedCourse ==
  ASSUME NEW r, NEW me, Pending(me), Results(r, me),
         NEW outcome,
         \/ outcome = "skipped" /\ ~Member(Op(me.i), r)
         \/ outcome = "refused" /\ Member(Op(me.i), r) /\ Refuses(r, me.res, me.i),
         me.comm = NextComm(r, me)
  PROVE  Course(r, Passed(me, outcome))
<1> DEFINE new == Passed(me, outcome)
<1>0. me.res \in Seq(Outcomes) /\ outcome \in Outcomes /\ Len(me.res) + 1 = me.i
      /\ outcome # "failed" /\ Len(me.res) + 2 = me.i + 1
  BY DEF Pending, RankType, Outcomes
<1>1. /\ new.pc = "idle" /\ new.i = me.i + 1 /\ new.comm = me.comm
      /\ new.res = Append(me.res, outcome)
  BY DEF Passed, Pending, RankType
<1> HIDE DEF new
<1>2. Results(r, new)
  BY <1>0, <1>1, GrownResults
<1>3. Broken(new.res, me.i + 1) <=> Broken(me.res, me.i)
  <2>1. Broken(new.res, Len(me.res) + 2) <=> Broken(me.res, Len(me.res) + 1) \/ outcome = "failed"
    BY <1>0, <1>1, Grown, Zenon
  <2> QED
    BY <1>0, <2>1, Zenon
<1>4. CommAt(r, new.res, new.i) = NextComm(r, me)
  BY <1>1, <1>3, Zenon DEF CommAt, NextComm, CommIf
<1> QED
  BY <1>1, <1>2, <1>4, Zenon DEF Course, new

LEMMA RefusedCourse ==
  ASSUME NEW r, NEW me, Pending(me), Results(r, me), Refused(r, me),
         Member(Op(me.i), r), Refuses(r, me.res, me.i), me.comm = NextComm(r, me)
  PROVE  MovedOn(r)
<1>1. Course(r, Passed(me, "refused"))
  BY PassedCourse
<1>2. rank' = [rank EXCEPT ![r] = Passed(me, "refused")]
  BY Zenon DEF Refused, Passed
<1> QED
  BY <1>1, <1>2, Zenon DEF MovedOn

\* the communicator is ready for the collective
Usable(r, res, i) ==
    /\ Tried(i) \/ Builds(i)
    /\ ~Failed(r, "stream") /\ ~NoComm(r) /\ ~Broken(res, i)

LEMMA TaskCourse ==
  ASSUME NEW r, NEW me, Pending(me), Results(r, me), Task(r, me),
         me.comm = "READY", Member(Op(me.i), r), Op(me.i).dt # "user", Usable(r, me.res, me.i)
  PROVE  MovedOn(r)
<1>1. me.i \in Nat \ {0}
  BY DEF Pending, RankType
<1>2. CASE TaskFails(r, me.i)
  <2>1. Refused(r, me)
    BY <1>2, Zenon DEF Task, TaskFails
  <2>2. NextComm(r, me) = "READY" /\ Refuses(r, me.res, me.i)
    BY <1>1, <1>2, Lists, Zenon DEF CommAt, CommIf, NextComm, Usable, Refuses
  <2> QED
    BY <2>1, <2>2, RefusedCourse
<1>3. CASE ~TaskFails(r, me.i)
  <2>1. PICK needs : rank' = [rank EXCEPT ![r] =
                                [me EXCEPT !.pc = "ready", !.held = @ \cup needs]]
    BY <1>3, Zenon DEF Task, TaskFails
  <2> DEFINE new == [me EXCEPT !.pc = "ready", !.held = @ \cup needs]
  <2>2. new.pc = "ready" /\ new.i = me.i /\ new.res = me.res
    BY DEF Pending, RankType
  <2> HIDE DEF new
  <2>3. ~Refuses(r, me.res, me.i)
    BY <1>3, Zenon DEF Refuses, Usable
  <2>4. Results(r, new)
    BY <2>2 DEF Results
  <2>5. Course(r, new)
    BY <2>2, <2>3, <2>4 DEF Course
  <2> QED
    BY <2>1, <2>5, Zenon DEF MovedOn, new
<1> QED
  BY <1>2, <1>3

LEMMA CreatedCourse ==
  ASSUME NEW r, NEW me, Pending(me), Results(r, me), NEW status,
         Created(r, me, status), status = "OK" => me.comm = CommAt(r, me.res, me.i)
  PROVE  MovedOn(r)
<1> DEFINE new == [me EXCEPT !.pc = IF status = "OK" THEN "idle" ELSE "end"]
<1>1. /\ new.pc = (IF status = "OK" THEN "idle" ELSE "end")
      /\ new.i = me.i /\ new.res = me.res /\ new.comm = me.comm
  BY DEF Pending, RankType
<1> HIDE DEF new
<1>2. Results(r, new)
  BY <1>1 DEF Results
<1>3. Course(r, new)
  BY <1>1, <1>2 DEF Course
<1> QED
  BY <1>3, Zenon DEF MovedOn, new, Created

\* the library is called
LEMMA CallingCourse ==
  ASSUME NEW r, NEW me, Pending(me), Results(r, me), ~Failed(r, "stream"),
         NEW ret \in {"create", "coll"},
         ret = "create" => me.i = 1 /\ ~sc.lazy /\ ~NoId,
         ret = "coll" => Member(Op(me.i), r) /\ Builds(me.i) /\ ~Tried(me.i)
  PROVE  Course(r, [me EXCEPT !.pc = "comm", !.ret = ret, !.held = @ \cup {"stream"}])
<1> DEFINE new == [me EXCEPT !.pc = "comm", !.ret = ret, !.held = @ \cup {"stream"}]
<1>1. new.pc = "comm" /\ new.ret = ret /\ new.i = me.i /\ new.res = me.res
  BY DEF Pending, RankType
<1> HIDE DEF new
<1>2. Results(r, new)
  BY <1>1 DEF Results
<1> QED
  BY <1>1, <1>2 DEF Course, new

LEMMA CreateTestCourse ==
  ASSUME Inv, NEW r \in Team, Course(r, rank[r]), team_create_test(r)
  PROVE  MovedOn(r)
<1>0. RankOK(rank[r]) /\ rank[r].pc = "oob"
  BY DEF Inv, team_create_test
<1>1. Pending(rank[r]) /\ rank[r].res = << >> /\ rank[r].i = 1 /\ rank[r].comm = "OOB"
  BY <1>0, PendingIdle, Zenon DEF RankOK, AtOp, Course
<1>2. PICK me : me = [rank[r] EXCEPT !.comm = "INIT_TEAM"]
  BY Zenon
<1>3. /\ me \in RankType /\ me.res = << >> /\ me.i = 1
      /\ me.held = rank[r].held /\ me.comm = "INIT_TEAM"
  BY <1>1, <1>2 DEF Pending, RankType, Comms
<1>4. Pending(me) /\ Results(r, me) /\ Results(r, rank[r])
  BY <1>1, <1>3 DEF Pending, HasFailed, Results
<1>5. (Tried(1) <=> ~sc.lazy /\ ~NoId) /\ ~Broken(<< >>, 1)
  BY DEF Tried, Broken
<1>6. CASE NoId
  <2>1. Created(r, rank[r], "OK") /\ CommAt(r, << >>, 1) = "OOB"
    BY <1>5, <1>6, Zenon DEF team_create_test, NoId, CommAt, CommIf
  <2> QED
    BY <1>1, <1>4, <2>1, CreatedCourse
<1>7. CASE ~NoId /\ sc.lazy
  <2>1. Created(r, me, "OK") /\ CommAt(r, << >>, 1) = "INIT_TEAM"
    BY <1>2, <1>5, <1>7, Zenon DEF team_create_test, NoId, CommAt, CommIf
  <2> QED
    BY <1>3, <1>4, <2>1, CreatedCourse
<1>8. CASE ~NoId /\ ~sc.lazy
  <2>1. comm_init(r, me, "create")
    BY <1>2, <1>8, Zenon DEF team_create_test, NoId
  <2>2. CASE Failed(r, "stream")
    <3>1. Created(r, me, "NO_MESSAGE")
      BY <1>3, <2>1, <2>2 DEF comm_init, Failed, Answer
    <3> QED
      BY <1>3, <1>4, <3>1, CreatedCourse
  <2>3. CASE ~Failed(r, "stream")
    <3>1. rank' = [rank EXCEPT ![r] =
                     [me EXCEPT !.pc = "comm", !.ret = "create", !.held = @ \cup {"stream"}]]
      BY <1>3, <2>1, <2>3 DEF comm_init, Failed
    <3>2. Course(r, [me EXCEPT !.pc = "comm", !.ret = "create", !.held = @ \cup {"stream"}])
      BY <1>3, <1>4, <1>8, <2>3, CallingCourse, Zenon
    <3> QED
      BY <3>1, <3>2, Zenon DEF MovedOn
  <2> QED
    BY <2>2, <2>3
<1> QED
  BY <1>6, <1>7, <1>8

LEMMA InitTaskCourse ==
  ASSUME Inv, NEW r \in Team, Course(r, rank[r]), init_task(r)
  PROVE  MovedOn(r)
<1>0. PICK me : me = rank[r]
  BY Zenon
<1>1. PICK i : i = me.i
  BY Zenon
<1>2. RankOK(me) /\ me.pc = "idle" /\ i <= Len(sc.ops) /\ Member(Op(i), r)
  BY <1>0, <1>1 DEF Inv, init_task
<1>3. Pending(me) /\ Results(r, me) /\ me.comm = CommAt(r, me.res, i) /\ i \in Nat \ {0}
  BY <1>0, <1>1, <1>2, PendingIdle, Zenon DEF Course, RankOK, RankType
<1>4. CASE Op(i).dt = "user"
  <2>1. Refused(r, me)
    BY <1>0, <1>1, <1>4, Zenon DEF init_task
  <2>2. ~Builds(i) /\ Refuses(r, me.res, i)
    BY <1>4 DEF Builds, Refuses
  <2>3. NextComm(r, me) = CommAt(r, me.res, i)
    BY <1>1, <1>3, <2>2, Lists, Zenon DEF CommAt, CommIf, NextComm
  <2> QED
    BY <1>1, <1>2, <1>3, <2>1, <2>2, <2>3, RefusedCourse
<1>5. CASE Op(i).dt # "user" /\ me.comm = "READY"
  <2>1. Task(r, me)
    BY <1>0, <1>1, <1>5, Zenon DEF init_task
  <2>2. Usable(r, me.res, i)
    BY <1>3, <1>5 DEF CommAt, CommIf, NextComm, Usable
  <2> QED
    BY <1>1, <1>2, <1>3, <1>5, <2>1, <2>2, TaskCourse
<1>6. CASE Op(i).dt # "user" /\ me.comm # "READY" /\ Op(i).set # <<>>
  <2>1. Refused(r, me)
    BY <1>0, <1>1, <1>6 DEF init_task, NotReady
  <2>2. ~Builds(i)
    BY <1>6 DEF Builds
  <2>3. NextComm(r, me) = CommAt(r, me.res, i)
    BY <1>1, <1>3, <2>2, Lists, Zenon DEF CommAt, CommIf, NextComm
  <2>4. Refuses(r, me.res, i)
    BY <1>3, <1>6, <2>2, Zenon DEF CommAt, CommIf, NextComm, Refuses
  <2> QED
    BY <1>1, <1>2, <1>3, <2>1, <2>3, <2>4, RefusedCourse
<1>7. CASE Op(i).dt # "user" /\ me.comm # "READY" /\ Op(i).set = <<>>
  <2>1. comm_init(r, me, "coll") /\ Builds(i)
    BY <1>0, <1>1, <1>7, Zenon DEF init_task, NotReady, Builds
  <2>2. CASE me.comm = "ERROR"
    <3>1. Refused(r, me)
      BY <2>1, <2>2 DEF comm_init, Answer, TaskIf
    <3>2. Tried(i) /\ ~Failed(r, "stream") /\ (NoComm(r) \/ Broken(me.res, i))
      BY <1>3, <2>2 DEF CommAt, CommIf, NextComm
    <3>3. NextComm(r, me) = "ERROR" /\ Refuses(r, me.res, i)
      BY <1>1, <1>3, <3>2, Lists, Zenon DEF CommAt, CommIf, NextComm, Refuses
    <3> QED
      BY <1>1, <1>2, <1>3, <2>2, <3>1, <3>3, RefusedCourse
  <2>3. CASE me.comm # "ERROR" /\ Failed(r, "stream")
    <3>1. Refused(r, me)
      BY <1>7, <2>1, <2>3 DEF comm_init, Answer, TaskIf, Failed
    <3>2. NextComm(r, me) = CommAt(r, me.res, i) /\ Refuses(r, me.res, i)
      BY <2>3, Zenon DEF CommAt, CommIf, NextComm, Refuses
    <3> QED
      BY <1>1, <1>2, <1>3, <3>1, <3>2, RefusedCourse
  <2>4. CASE me.comm # "ERROR" /\ ~Failed(r, "stream")
    <3>1. rank' = [rank EXCEPT ![r] =
                     [me EXCEPT !.pc = "comm", !.ret = "coll", !.held = @ \cup {"stream"}]]
      BY <1>7, <2>1, <2>4 DEF comm_init, Failed
    <3>2. ~Tried(i)
      BY <1>3, <1>7, <2>4, Zenon DEF CommAt, CommIf, NextComm
    <3>3. Course(r, [me EXCEPT !.pc = "comm", !.ret = "coll", !.held = @ \cup {"stream"}])
      BY <1>1, <1>2, <1>3, <2>1, <2>4, <3>2, CallingCourse, Zenon
    <3> QED
      BY <3>1, <3>3, Zenon DEF MovedOn
  <2> QED
    BY <2>2, <2>3, <2>4
<1> QED
  BY <1>4, <1>5, <1>6, <1>7

LEMMA InitRankCourse ==
  ASSUME Inv, NEW r \in Team, Course(r, rank[r]), CommInitRank(r)
  PROVE  MovedOn(r)
<1>0. RankOK(rank[r]) /\ rank[r].pc = "comm"
  BY DEF Inv, CommInitRank
<1>1. /\ Pending(rank[r]) /\ Results(r, rank[r]) /\ ~Failed(r, "stream")
      /\ rank[r].i \in Nat \ {0}
  BY <1>0, PendingIdle, Zenon DEF Course, RankOK, RankType
<1>2. PICK ok : ok = ~NoComm(r)
  BY Zenon
<1>3. PICK me : me = [rank[r] EXCEPT !.comm = IF ok THEN "READY" ELSE "ERROR",
                                     !.held = IF ok THEN @ \cup {"comm"} ELSE @]
  BY Zenon
<1>4. ok \in BOOLEAN /\ (ok <=> ~Fails(r, "comm", 0) /\ ~Fails(0, "id", 0))
  BY <1>2, Zenon DEF NoComm, NoId, Failed
<1>5. /\ me \in RankType /\ me.res = rank[r].res /\ me.i = rank[r].i
      /\ me.ret = rank[r].ret
      /\ me.held = (IF ok THEN rank[r].held \cup {"comm"} ELSE rank[r].held)
      /\ me.comm = IF ok THEN "READY" ELSE "ERROR"
  BY <1>1, <1>3, Zenon DEF Pending, RankType, Comms, Handles
<1>6. ~HasFailed(rank[r])
  BY <1>0 DEF RankOK, Failing, Holding
<1>7. Pending(me) /\ Results(r, me)
  <2>1. ~HasFailed(me)
    BY <1>5, <1>6 DEF HasFailed
  <2> QED
    BY <1>1, <1>5, <2>1 DEF Pending, HasFailed, Results
<1>8. IF me.ret = "create" THEN Created(r, me, IF ok THEN "OK" ELSE "NO_RESOURCE")
      ELSE TaskIf(r, me, IF ok THEN "OK" ELSE "NO_RESOURCE")
  BY <1>3, <1>4, Zenon DEF CommInitRank
<1>9. CASE me.ret = "create"
  <2>1. me.i = 1 /\ Tried(1) /\ ~Broken(me.res, 1)
    BY <1>0, <1>5, <1>9 DEF Course, Tried, Broken
  <2>2. ok => CommAt(r, me.res, 1) = "READY"
    BY <1>1, <1>2, <2>1, Zenon DEF CommAt, CommIf, NextComm
  <2> QED
    BY <1>5, <1>7, <1>8, <1>9, <2>1, <2>2, CreatedCourse
<1>10. CASE me.ret # "create"
  <2>1. Member(Op(me.i), r) /\ Builds(me.i) /\ ~Tried(me.i)
    BY <1>0, <1>5, <1>10, Zenon DEF Course
  <2>2. Tried(me.i + 1) /\ ~Broken(me.res, me.i)
    <3>1. Tried(me.i + 1)
      BY <1>1, <1>5, <2>1, Lists, Zenon
    <3>2. me.i - 1 = Len(me.res)
      BY <1>7 DEF Pending, RankType
    <3> QED
      BY <1>5, <1>6, <3>1, <3>2, Zenon DEF Broken, HasFailed
  <2>3. CASE ~ok
    <3>1. Refused(r, me)
      BY <1>8, <1>10, <2>3 DEF TaskIf
    <3>2. NextComm(r, me) = "ERROR" /\ Refuses(r, me.res, me.i)
      BY <1>1, <1>2, <2>2, <2>3, Zenon DEF CommAt, CommIf, NextComm, Refuses
    <3> QED
      BY <1>5, <1>7, <2>1, <2>3, <3>1, <3>2, RefusedCourse, Zenon
  <2>4. CASE ok
    <3>1. Task(r, me)
      BY <1>8, <1>10, <2>4 DEF TaskIf
    <3>2. Usable(r, me.res, me.i) /\ Op(me.i).dt # "user"
      BY <1>1, <1>2, <2>1, <2>2, <2>4, Zenon DEF Usable, Builds
    <3> QED
      BY <1>5, <1>7, <2>1, <2>4, <3>1, <3>2, TaskCourse, Zenon
  <2> QED
    BY <1>4, <2>3, <2>4
<1> QED
  BY <1>9, <1>10

LEMMA EndedCourse ==
  ASSUME Inv, NEW r \in Team, Course(r, rank[r]), rank[r].pc \in {"ready", "posted"},
         NEW outcome \in {"ok", "failed", "captured"}, NEW evs
  PROVE  Course(r, Ended(rank[r], outcome, evs))
<1> DEFINE me  == rank[r]
           new == Ended(me, outcome, evs)
<1>0. RankOK(me) /\ Course(r, me) /\ me.pc \in {"ready", "posted"}
  BY DEF Inv
<1>1. new.pc = "final" /\ new.i = me.i /\ new.res = Append(me.res, outcome)
  BY <1>0, Zenon DEF Ended, RankOK, RankType
<1> HIDE DEF new, me
<1>2. /\ me.res \in Seq(Outcomes) /\ outcome \in Outcomes
      /\ me.i = Len(me.res) + 1 /\ me.i \in 1 .. Len(me.res) + 1
  BY <1>0 DEF RankOK, RankType, AtOp, Outcomes
<1>3. ~Refuses(r, me.res, me.i) /\ Member(Op(me.i), r) /\ Results(r, me)
  BY <1>0, Zenon DEF Course
<1>4. Results(r, new)
  BY <1>1, <1>2, <1>3, GrownResults
<1>5. Broken(new.res, me.i) <=> Broken(me.res, me.i)
  <2>1. \A k \in 1 .. Len(me.res) + 1 : Broken(new.res, k) <=> Broken(me.res, k)
    BY <1>1, <1>2, Grown
  <2> QED
    BY <1>2, <2>1, Zenon
<1>6. ~Refuses(r, new.res, me.i)
  BY <1>3, <1>5, Zenon DEF Refuses
<1> QED
  BY <1>1, <1>3, <1>4, <1>6, Zenon DEF Course, new, me

LEMMA PostCourse ==
  ASSUME Inv, NEW r \in Team, Course(r, rank[r]), Post(r)
  PROVE  MovedOn(r)
<1>1. RankOK(rank[r]) /\ rank[r].pc = "ready"
  BY Zenon DEF Inv, Post
<1>2. CASE \E outcome \in {"ok", "failed", "captured"} : \E evs :
             rank' = [rank EXCEPT ![r] = Ended(rank[r], outcome, evs)]
  BY <1>1, <1>2, EndedCourse, Zenon DEF MovedOn
<1>3. CASE \E evs : rank' = [rank EXCEPT ![r] = [rank[r] EXCEPT !.pc = "posted", !.evs = evs]]
  <2>1. PICK evs : rank' = [rank EXCEPT ![r] = [rank[r] EXCEPT !.pc = "posted", !.evs = evs]]
    BY <1>3, Zenon
  <2> DEFINE new == [rank[r] EXCEPT !.pc = "posted", !.evs = evs]
  <2>2. new.pc = "posted" /\ new.i = rank[r].i /\ new.res = rank[r].res
    BY <1>1 DEF RankOK, RankType
  <2> HIDE DEF new
  <2>3. Results(r, new)
    BY <2>2, Zenon DEF Results, Course
  <2>4. Course(r, new)
    BY <1>1, <2>2, <2>3, Zenon DEF Course
  <2> QED
    BY <2>1, <2>4, Zenon DEF MovedOn, new
<1> QED
  BY <1>2, <1>3, PostEnds, Zenon

LEMMA ProgressCourse ==
  ASSUME Inv, NEW r \in Team, Course(r, rank[r]), Progress(r)
  PROVE  MovedOn(r)
  BY ProgressEnds, EndedCourse, Zenon DEF MovedOn

LEMMA SkipCourse ==
  ASSUME Inv, NEW r \in Team, Course(r, rank[r]), Skip(r)
  PROVE  MovedOn(r)
<1>0. /\ RankOK(rank[r]) /\ rank[r].pc = "idle" /\ ~Member(Op(rank[r].i), r)
      /\ rank[r].i \in Nat \ {0}
  BY DEF Inv, Skip, RankOK, RankType
<1>1. Pending(rank[r]) /\ Results(r, rank[r]) /\ rank[r].comm = CommAt(r, rank[r].res, rank[r].i)
  BY <1>0, PendingIdle, Zenon DEF Course
<1>2. ~Builds(rank[r].i)
  BY <1>0, Zenon DEF Builds, Member
<1>3. NextComm(r, rank[r]) = CommAt(r, rank[r].res, rank[r].i)
  BY <1>0, <1>2, Lists, Zenon DEF CommAt, CommIf, NextComm
<1>4. Course(r, Passed(rank[r], "skipped"))
  BY <1>0, <1>1, <1>3, PassedCourse, Zenon
<1>5. rank' = [rank EXCEPT ![r] = Passed(rank[r], "skipped")]
  BY <1>0, SkipPasses
<1> QED
  BY <1>4, <1>5, Zenon DEF MovedOn

LEMMA FinalizeCourse ==
  ASSUME Inv, NEW r \in Team, Course(r, rank[r]), coll_finalize(r)
  PROVE  MovedOn(r)
<1> DEFINE me  == rank[r]
           new == [me EXCEPT !.pc = "idle", !.i = @ + 1, !.held = free_task(@),
                             !.comm = FinalComm(me)]
<1>0. RankOK(me) /\ me.pc = "final" /\ Course(r, me)
  BY DEF Inv, coll_finalize
<1>1. rank' = [rank EXCEPT ![r] = new]
  BY Zenon DEF coll_finalize
<1>2. new.pc = "idle" /\ new.i = me.i + 1 /\ new.res = me.res /\ new.comm = FinalComm(me)
  BY <1>0 DEF RankOK, RankType
<1> HIDE DEF new, me
<1>3. me.comm = "READY" /\ me.i \in Nat \ {0}
  BY <1>0 DEF RankOK, Holding, RankType
<1>4. ~Refuses(r, me.res, me.i) /\ Results(r, me)
  BY <1>0, Zenon DEF Course
<1>5. /\ Tried(me.i + 1) /\ ~Failed(r, "stream") /\ ~NoComm(r)
      /\ Broken(me.res, me.i + 1) <=> me.res[me.i] = "failed"
  <2>1. Tried(me.i + 1) /\ ~Failed(r, "stream") /\ ~NoComm(r) /\ ~Broken(me.res, me.i)
    BY <1>3, <1>4, Lists, Zenon DEF Refuses
  <2>2. \A k : k \in 1 .. (me.i + 1) - 1 <=> k \in 1 .. me.i - 1 \/ k = me.i
    BY <1>3
  <2> QED
    BY <2>1, <2>2, Zenon DEF Broken
<1>6. FinalComm(me) = CommAt(r, me.res, me.i + 1)
  BY <1>3, <1>5, Zenon DEF FinalComm, CommAt, CommIf
<1>7. Results(r, new)
  BY <1>2, <1>4 DEF Results
<1>8. Course(r, new)
  BY <1>2, <1>6, <1>7, Zenon DEF Course
<1> QED
  BY <1>1, <1>8, Zenon DEF MovedOn

LEMMA OtherCourse ==
  ASSUME Inv, NEW r \in Team, Course(r, rank[r]), TeamInit(r) \/ team_destroy(r)
  PROVE  MovedOn(r)
<1>0. RankOK(rank[r])
  BY DEF Inv
<1>1. CASE TeamInit(r)
  <2> DEFINE new == [rank[r] EXCEPT !.pc = "oob", !.comm = "OOB", !.held = Base]
  <2>1. rank' = [rank EXCEPT ![r] = new]
    BY <1>0, <1>1, Zenon DEF TeamInit, Inv, Base, RankOK, RankType
  <2>2. new.pc = "oob" /\ new.comm = "OOB" /\ new.res = rank[r].res
    BY <1>0 DEF RankOK, RankType
  <2> HIDE DEF new
  <2>3. Results(r, new)
    BY <2>2, Zenon DEF Results, Course
  <2>4. Course(r, new)
    BY <2>2, <2>3, Zenon DEF Course
  <2> QED
    BY <2>1, <2>4, Zenon DEF MovedOn
<1>2. CASE team_destroy(r)
  <2>1. PICK S, ab, pc : pc \in {"gone", "kept"} /\ rank' = [rank EXCEPT ![r] = Left(rank[r], S, ab, pc)]
    BY <1>2, DestroyLeaves, Zenon
  <2> DEFINE new == Left(rank[r], S, ab, pc)
  <2>2. new.pc = pc /\ new.res = rank[r].res
    BY <1>0 DEF RankOK, RankType, Left
  <2> HIDE DEF new
  <2>3. Results(r, new)
    BY <2>2, Zenon DEF Results, Course
  <2>4. Course(r, new)
    BY <2>1, <2>2, <2>3, Zenon DEF Course
  <2> QED
    BY <2>1, <2>4, Zenon DEF MovedOn, new
<1> QED
  BY <1>1, <1>2

\* the course of a rank depends on the state for its record alone
LEMMA SameCourse ==
  ASSUME UNCHANGED sc, NEW r, NEW me, Course(r, me)
  PROVE  Course(r, me)'
<1>1. \A what, i : Fails(r, what, i)' <=> Fails(r, what, i)
  BY DEF Fails
<1>2. \A i : Op(i)' = Op(i)
  BY DEF Op
<1>3. \A i : Builds(i)' <=> Builds(i)
  BY <1>2 DEF Builds
<1>4. \A i : TaskFails(r, i)' <=> TaskFails(r, i)
  BY <1>1, <1>2 DEF TaskFails
<1>5. NoId' <=> NoId
  BY DEF NoId, Fails
<1>6. \A i : Tried(i)' <=> Tried(i)
  BY <1>3, <1>5, Zenon DEF Tried
<1>7. \A what : Failed(r, what)' <=> Failed(r, what)
  BY <1>1 DEF Failed
<1>8. NoComm(r)' <=> NoComm(r)
  BY <1>5, <1>7, Zenon DEF NoComm
<1>9. \A i : CommAt(r, me.res, i)' = CommAt(r, me.res, i)
  BY <1>5, <1>6, <1>7, <1>8, Zenon DEF CommAt, CommIf, Broken
<1>10. \A i : Refuses(r, me.res, i)' <=> Refuses(r, me.res, i)
  BY <1>2, <1>3, <1>4, <1>6, <1>7, <1>8, Zenon DEF Refuses, Broken
<1>11. Results(r, me)'
  BY <1>2, <1>10, Zenon DEF Results, Course
<1> QED
  BY <1>2, <1>3, <1>5, <1>6, <1>7, <1>9, <1>10, <1>11, Zenon DEF Course

LEMMA CourseOfRecord ==
  Courses <=> \A q \in Team : \A me : me = rank[q] => Course(q, me)
BY Zenon DEF Courses

LEMMA CoursesKept ==
  ASSUME UNCHANGED sc, \A q \in Team : Course(q, rank'[q])
  PROVE  Courses'
<1>1. Courses' <=> (\A q \in Team : \A me : me = rank[q] => Course(q, me))'
  BY CourseOfRecord, PTL
<1>2. ASSUME NEW q \in Team', NEW me, me = rank'[q]
      PROVE  Course(q, me)'
  <2>1. Course(q, me)
    BY <1>2, Zenon DEF Team
  <2> QED
    BY <2>1, SameCourse
<1> QED
  BY <1>1, <1>2, Zenon

LEMMA NextCourses ==
  ASSUME Inv, Courses, [Next]_vars
  PROVE  Courses'
<1>1. CASE UNCHANGED <<sc, rank>>
  BY <1>1, CoursesKept DEF Courses
<1>2. ASSUME NEW r \in Team,
             \/ TeamInit(r) \/ team_create_test(r) \/ CommInitRank(r)
             \/ init_task(r) \/ Skip(r) \/ Post(r) \/ Progress(r)
             \/ coll_finalize(r) \/ team_destroy(r)
      PROVE  Courses'
  <2>1. UNCHANGED sc
    BY <1>2, Zenon DEF TeamInit, team_create_test, CommInitRank, init_task, Skip, Post,
                       Progress, coll_finalize, team_destroy
  <2>2. Course(r, rank[r])
    BY DEF Courses
  <2>3. MovedOn(r)
    BY <1>2, <2>2, OtherCourse, CreateTestCourse, InitRankCourse, InitTaskCourse,
       SkipCourse, PostCourse, ProgressCourse, FinalizeCourse, Zenon
  <2>4. PICK new : Course(r, new) /\ rank' = [rank EXCEPT ![r] = new]
    BY <2>3, Zenon DEF MovedOn
  <2>5. \A q \in Team : Course(q, rank'[q])
    BY <2>4 DEF Courses, Inv
  <2> QED
    BY <2>1, <2>5, CoursesKept
<1>3. \/ UNCHANGED <<sc, rank>>
      \/ \E r \in Team : \/ TeamInit(r) \/ team_create_test(r) \/ CommInitRank(r)
                          \/ init_task(r) \/ Skip(r) \/ Post(r) \/ Progress(r)
                          \/ coll_finalize(r) \/ team_destroy(r)
  BY Zenon DEF Next, Stream, vars
<1> QED
  BY <1>1, <1>2, <1>3

-----------------------------------------------------------------------------
\* The state of every rank stays well formed, whatever steps fail on whichever
\* ranks: a rank holds the objects of a task between init and finalize only, a
\* failed collective is followed by refused ones only, its communicator in
\* error until it is aborted (ucc_tl_nccl_init_task, ucc_tl_nccl_coll_finalize).
THEOREM RanksInvariance == Spec => []Inv
<1>1. Init => Inv
  BY InitInv
<1>2. Inv /\ [Next]_vars => Inv'
  BY NextInv
<1> QED
  BY <1>1, <1>2, PTL DEF Spec

\* A team that is gone holds the array of ids and nothing else, one whose
\* communicator could not be finalized also itself, and the communicator was
\* aborted if a collective failed (ucc_tl_nccl_free_task,
\* ucc_tl_nccl_team_destroy).
THEOREM TeamReleased == Spec => []Released
<1>1. Inv => Released
  <2> SUFFICES ASSUME Inv, NEW r \in Team
               PROVE  /\ rank[r].pc = "gone" => rank[r].held = {"unique_id"}
                      /\ rank[r].pc = "kept" => rank[r].held = {"team", "unique_id"}
                      /\ rank[r].pc \in {"gone", "kept"} =>
                           ((\E i \in DOMAIN rank[r].res : rank[r].res[i] = "failed")
                              => rank[r].aborted)
    BY Zenon DEF Released
  <2>1. RankOK(rank[r])
    BY DEF Inv
  <2>2. DOMAIN rank[r].res = 1 .. Len(rank[r].res)
    BY <2>1 DEF RankOK, RankType
  <2> QED
    BY <2>1, <2>2, Zenon DEF RankOK, Holding, Failing, HasFailed, Base
<1> QED
  BY <1>1, RanksInvariance, PTL

\* Whatever fails, a rank refuses a collective that another rank runs here only
\* if a step failed on it that did not fail there (ucc_tl_nccl_init_task,
\* ucc_tl_nccl_comm_init, ucc_tl_nccl_coll_finalize).
THEOREM TransportAgreed == Spec => []OneTransport
<1>1. Init => Inv /\ Courses
  <2> SUFFICES ASSUME Init PROVE Courses
    BY InitInv
  <2> SUFFICES ASSUME NEW r \in Team PROVE Course(r, rank[r])
    BY DEF Courses
  <2>1. rank[r].pc = "start" /\ rank[r].res = << >>
    BY DEF Init
  <2>2. Results(r, rank[r])
    BY <2>1 DEF Results
  <2> QED
    BY <2>1, <2>2 DEF Course
<1>2. Inv /\ Courses /\ [Next]_vars => (Inv /\ Courses)'
  BY NextInv, NextCourses
<1>3. Inv /\ Courses => OneTransport
  <2> SUFFICES ASSUME Inv, Courses, NEW r \in Team, NEW q \in Team,
                      NEW i \in DOMAIN rank[r].res,
                      rank[r].res[i] = "refused", RunsHere(rank[q], i)
               PROVE  FailedAlone(r, q, i)
    BY Zenon DEF OneTransport
  <2>1. RankOK(rank[r]) /\ RankOK(rank[q]) /\ Course(r, rank[r]) /\ Course(q, rank[q])
    BY DEF Inv, Courses
  <2>2. /\ rank[r].res \in Seq(Outcomes) /\ i \in 1 .. Len(rank[r].res)
        /\ DOMAIN rank[q].res = 1 .. Len(rank[q].res)
    BY <2>1 DEF RankOK, RankType
  <2>3. Member(Op(i), r) /\ Refuses(r, rank[r].res, i)
    BY <2>1, <2>2, Zenon DEF Course, Results
  <2>4. ~Refuses(q, rank[q].res, i)
    <3>1. CASE i \in DOMAIN rank[q].res /\ rank[q].res[i] \notin {"refused", "skipped"}
      BY <2>1, <2>2, <3>1, Zenon DEF Course, Results
    <3>2. CASE i = rank[q].i /\ rank[q].pc \in {"ready", "posted"}
      BY <2>1, <3>2, Zenon DEF Course
    <3> QED
      BY <3>1, <3>2, Zenon DEF RunsHere
  <2>5. CASE Broken(rank[r].res, i)
    BY <2>4, <2>5, Zenon DEF Broken, Refuses, FailedAlone
  <2>6. CASE Failed(r, "stream") \/ NoComm(r)
    BY <2>4, <2>6, Zenon DEF Refuses, FailedAlone, Failed, NoComm
  <2>7. CASE TaskFails(r, i)
    BY <2>4, <2>7, Zenon DEF Refuses, FailedAlone, TaskFails
  <2> QED
    BY <2>3, <2>4, <2>5, <2>6, <2>7, Zenon DEF Refuses
<1> QED
  BY <1>1, <1>2, <1>3, PTL DEF Spec
=============================================================================
