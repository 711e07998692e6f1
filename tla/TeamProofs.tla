----------------------------- MODULE TeamProofs -----------------------------
(***************************************************************************)
(* Theorems about the life of a team, for any number of CLs, whatever the  *)
(* user and the context ask for and whichever CLs fail or need time.       *)
(***************************************************************************)
EXTENDS Team, TLAPS, FiniteSetTheorems

\* Where the process can be in the API for what the user knows of the handle and
\* for the state of the team.
Control ==
    /\ call \in {"create", "cl_test", "cl_loop"} => user = "creating"
    /\ call = "destroy" => user = "destroying"
    /\ call \in {"cl_test", "cl_loop"} => state = "CL_CREATE"
    /\ user \in {"idle", "rejected"} => state = "ADDR_EXCHANGE"
    /\ user = "creating" => state # "ACTIVE"
    /\ user \in {"created", "destroying", "destroy_failed", "destroyed"}
         => state = "ACTIVE"
    /\ user = "created" => score_map

\* What is outstanding belongs to the state the team is in.
Stages ==
    /\ addr_req => state = "ADDR_EXCHANGE" /\ ~params.storage
    /\ oob_req => /\ state = "ADDR_EXCHANGE" /\ params.storage
                  /\ ~params.ep_map /\ ctx_ranks = "alloc"
    /\ user = "idle" => ~addr_req /\ ~oob_req
    /\ service_team = "creating" => state = "SERVICE_TEAM" /\ NeedsService
    /\ sreq => state = "ALLOC_ID" /\ params.need_id /\ id = "none"
    /\ state = "ALLOC_ID" /\ params.need_id /\ id = "none"
         => params.ctx_service \/ service_team = "ready"
    /\ oob_info => params.ctx_service /\ ~params.single
    /\ user = "destroyed" => ~oob_info /\ id # "internal"

\* The reference to the context of the service team goes with the service team,
\* except when the creation of that team failed.
Refs ==
    state # "SERVICE_TEAM" \/ user = "creating"
      => service_refs = IF service_team = "null" THEN 0 ELSE 1

\* The CLs that create_cls has been through: all before i inside its loop, those
\* up to the one in progress between two calls.
Done == IF call = "cl_loop" THEN i ELSE last + 1

InArray(c) == \E k \in 0 .. n_cl_teams - 1 : cl_teams[k] = c

\* The array during the creation: an entry holds a CL that was tried, at an index
\* that is not beyond it.
Filling ==
    user \in {"idle", "creating"} =>
        /\ n_cl_teams <= Done
        /\ call = "cl_test" => last >= 0 /\ i = last + 1
        /\ call = "cl_loop" => last < i
        /\ \A k \in Cls : cl_teams[k] # NoTeam
              => k <= cl_teams[k] /\ cl_teams[k] < Done
        /\ \A k \in 0 .. n_cl_teams - 1 : cl_teams[k] # NoTeam

\* The CL in progress is the last one posted and the last one in the array.
InProgress ==
    /\ \A c \in Cls : cl[c] = "creating" =>
          /\ user \in {"creating", "failed", "refused", "crashed"}
          /\ call # "cl_loop"
          /\ state = "CL_CREATE" /\ c = last
    /\ user = "idle" => last = -1
    /\ user = "creating" /\ call # "cl_loop" /\ last >= 0 =>
          /\ state = "CL_CREATE"
          /\ cl[last] = "creating"
          /\ n_cl_teams > 0 /\ cl_teams[n_cl_teams - 1] = last

\* The array holds every live CL team once, in the order of the CLs, and no team
\* that is gone.
Holds ==
    /\ \A k, m \in 0 .. n_cl_teams - 1 :
          m < k /\ cl_teams[m] # NoTeam /\ cl_teams[k] # NoTeam
            => cl_teams[m] < cl_teams[k]
    /\ user # "destroy_failed" =>
          \A k \in 0 .. n_cl_teams - 1 :
             cl_teams[k] # NoTeam => cl[cl_teams[k]] \in {"ready", "creating"}
    /\ \A c \in Cls : cl[c] \in {"ready", "creating"} => InArray(c)
    /\ \A c \in Cls : cl[c] # "twice"

\* A team that is active had a CL, and the destruction clears the array from its
\* start.
Emptying ==
    /\ user = "created" =>
          /\ n_cl_teams > 0
          /\ \A k \in 0 .. n_cl_teams - 1 : cl_teams[k] # NoTeam
    /\ call = "destroy" =>
          /\ i <= n_cl_teams
          /\ \A k \in 0 .. i - 1 : cl_teams[k] = NoTeam
    /\ user = "destroyed" =>
          /\ service_team = "null"
          /\ \A k \in 0 .. n_cl_teams - 1 : cl_teams[k] = NoTeam

\* What the stages have provided once the team is past them, and what is left when
\* it is destroyed.
Provided ==
    /\ user = "idle" => id = "none" /\ addr_storage = "null" /\ ctx_ranks = "null"
    /\ params.storage => addr_storage = "null"
    /\ ~params.storage => ctx_ranks = "null"
    /\ ctx_ranks = "dangling" => user # "creating"
    /\ user # "idle" /\ state \in {"ADDR_EXCHANGE", "SERVICE_TEAM"}
         => (id = "none" <=> ~params.external)
    /\ state # "ADDR_EXCHANGE" => addr_storage # "lens" /\ ctx_ranks # "dangling"
    /\ state \in {"CL_CREATE", "ACTIVE"} /\ ~params.single /\ params.need_id
         => id # "none"
    /\ state \in {"ALLOC_ID", "CL_CREATE"} \/ user = "created"
         => (~params.single /\ OwnService => service_team = "ready")
    /\ user = "destroyed" => /\ addr_storage = "null" /\ ctx_ranks = "null"
                             /\ ~topo /\ ~score_map

\* Only a CL that failed is lost.
Lost == \A c \in Cls : cl[c] = "lost" => c \in params.failing

IndInv ==
    /\ TypeOK /\ Control /\ Stages /\ Refs /\ Provided
    /\ Filling /\ InProgress /\ Holds /\ Emptying /\ Lost

-----------------------------------------------------------------------------

\* The state of a team that was not posted yet.
LEMMA InitInv == Init => IndInv
<1> SUFFICES ASSUME Init PROVE IndInv
    OBVIOUS
<1> USE TeamAssumption DEF Init, Cls, NoTeam
<1>1. TypeOK
  <2>1. {addr_req, oob_req, oob_info, sreq, topo, score_map} \subseteq BOOLEAN
    BY Zenon
  <2> QED BY <2>1 DEF TypeOK
<1>2. Control /\ Stages /\ Refs /\ Provided
    BY DEF Control, Stages, Refs, Provided, NeedsService
<1>3. Filling /\ InProgress /\ Holds /\ Emptying /\ Lost
    BY DEF Filling, InProgress, Holds, Emptying, Lost, Done, InArray
<1> QED BY <1>1, <1>2, <1>3 DEF IndInv

\* Testing through an entry that was never written ends in a crash and changes
\* nothing else.
LEMMA UnwrittenStep ==
    ASSUME IndInv, ClTestUnwritten
    PROVE  /\ user = "creating" /\ user' = "crashed" /\ call' = "none"
           /\ state = "CL_CREATE"
           /\ UNCHANGED <<params, state, addr_storage, addr_req, ctx_ranks,
                          oob_req, oob_info, service_team, service_refs, sreq,
                          id, topo, cl, cl_teams, n_cl_teams, last, i, score_map>>
BY DEF IndInv, Control, ClTestUnwritten, oobvars, srvvars, clvars

\* A call that returns tells the user that the team is created, in progress or
\* failed.
LEMMA ReturnType ==
    ASSUME NEW st \in Answer, Return(st)
    PROVE  call' = "none" /\ user' \in {"created", "creating", "failed"}
BY DEF Answer, Return

\* What the stages before the CLs return keeps every field in its type.
LEMMA StagesType ==
    IndInv /\ (AddrExchange \/ RankExchange \/ ServiceTeam \/ AllocId) => TypeOK'
<1> SUFFICES ASSUME IndInv,
                    AddrExchange \/ RankExchange \/ ServiceTeam \/ AllocId
             PROVE  TypeOK'
    OBVIOUS
<1> USE DEF IndInv, TypeOK, oobvars, srvvars, clvars, GoOn, Answer, Return
<1>1. CASE AddrExchange
    BY <1>1 DEF AddrExchange, AddrRound
<1>2. CASE RankExchange
    BY <1>2 DEF RankExchange
<1>3. CASE ServiceTeam
  <2>1. service_refs = IF service_team = "null" THEN 0 ELSE 1
    BY <1>3 DEF ServiceTeam, InState, Control, Refs
  <2> QED BY <1>3, <2>1 DEF ServiceTeam
<1>4. CASE AllocId
    BY <1>4 DEF AllocId
<1> QED BY <1>1, <1>2, <1>3, <1>4

\* Neither do the loop over the CLs and the destruction.
LEMMA ClsType ==
    ASSUME IndInv, CreateCls \/ ClTest \/ ClFails \/ ClReady \/ ClInProgress
    PROVE  TypeOK'
<1> USE TeamAssumption DEF TypeOK, oobvars, srvvars, clvars, GoOn, Return, Cls,
        NoTeam
<1>1. TypeOK /\ Control /\ Filling /\ InProgress
    BY DEF IndInv
<1>2. CASE CreateCls
  <2>1. topo' \in BOOLEAN
    BY Zenon, <1>1, <1>2 DEF CreateCls
  <2> QED BY <1>1, <1>2, <2>1 DEF CreateCls, FirstCl
<1>3. CASE ClTest
  <2>1. n_cl_teams > 0
    BY <1>1, <1>3 DEF ClTest, Control, Filling, InProgress
  <2> QED BY <1>1, <1>3, <2>1 DEF ClTest, Dropped, AfterFailure
<1>4. CASE ClFails
    BY <1>1, <1>4 DEF ClFails, InLoop, Dropped
<1>5. CASE ClReady \/ ClInProgress
  <2>1. n_cl_teams <= i /\ i < NCls
    BY <1>1, <1>5 DEF ClReady, ClInProgress, InLoop, Control, Filling, Done
  <2>2. n_cl_teams + 1 \in 0 .. NCls /\ n_cl_teams \in Cls /\ i \in Cls
    BY <1>1, <2>1
  <2>3. CASE ClReady
    BY <1>1, <2>2, <2>3 DEF ClReady, Store
  <2>4. CASE ClInProgress
    BY <1>1, <2>2, <2>4 DEF ClInProgress, Store, Stop
  <2> QED BY <1>5, <2>3, <2>4
<1> QED BY <1>2, <1>3, <1>4, <1>5

\* Every step of the API keeps every field of the team in its type.
LEMMA NextType == IndInv /\ [Next]_vars => TypeOK'
<1> SUFFICES ASSUME IndInv, [Next]_vars PROVE TypeOK'
    OBVIOUS
<1> USE DEF TypeOK, oobvars, srvvars, clvars, GoOn, Return
<1>1. TypeOK /\ Control /\ Refs /\ Emptying
    BY DEF IndInv
<1>2. CASE CreatePost
    BY <1>1, <1>2 DEF CreatePost
<1>3. CASE CreateTest
    BY <1>1, <1>3 DEF CreateTest
<1>4. CASE Creating
  <2>1. CASE Activate
    BY <1>1, <2>1 DEF Activate, BuildScoreMap
  <2>2. CASE ClTestUnwritten
    BY <1>1, <2>2, UnwrittenStep
  <2> QED BY <1>4, <2>1, <2>2, StagesType, ClsType DEF Creating
<1>5. CASE Destroy
    BY <1>1, <1>5, TeamAssumption DEF Destroy
<1>6. CASE DestroyService
    BY <1>1, <1>6 DEF DestroyService, DestroyStops, Control, Refs
<1>7. CASE DestroyCl
  <2>1. i \in Cls /\ i + 1 \in 0 .. NCls
    BY <1>1, <1>7, TeamAssumption DEF DestroyCl, Cls
  <2> QED BY <1>1, <1>7, <2>1 DEF DestroyCl, DestroyStops, Cleared
<1>8. CASE DestroyFree
    BY <1>1, <1>8 DEF DestroyFree
<1>9. CASE UNCHANGED vars
    BY <1>1, <1>9 DEF vars
<1> QED BY <1>2, <1>3, <1>4, <1>5, <1>6, <1>7, <1>8, <1>9 DEF Next, Destroying

-----------------------------------------------------------------------------

\* The calls of the API and the states of the team go together after every step.
LEMMA NextControl == IndInv /\ [Next]_vars => Control'
<1> SUFFICES ASSUME IndInv, [Next]_vars PROVE Control'
    OBVIOUS
<1> USE DEF Control, oobvars, srvvars, clvars, GoOn, Return
<1>1. TypeOK /\ Control
    BY DEF IndInv
<1>2. CASE CreatePost
    BY <1>1, <1>2 DEF CreatePost, TypeOK
<1>3. CASE CreateTest
    BY <1>1, <1>3 DEF CreateTest
<1>4. CASE AddrExchange
    BY <1>1, <1>4 DEF AddrExchange, InState, Answer
<1>5. CASE RankExchange
    BY <1>1, <1>5 DEF RankExchange, InState, Answer
<1>6. CASE ServiceTeam
    BY <1>1, <1>6 DEF ServiceTeam, InState, Answer
<1>7. CASE AllocId
    BY <1>1, <1>7 DEF AllocId, InState
<1>8. CASE CreateCls
    BY <1>1, <1>8 DEF CreateCls, InState
<1>9. CASE ClTest
    BY <1>1, <1>9 DEF ClTest
<1>10. CASE ClFails \/ ClReady \/ ClInProgress
    BY <1>1, <1>10 DEF ClFails, ClReady, ClInProgress, InLoop, Stop
<1>11. CASE Activate
    BY <1>1, <1>11 DEF Activate, BuildScoreMap
<1>12. CASE Destroy
    BY <1>1, <1>12 DEF Destroy
<1>13. CASE DestroyService
    BY <1>1, <1>13 DEF DestroyService, DestroyStops
<1>14. CASE DestroyCl
    BY <1>1, <1>14 DEF DestroyCl, DestroyStops
<1>15. CASE DestroyFree
    BY <1>1, <1>15 DEF DestroyFree
<1>16. CASE UNCHANGED vars
    BY <1>1, <1>16 DEF vars
<1>20. CASE ClTestUnwritten
    BY <1>1, <1>20, UnwrittenStep DEF Control
<1> QED
    BY <1>20, <1>2, <1>3, <1>4, <1>5, <1>6, <1>7, <1>8, <1>9, <1>10, <1>11, <1>12,
       <1>13, <1>14, <1>15, <1>16
    DEF Next, Creating, Destroying

\* A stage starts its operation in its own state and leaves the state when the
\* operation is over; the service team is there before an id is asked for.
LEMMA NextStages == IndInv /\ [Next]_vars => Stages' /\ Refs'
<1> SUFFICES ASSUME IndInv, [Next]_vars PROVE Stages' /\ Refs'
    OBVIOUS
<1> USE DEF Stages, Refs, NeedsService, oobvars, srvvars, clvars, GoOn, Return
<1>1. TypeOK /\ Control /\ Stages /\ Refs
    BY DEF IndInv
<1>2. CASE CreatePost
    BY <1>1, <1>2 DEF CreatePost, Control, TypeOK
<1>3. CASE CreateTest
    BY <1>1, <1>3 DEF CreateTest
<1>4. CASE AddrExchange
    BY <1>1, <1>4 DEF AddrExchange, InState, Answer, Control
<1>5. CASE RankExchange
  <2>1. CASE params.ep_map
    BY <1>1, <1>5, <2>1 DEF RankExchange, InState, Control
  <2>2. CASE ~params.ep_map /\ ctx_ranks = "null"
    BY <1>1, <1>5, <2>2 DEF RankExchange, InState, Control
  <2>3. CASE ~params.ep_map /\ ctx_ranks = "alloc"
    <3>1. PICK st \in Answer :
              /\ oob_req' = (st = "INPROGRESS")
              /\ IF st = "OK"
                 THEN state' = "SERVICE_TEAM" /\ GoOn
                 ELSE Return(st) /\ UNCHANGED <<ctx_ranks, state>>
      BY <1>5, <2>3 DEF RankExchange
    <3>2. oob_req' <=> st = "INPROGRESS"
      BY <3>1
    <3>3. Stages'
      BY <1>1, <1>5, <2>3, <3>1, <3>2 DEF RankExchange, InState, Control, Answer
    <3>4. Refs'
      BY <1>1, <1>5, <2>3, <3>1 DEF RankExchange, InState, Control
    <3> QED BY <3>3, <3>4
  <2> QED BY <1>5, <2>1, <2>2, <2>3 DEF RankExchange
<1>6. CASE ServiceTeam
    BY <1>1, <1>6 DEF ServiceTeam, InState, Answer, Control, TypeOK
<1>7. CASE AllocId
    BY <1>1, <1>7 DEF AllocId, InState, Control
<1>8. CASE CreateCls
    BY <1>1, <1>8 DEF CreateCls
<1>9. CASE ClTest
    BY <1>1, <1>9 DEF ClTest, Control
<1>10. CASE ClFails \/ ClReady \/ ClInProgress
    BY <1>1, <1>10 DEF ClFails, ClReady, ClInProgress, InLoop, Stop, Control
<1>11. CASE Activate
    BY <1>1, <1>11 DEF Activate, BuildScoreMap, Control
<1>12. CASE Destroy
    BY <1>1, <1>12 DEF Destroy, Control
<1>13. CASE DestroyService
    BY <1>1, <1>13 DEF DestroyService, DestroyStops, Control
<1>14. CASE DestroyCl
    BY <1>1, <1>14 DEF DestroyCl, DestroyStops, Control
<1>15. CASE DestroyFree
    BY <1>1, <1>15 DEF DestroyFree, Control
<1>16. CASE UNCHANGED vars
    BY <1>1, <1>16 DEF vars
<1>20. CASE ClTestUnwritten
    BY <1>1, <1>20, UnwrittenStep DEF Stages, Refs, NeedsService
<1> QED
    BY <1>20, <1>2, <1>3, <1>4, <1>5, <1>6, <1>7, <1>8, <1>9, <1>10, <1>11, <1>12,
       <1>13, <1>14, <1>15, <1>16
    DEF Next, Creating, Destroying

-----------------------------------------------------------------------------

\* What the array of CL teams is about.
array == <<cl, cl_teams, n_cl_teams, last>>

\* The steps before create_cls leave the array alone, and there is nothing in it
\* that is in progress.
LEMMA EarlySteps ==
    ASSUME IndInv,
           \/ CreatePost \/ AddrExchange \/ RankExchange \/ ServiceTeam \/ AllocId
    PROVE  /\ UNCHANGED array
           /\ user \in {"idle", "creating"} /\ call \in {"none", "create"}
           /\ user' \in {"creating", "rejected", "failed"}
           /\ call' \in {"none", "create"}
           /\ last = -1
<1> USE DEF oobvars, srvvars, clvars, array, GoOn, Return, Answer
<1>1. Control /\ InProgress /\ TypeOK
    BY DEF IndInv
<1>2. CASE CreatePost
    BY <1>1, <1>2 DEF CreatePost, Control, InProgress, TypeOK
<1>3. CASE AddrExchange
    BY <1>1, <1>3 DEF AddrExchange, InState, Control, InProgress, TypeOK
<1>4. CASE RankExchange
    BY <1>1, <1>4 DEF RankExchange, InState, Control, InProgress, TypeOK
<1>5. CASE ServiceTeam
    BY <1>1, <1>5 DEF ServiceTeam, InState, Control, InProgress, TypeOK
<1>6. CASE AllocId
    BY <1>1, <1>6 DEF AllocId, InState, Control, InProgress, TypeOK
<1> QED BY <1>2, <1>3, <1>4, <1>5, <1>6

\* The entry through which the CL in progress is tested is that CL's own, when
\* it was written at all, and it is the last one of the array.
LEMMA TestedCl ==
    ASSUME IndInv, ClTest
    PROVE  /\ cl_teams[last] = last /\ last \in Cls /\ cl[last] = "creating"
           /\ n_cl_teams > 0 /\ cl_teams[n_cl_teams - 1] = last
           /\ user = "creating" /\ state = "CL_CREATE"
<1>1. TypeOK /\ Control /\ Filling /\ InProgress
    BY DEF IndInv
<1>2. user = "creating" /\ state = "CL_CREATE" /\ last >= 0 /\ Done = last + 1
    BY <1>1 DEF ClTest, Control, Filling, Done
<1>3. last \in Cls /\ cl_teams[last] \in Cls
    BY <1>1, <1>2 DEF TypeOK, Cls, ClTest, NoTeam
<1>4. cl_teams[last] = last
    BY <1>1, <1>2, <1>3 DEF Filling, ClTest, Cls
<1> QED BY <1>1, <1>2, <1>3, <1>4 DEF InProgress, ClTest

\* Inside the loop no CL is in progress, and the next one has room.
LEMMA LoopCl ==
    ASSUME IndInv, InLoop
    PROVE  /\ i \in Cls /\ n_cl_teams \in Cls /\ n_cl_teams <= i
           /\ last < i
           /\ user = "creating" /\ state = "CL_CREATE"
           /\ \A k \in Cls : cl_teams[k] # NoTeam
                 => cl_teams[k] \in Cls /\ k <= cl_teams[k] /\ cl_teams[k] < i
           /\ \A c \in Cls : cl[c] # "creating"
<1>1. TypeOK /\ Control /\ Filling /\ InProgress
    BY DEF IndInv
<1>2. user = "creating" /\ state = "CL_CREATE" /\ Done = i
    BY <1>1 DEF InLoop, Control, Done
<1>3. n_cl_teams <= i /\ last < i /\ i \in Cls
    BY <1>1, <1>2, TeamAssumption DEF Filling, InLoop, TypeOK, Cls
<1>4. n_cl_teams \in Cls
    BY <1>1, <1>3, TeamAssumption DEF TypeOK, Cls
<1>5. \A k \in Cls : cl_teams[k] # NoTeam
          => cl_teams[k] \in Cls /\ k <= cl_teams[k] /\ cl_teams[k] < i
    BY <1>1, <1>2 DEF Filling, TypeOK, NoTeam
<1> QED BY <1>1, <1>2, <1>3, <1>4, <1>5 DEF InProgress, InLoop

-----------------------------------------------------------------------------

\* A shorter prefix of the array is part of a longer one.
LEMMA Prefix ==
    \A a, b \in Int : a <= b => \A k \in 0 .. a - 1 : k \in 0 .. b - 1
OBVIOUS

\* Storing the team of a CL appends it to the array.
LEMMA StoreArray ==
    ASSUME IndInv, InLoop, NEW st, Store(st)
    PROVE  /\ n_cl_teams' = n_cl_teams + 1
           /\ cl_teams'[n_cl_teams] = i
           /\ \A k \in Cls : k # n_cl_teams => cl_teams'[k] = cl_teams[k]
           /\ cl'[i] = st
           /\ \A c \in Cls : c # i => cl'[c] = cl[c]
<1>1. TypeOK /\ i \in Cls /\ n_cl_teams \in Cls
    BY LoopCl DEF IndInv
<1> QED BY <1>1 DEF TypeOK, Store

\* create_cls fills the array with the CLs in their order.
LEMMA NextFilling == IndInv /\ [Next]_vars => Filling'
<1> SUFFICES ASSUME IndInv, [Next]_vars PROVE Filling'
    OBVIOUS
<1>1. TypeOK /\ Control /\ Filling /\ InProgress
    BY DEF IndInv
<1>2. CASE \/ CreatePost \/ AddrExchange \/ RankExchange \/ ServiceTeam
           \/ AllocId
    BY <1>1, <1>2, EarlySteps DEF array, Filling, Done
<1>3. CASE CreateTest
    BY <1>1, <1>3 DEF CreateTest, clvars, Filling, Done
<1>4. CASE CreateCls
  <2>1. UNCHANGED array /\ user = "creating" /\ user' = "creating" /\ Done' = Done
    BY <1>1, <1>4 DEF CreateCls, array, InState, Control, Done, FirstCl
  <2>2. /\ call' = "cl_test" => last >= 0 /\ i' = last + 1
        /\ call' = "cl_loop" => last < i'
    BY <1>1, <1>4 DEF CreateCls, FirstCl, TypeOK
  <2> QED BY <1>1, <2>1, <2>2 DEF Filling, array
<1>5. CASE ClTest
  <2>1. i = last + 1 /\ last >= 0 /\ i' = i /\ last' = last /\ cl_teams' = cl_teams
    BY <1>1, <1>5 DEF ClTest, Control, Filling
  <2>2. Done' = Done /\ call' \in {"none", "cl_loop"}
    BY <1>5, <2>1 DEF ClTest, Done, Return
  <2>3. n_cl_teams' \in {n_cl_teams, n_cl_teams - 1}
    BY <1>5 DEF ClTest, AfterFailure
  <2>4. user = "creating" /\ n_cl_teams > 0
    BY <1>5, TestedCl
  <2>5. n_cl_teams \in Int /\ n_cl_teams' \in Int /\ n_cl_teams' <= n_cl_teams
    BY <1>1, <2>3 DEF TypeOK
  <2>6. \A k \in 0 .. n_cl_teams' - 1 : k \in 0 .. n_cl_teams - 1
    BY <2>5, Prefix
  <2>7. Done \in Int /\ n_cl_teams' <= Done'
    BY <1>1, <2>2, <2>4, <2>5 DEF Filling, Done, TypeOK
  <2> QED BY <1>1, <2>1, <2>2, <2>4, <2>6, <2>7 DEF Filling, TypeOK
<1>6. CASE ClFails
    BY <1>1, <1>6, LoopCl DEF ClFails, Filling, Done, InLoop, TypeOK, Cls
<1>7. CASE ClReady \/ ClInProgress
  <2>1. InLoop /\ \E st : Store(st)
    BY <1>7 DEF ClReady, ClInProgress
  <2>2. /\ n_cl_teams' = n_cl_teams + 1
        /\ cl_teams'[n_cl_teams] = i
        /\ \A k \in Cls : k # n_cl_teams => cl_teams'[k] = cl_teams[k]
    BY <2>1, StoreArray
  <2>3. /\ Done' = i + 1 /\ call' # "cl_test" /\ (call' = "cl_loop" => last' < i')
    BY <1>1, <1>7, <2>1, LoopCl
    DEF ClReady, ClInProgress, Stop, Return, Done, InLoop, TypeOK
  <2>4. \A k \in 0 .. n_cl_teams - 1 : k \in Cls /\ cl_teams[k] # NoTeam
    <3>1. user = "creating" /\ n_cl_teams \in Cls
      BY <2>1, LoopCl
    <3>2. \A k \in 0 .. n_cl_teams - 1 : k \in Cls
      BY <3>1, TeamAssumption DEF Cls
    <3> QED BY <1>1, <3>1, <3>2 DEF Filling
  <2> QED BY <2>1, <2>2, <2>3, <2>4, LoopCl DEF Filling, Cls, NoTeam
<1>8. CASE Activate
    BY <1>8 DEF Activate, BuildScoreMap, Return, Filling
<1>9. CASE Destroy \/ Destroying
    BY <1>1, <1>9
    DEF Destroy, Destroying, DestroyService, DestroyCl, DestroyFree, DestroyStops,
        GoOn, Control, Filling
<1>10. CASE UNCHANGED vars
    BY <1>1, <1>10 DEF vars, clvars, Filling, Done
<1>20. CASE ClTestUnwritten
    BY <1>1, <1>20, UnwrittenStep DEF Filling, Done
<1> QED
    BY <1>20, <1>2, <1>3, <1>4, <1>5, <1>6, <1>7, <1>8, <1>9, <1>10 DEF Next, Creating

\* Between two calls the CL in progress is the last one posted.
LEMMA NextInProgress == IndInv /\ [Next]_vars => InProgress'
<1> SUFFICES ASSUME IndInv, [Next]_vars PROVE InProgress'
    OBVIOUS
<1>1. TypeOK /\ Control /\ InProgress
    BY DEF IndInv
<1>2. CASE \/ CreatePost \/ AddrExchange \/ RankExchange \/ ServiceTeam
           \/ AllocId
  <2>1. \A c \in Cls : cl[c] # "creating"
    BY <1>1, <1>2, EarlySteps DEF InProgress, Cls
  <2> QED BY <1>2, <2>1, EarlySteps DEF array, InProgress
<1>3. CASE CreateTest
    BY <1>1, <1>3 DEF CreateTest, clvars, InProgress
<1>4. CASE CreateCls
  <2>1. UNCHANGED <<array, user, state>> /\ user = "creating" /\ call = "create"
    BY <1>1, <1>4 DEF CreateCls, array, InState, Control
  <2>2. call' = "cl_loop" => last = -1
    BY <1>1, <1>4 DEF CreateCls, TypeOK
  <2> QED BY <1>1, <2>1, <2>2 DEF InProgress, array, Cls
<1>5. CASE ClTest
  <2>1. /\ UNCHANGED <<last, state, cl_teams>> /\ last \in Cls
        /\ cl_teams[last] = last /\ user = "creating" /\ state = "CL_CREATE"
        /\ call # "cl_loop" /\ cl \in [Cls -> {"none", "creating", "ready",
                                               "gone", "lost", "twice"}]
    BY <1>1, <1>5, TestedCl DEF ClTest, TypeOK
  <2>2. CASE Return("INPROGRESS") /\ UNCHANGED <<cl, n_cl_teams>>
    BY <1>1, <2>1, <2>2 DEF InProgress, Return
  <2>3. CASE /\ call' = "cl_loop" /\ UNCHANGED user
             /\ \E st \in {"ready", "gone", "lost"} :
                   cl' = [cl EXCEPT ![last] = st]
    BY <1>1, <2>1, <2>3 DEF InProgress
  <2> QED BY <1>5, <2>1, <2>2, <2>3 DEF ClTest, Dropped
<1>6. CASE ClFails
  <2>1. \A c \in Cls : cl'[c] # "creating"
    BY <1>1, <1>6, LoopCl DEF ClFails, Dropped, TypeOK
  <2> QED BY <1>6, <2>1, LoopCl DEF ClFails, InLoop, InProgress
<1>7. CASE ClReady
  <2>1. \A c \in Cls : cl'[c] # "creating"
    BY <1>7, LoopCl, StoreArray DEF ClReady
  <2> QED BY <1>7, <2>1, LoopCl DEF ClReady, InLoop, InProgress
<1>8. CASE ClInProgress
  <2>1. InLoop /\ Store("creating") /\ last' = i /\ state' = state
        /\ call' = "none" /\ user' = "creating"
    BY <1>8 DEF ClInProgress, Stop, Return
  <2>2. \A c \in Cls : cl'[c] = "creating" => c = i
    BY <2>1, LoopCl, StoreArray
  <2>3. n_cl_teams \in Cls /\ n_cl_teams' = n_cl_teams + 1
    BY <2>1, LoopCl, StoreArray
  <2>4. n_cl_teams' > 0 /\ n_cl_teams' - 1 = n_cl_teams
    BY <2>3 DEF Cls
  <2> QED BY <2>1, <2>2, <2>4, LoopCl, StoreArray DEF InProgress
<1>9. CASE Activate
    BY <1>1, <1>9 DEF Activate, BuildScoreMap, Return, InProgress, clvars
<1>10. CASE Destroy \/ DestroyService \/ DestroyFree
    BY <1>1, <1>10
    DEF Destroy, DestroyService, DestroyFree, DestroyStops, clvars, GoOn, Control,
        InProgress
<1>11. CASE DestroyCl
  <2>1. \A c \in Cls : cl'[c] = "creating" => cl[c] = "creating"
    BY <1>1, <1>11 DEF DestroyCl, TypeOK
  <2>2. user = "destroying" /\ user' # "creating" /\ user' # "idle"
    BY <1>1, <1>11 DEF DestroyCl, Control, DestroyStops, GoOn
  <2> QED BY <1>1, <2>1, <2>2 DEF InProgress
<1>12. CASE UNCHANGED vars
    BY <1>1, <1>12 DEF vars, clvars, InProgress
<1>20. CASE ClTestUnwritten
    BY <1>1, <1>20, UnwrittenStep DEF InProgress
<1> QED
    BY <1>20, <1>2, <1>3, <1>4, <1>5, <1>6, <1>7, <1>8, <1>9, <1>10, <1>11, <1>12
    DEF Next, Creating, Destroying

\* The array keeps holding every live CL team once.
LEMMA NextHolds == IndInv /\ [Next]_vars => Holds'
<1> SUFFICES ASSUME IndInv, [Next]_vars PROVE Holds'
    OBVIOUS
<1>1. TypeOK /\ Control /\ Filling /\ InProgress /\ Holds
    BY DEF IndInv
<1> DEFINE Entries == 0 .. n_cl_teams - 1
<1>2. \A k \in Entries : k \in Cls
    BY <1>1, TeamAssumption DEF TypeOK, Cls
<1>3. ASSUME UNCHANGED <<cl, cl_teams, n_cl_teams>>, user # "destroy_failed"
      PROVE  Holds'
    BY <1>1, <1>3 DEF Holds, InArray
<1>4. CASE \/ CreatePost \/ AddrExchange \/ RankExchange \/ ServiceTeam
           \/ AllocId
    BY <1>3, <1>4, EarlySteps DEF array
<1>5. CASE CreateTest \/ CreateCls \/ Activate
    BY <1>1, <1>3, <1>5 DEF CreateTest, CreateCls, Activate, InState, Control, clvars
<1>6. CASE ClTest
  <2>1. /\ last \in Cls /\ cl_teams[last] = last /\ user = "creating"
        /\ n_cl_teams > 0 /\ cl_teams[n_cl_teams - 1] = last
        /\ cl_teams' = cl_teams /\ last # NoTeam
    BY <1>6, TestedCl DEF ClTest, Cls, NoTeam
  <2>2. CASE Return("INPROGRESS") /\ UNCHANGED <<cl, n_cl_teams>>
    BY <1>3, <2>1, <2>2
  <2>3. CASE cl' = [cl EXCEPT ![last] = "ready"] /\ n_cl_teams' = n_cl_teams
    <3>1. \A c \in Cls : /\ c # last => cl'[c] = cl[c]
                         /\ cl'[last] = "ready"
      BY <1>1, <2>1, <2>3 DEF TypeOK
    <3>2. InArray(last)
      BY <1>1, <2>1 DEF InArray, TypeOK
    <3> QED BY <1>1, <1>2, <2>1, <2>3, <3>1, <3>2 DEF Holds, InArray, TypeOK
  <2>4. CASE /\ \E d \in Dropped : cl' = [cl EXCEPT ![last] = d]
             /\ n_cl_teams' = n_cl_teams - 1
    <3>1. \A c \in Cls : /\ c # last => cl'[c] = cl[c]
                         /\ cl'[last] \in Dropped
      BY <1>1, <2>1, <2>4 DEF TypeOK
    <3>2. n_cl_teams \in Int
      BY <1>1 DEF TypeOK
    <3>3. \A k \in 0 .. n_cl_teams' - 1 : k \in Entries /\ k < n_cl_teams - 1
      BY <2>4, <3>2
    <3>4. n_cl_teams - 1 \in Entries
      BY <2>1, <3>2
    <3>5. \A k \in 0 .. n_cl_teams' - 1 : cl_teams[k] \in Cls /\ cl_teams[k] # last
      BY <1>1, <1>2, <2>1, <3>3, <3>4 DEF Holds, Filling, TypeOK, Cls, NoTeam
    <3>6. \A k \in Entries : k = n_cl_teams - 1 \/ k \in 0 .. n_cl_teams' - 1
      BY <2>4, <3>2
    <3>7. \A c \in Cls : c # last /\ InArray(c) => InArray(c)'
      BY <2>1, <3>6 DEF InArray
    <3> QED BY <1>1, <2>1, <3>1, <3>3, <3>5, <3>7 DEF Holds, Dropped
  <2> QED BY <1>6, <2>1, <2>2, <2>3, <2>4 DEF ClTest, AfterFailure
<1>7. CASE ClFails
  <2>1. /\ \A c \in Cls : c # i => cl'[c] = cl[c]
        /\ cl'[i] \in {"gone", "lost", "none"}
        /\ UNCHANGED <<cl_teams, n_cl_teams, user>>
    BY <1>1, <1>7, LoopCl DEF ClFails, Dropped, TypeOK
  <2>2. \A k \in Entries : cl_teams[k] # NoTeam => cl_teams[k] \in Cls \ {i}
    BY <1>2, <1>7, LoopCl DEF ClFails, Cls
  <2> QED BY <1>1, <2>1, <2>2 DEF Holds, InArray
<1>8. ASSUME InLoop, NEW st \in {"ready", "creating"}, Store(st),
             user' # "destroy_failed"
      PROVE  Holds'
  <2>1. /\ n_cl_teams' = n_cl_teams + 1
        /\ cl_teams'[n_cl_teams] = i
        /\ \A k \in Cls : k # n_cl_teams => cl_teams'[k] = cl_teams[k]
        /\ cl'[i] = st
        /\ \A c \in Cls : c # i => cl'[c] = cl[c]
    BY <1>8, StoreArray
  <2>2. /\ n_cl_teams \in Int /\ n_cl_teams \in Cls /\ i \in Cls
        /\ user = "creating"
    BY <1>8, LoopCl DEF Cls
  <2>3. /\ \A k \in 0 .. n_cl_teams' - 1 : k \in Entries \/ k = n_cl_teams
        /\ \A k \in Entries : k \in 0 .. n_cl_teams' - 1 /\ k < n_cl_teams
        /\ n_cl_teams \in 0 .. n_cl_teams' - 1
    BY <2>1, <2>2 DEF Cls
  <2>4. \A k \in Entries : /\ cl_teams'[k] = cl_teams[k]
                           /\ cl_teams[k] \in Cls /\ cl_teams[k] < i
    BY <1>1, <1>2, <1>8, <2>1, <2>2, <2>3, LoopCl DEF Filling
  <2>5. \A k, m \in 0 .. n_cl_teams' - 1 : m < k => cl_teams'[m] < cl_teams'[k]
    <3> SUFFICES ASSUME NEW k \in 0 .. n_cl_teams' - 1,
                        NEW m \in 0 .. n_cl_teams' - 1, m < k
                 PROVE  cl_teams'[m] < cl_teams'[k]
        OBVIOUS
    <3>1. m \in Entries
      BY <2>1, <2>2, <2>3
    <3>2. CASE k = n_cl_teams
      BY <2>1, <2>4, <3>1, <3>2
    <3>3. CASE k \in Entries
      BY <1>1, <2>4, <3>1, <3>3 DEF Holds, Cls, NoTeam
    <3> QED BY <2>3, <3>2, <3>3
  <2>6. \A k \in 0 .. n_cl_teams' - 1 : cl'[cl_teams'[k]] \in {"ready", "creating"}
    BY <1>1, <2>1, <2>2, <2>3, <2>4 DEF Holds, Cls, NoTeam
  <2>7. \A c \in Cls : c = i \/ InArray(c) => InArray(c)'
    BY <2>1, <2>3, <2>4 DEF InArray
  <2>8. \A c \in Cls : /\ cl'[c] \in {"ready", "creating"} => InArray(c)'
                       /\ cl'[c] # "twice"
    BY <1>1, <2>1, <2>7 DEF Holds
  <2> QED BY <2>5, <2>6, <2>8 DEF Holds
<1>9. CASE ClReady
    BY <1>1, <1>8, <1>9 DEF ClReady, InLoop, Control
<1>10. CASE ClInProgress
    BY <1>8, <1>10 DEF ClInProgress, Stop, Return
<1>11. CASE Destroy \/ DestroyService \/ DestroyFree
    BY <1>1, <1>3, <1>11
    DEF Destroy, DestroyService, DestroyFree, clvars, Control
<1>12. CASE DestroyCl
  <2>1. /\ user = "destroying" /\ i \in Entries /\ n_cl_teams' = n_cl_teams
        /\ i \in Cls
    BY <1>1, <1>2, <1>12 DEF DestroyCl, Control, TypeOK
  <2>2. CASE UNCHANGED <<cl, cl_teams>>
    BY <1>3, <2>1, <2>2
  <2> DEFINE c == cl_teams[i]
  <2>3. CASE /\ c # NoTeam
             /\ cl' = [cl EXCEPT ![c] = IF @ = "gone" THEN "twice" ELSE "gone"]
    <3>1. c \in Cls /\ cl[c] \in {"ready", "creating"}
      BY <1>1, <2>1, <2>3 DEF Holds, TypeOK
    <3>2. cl'[c] = "gone" /\ \A d \in Cls : d # c => cl'[d] = cl[d]
      BY <1>1, <2>3, <3>1 DEF TypeOK
    <3>3. CASE cl_teams' = Cleared
      <4>1. cl_teams'[i] = NoTeam /\ \A k \in Cls : k # i => cl_teams'[k] = cl_teams[k]
        BY <1>1, <2>1, <3>3 DEF Cleared, TypeOK
      <4>2. \A k \in Entries : k # i => cl_teams[k] # c
        BY <1>1, <1>2, <2>1, <2>3, <3>1 DEF Holds, TypeOK, Cls, NoTeam
      <4>3. \A d \in Cls : d # c /\ InArray(d) => InArray(d)'
        BY <1>2, <2>1, <4>1 DEF InArray
      <4> HIDE DEF c
      <4>4. \A k \in Entries : cl_teams'[k] # NoTeam =>
               k # i /\ cl_teams'[k] = cl_teams[k] /\ cl_teams[k] \in Cls \ {c}
        BY <1>1, <1>2, <4>1, <4>2 DEF TypeOK
      <4>5. \A d \in Cls : /\ cl'[d] \in {"ready", "creating"} => InArray(d)'
                           /\ cl'[d] # "twice"
        BY <1>1, <3>2, <4>3 DEF Holds
      <4>6. \A k \in Entries : cl_teams'[k] # NoTeam
                => cl'[cl_teams'[k]] \in {"ready", "creating"}
        BY <1>1, <2>1, <3>2, <4>4 DEF Holds
      <4>7. \A k, m \in Entries :
                m < k /\ cl_teams'[m] # NoTeam /\ cl_teams'[k] # NoTeam
                  => cl_teams'[m] < cl_teams'[k]
        BY <1>1, <4>4 DEF Holds
      <4> QED BY <2>1, <4>5, <4>6, <4>7 DEF Holds
    <3>4. CASE user' = "destroy_failed" /\ cl_teams' = cl_teams
      BY <1>1, <2>1, <3>1, <3>2, <3>4 DEF Holds, InArray
    <3> QED BY <1>12, <2>3, <3>1, <3>2, <3>3, <3>4 DEF DestroyCl
  <2> QED BY <1>12, <2>2, <2>3 DEF DestroyCl
<1>13. CASE UNCHANGED vars
    BY <1>1, <1>13 DEF vars, clvars, Holds, InArray
<1>20. CASE ClTestUnwritten
    BY <1>1, <1>20, UnwrittenStep DEF Holds, InArray
<1> QED
    BY <1>20, <1>4, <1>5, <1>6, <1>7, <1>9, <1>10, <1>11, <1>12, <1>13
    DEF Next, Creating, Destroying

\* A team is active only with a CL, and its destruction proceeds through the
\* array.
LEMMA NextEmptying == IndInv /\ [Next]_vars => Emptying'
<1> SUFFICES ASSUME IndInv, [Next]_vars PROVE Emptying'
    OBVIOUS
<1>1. TypeOK /\ Control /\ Filling /\ Emptying
    BY DEF IndInv
<1>2. CASE \/ CreatePost \/ AddrExchange \/ RankExchange \/ ServiceTeam
           \/ AllocId
    BY <1>2, EarlySteps DEF Emptying
<1>3. CASE CreateTest \/ CreateCls
    BY <1>1, <1>3 DEF CreateTest, CreateCls, InState, Control, Emptying
<1>4. CASE ClTest \/ ClFails \/ ClReady \/ ClInProgress
    BY <1>1, <1>4
    DEF ClTest, ClFails, ClReady, ClInProgress, InLoop, Stop, Return, Control,
        Emptying
<1>5. CASE Activate
  <2>1. /\ UNCHANGED <<cl_teams, n_cl_teams>> /\ user = "creating"
        /\ call' = "none" /\ user' \in {"created", "failed"}
        /\ user' = "created" => n_cl_teams > 0
    BY <1>1, <1>5 DEF Activate, BuildScoreMap, AnyCl, Return, clvars, Control
  <2> QED BY <1>1, <2>1 DEF Filling, Emptying
<1>6. CASE Destroy
    BY <1>1, <1>6 DEF Destroy, clvars, srvvars, Emptying, TypeOK
<1>7. CASE DestroyService
    BY <1>1, <1>7 DEF DestroyService, DestroyStops, GoOn, clvars, Control, Emptying
<1>8. CASE DestroyCl
  <2>1. /\ user = "destroying" /\ i < n_cl_teams /\ n_cl_teams' = n_cl_teams
        /\ i \in Cls /\ \A k \in 0 .. i - 1 : k \in Cls /\ cl_teams[k] = NoTeam
        /\ user' \in {"destroying", "destroy_failed"} /\ i \in Int
        /\ n_cl_teams \in Int
    BY <1>1, <1>8, TeamAssumption
    DEF DestroyCl, Control, DestroyStops, GoOn, TypeOK, Emptying, Cls
  <2>2. CASE cl_teams[i] = NoTeam /\ i' = i + 1 /\ UNCHANGED cl_teams
    <3>1. \A k \in 0 .. i' - 1 : k \in 0 .. i - 1 \/ k = i
      BY <2>1, <2>2
    <3> QED BY <2>1, <2>2, <3>1 DEF Emptying
  <2>3. CASE cl_teams' = Cleared /\ i' = i + 1
    <3>1. \A k \in 0 .. i' - 1 : k \in 0 .. i - 1 \/ k = i
      BY <2>1, <2>3
    <3>2. \A k \in 0 .. i' - 1 : cl_teams'[k] = NoTeam
      BY <1>1, <2>1, <2>3, <3>1 DEF Cleared, TypeOK
    <3> QED BY <2>1, <2>3, <3>2 DEF Emptying
  <2>4. CASE call' = "none"
    BY <2>1, <2>4 DEF Emptying
  <2> QED BY <1>8, <2>2, <2>3, <2>4 DEF DestroyCl, DestroyStops
<1>9. CASE DestroyFree
    BY <1>1, <1>9 DEF DestroyFree, Control, Emptying
<1>10. CASE UNCHANGED vars
    BY <1>1, <1>10 DEF vars, clvars, srvvars, Emptying
<1>20. CASE ClTestUnwritten
    BY <1>1, <1>20, UnwrittenStep DEF Emptying
<1> QED
    BY <1>20, <1>2, <1>3, <1>4, <1>5, <1>6, <1>7, <1>8, <1>9, <1>10
    DEF Next, Creating, Destroying

\* A stage leaves behind what the team needs of it, and destruction frees it.
LEMMA NextProvided == IndInv /\ [Next]_vars => Provided'
<1> SUFFICES ASSUME IndInv, [Next]_vars PROVE Provided'
    OBVIOUS
<1> USE DEF Provided, OwnService, oobvars, srvvars, clvars, GoOn, Return
<1>1. TypeOK /\ Control /\ Stages /\ Provided
    BY DEF IndInv
<1>2. CASE CreatePost
  <2>1. /\ UNCHANGED <<params, addr_storage, ctx_ranks, service_team>>
        /\ addr_storage = "null" /\ ctx_ranks = "null"
        /\ user' \in {"creating", "rejected"}
    BY <1>1, <1>2, Zenon DEF CreatePost
  <2>2. (id' = "none") <=> ~params.external
    BY <1>1, <1>2 DEF CreatePost
  <2>3. \/ state' = "ADDR_EXCHANGE"
        \/ state' = "CL_CREATE" /\ params.single
    BY <1>1, <1>2, Zenon DEF CreatePost, Control
  <2> QED BY <2>1, <2>2, <2>3
<1>3. CASE CreateTest
    BY <1>1, <1>3 DEF CreateTest
<1>4. CASE AddrExchange
  <2>0. /\ UNCHANGED <<params, ctx_ranks, service_team, id>>
        /\ state = "ADDR_EXCHANGE" /\ user = "creating" /\ ~params.storage
    BY <1>1, <1>4 DEF AddrExchange, InState, Control
  <2>1. /\ user' \in {"creating", "failed"}
        /\ state' \in {"ADDR_EXCHANGE", "SERVICE_TEAM"}
    BY <2>0, <1>4 DEF AddrExchange, Answer
  <2>2. state' = "SERVICE_TEAM" => addr_storage' # "lens"
    BY <1>1, <1>4 DEF AddrExchange, InState, Answer, Control
  <2> QED BY <1>1, <2>0, <2>1, <2>2
<1>5. CASE RankExchange
  <2>1. /\ UNCHANGED <<params, addr_storage, service_team, id>>
        /\ state = "ADDR_EXCHANGE" /\ user = "creating" /\ params.storage
        /\ user' \in {"creating", "failed"}
        /\ state' \in {"ADDR_EXCHANGE", "SERVICE_TEAM"}
    BY <1>1, <1>5 DEF RankExchange, InState, Answer, Control
  <2>2. ctx_ranks' = "dangling" => state' = state /\ user' = "failed"
    BY <1>1, <1>5 DEF RankExchange, InState, Answer, Control
  <2> QED BY <1>1, <2>1, <2>2
<1>6. CASE ServiceTeam
    BY <1>1, <1>6 DEF ServiceTeam, NeedsService, InState, Answer, Control
<1>7. CASE AllocId
    BY <1>1, <1>7 DEF AllocId, InState, Control
<1>8. CASE CreateCls
    BY <1>1, <1>8 DEF CreateCls, InState, Control
<1>9. CASE ClTest
    BY <1>1, <1>9 DEF ClTest, Control
<1>10. CASE ClFails \/ ClReady \/ ClInProgress
    BY <1>1, <1>10 DEF ClFails, ClReady, ClInProgress, InLoop, Stop, Control
<1>11. CASE Activate
    BY <1>1, <1>11 DEF Activate, BuildScoreMap, Control
<1>12. CASE Destroy
    BY <1>1, <1>12 DEF Destroy, Control
<1>13. CASE DestroyService
    BY <1>1, <1>13 DEF DestroyService, DestroyStops, Control
<1>14. CASE DestroyCl
    BY <1>1, <1>14 DEF DestroyCl, DestroyStops, Control
<1>15. CASE DestroyFree
    BY <1>1, <1>15 DEF DestroyFree, Control, TypeOK
<1>16. CASE UNCHANGED vars
    BY <1>1, <1>16 DEF vars
<1>17. CASE ClTestUnwritten
    BY <1>1, <1>17, UnwrittenStep
<1> QED
    BY <1>2, <1>3, <1>4, <1>5, <1>6, <1>7, <1>8, <1>9, <1>10, <1>11, <1>12,
       <1>13, <1>14, <1>15, <1>16, <1>17
    DEF Next, Creating, Destroying

\* Only create_cls loses a CL team, one that failed.
LEMMA NextLost == IndInv /\ [Next]_vars => Lost'
<1> SUFFICES ASSUME IndInv, [Next]_vars PROVE Lost'
    OBVIOUS
<1>1. TypeOK /\ Lost
    BY DEF IndInv
<1>2. params' = params
    BY DEF Next, vars, CreatePost, CreateTest, Creating, AddrExchange, RankExchange,
        ServiceTeam, AllocId, CreateCls, ClTest, ClTestUnwritten, ClFails, ClReady,
        ClInProgress, Activate, Destroy, Destroying, DestroyService, DestroyCl,
        DestroyFree
<1>3. CASE UNCHANGED cl
    BY <1>1, <1>2, <1>3 DEF Lost
<1>4. CASE ClTest
    BY <1>1, <1>2, <1>4 DEF ClTest, Lost, TypeOK
<1>5. CASE ClFails
    BY <1>1, <1>2, <1>5 DEF ClFails, Lost, TypeOK
<1>6. CASE ClReady \/ ClInProgress
    BY <1>1, <1>2, <1>6 DEF ClReady, ClInProgress, Store, Lost, TypeOK
<1>7. CASE DestroyCl
    BY <1>1, <1>2, <1>7 DEF DestroyCl, Lost, TypeOK
<1> QED
    BY <1>3, <1>4, <1>5, <1>6, <1>7
    DEF Next, vars, CreatePost, CreateTest, Creating, AddrExchange, RankExchange,
        ServiceTeam, AllocId, CreateCls, ClTestUnwritten, Activate, Destroy,
        Destroying, DestroyService, DestroyFree, clvars

-----------------------------------------------------------------------------

\* The invariant holds throughout the life of the team.
THEOREM Invariance == Spec => []IndInv
<1>1. IndInv /\ [Next]_vars => IndInv'
    BY NextType, NextControl, NextStages, NextProvided, NextFilling,
       NextInProgress, NextHolds, NextEmptying, NextLost
    DEF IndInv
<1> QED BY InitInv, <1>1, PTL DEF Spec

\* Every field of a team keeps its type, and the counters of create_cls and
\* destroy stay inside the array of CL teams, whichever CLs fail.
THEOREM TypeCorrect == Spec => []TypeOK
BY Invariance, PTL DEF IndInv

\* The allreduce that allocates the id of a team always has a service team to run
\* on, the context's or the team's own.
THEOREM IdHasService == Spec => []ServiceTeamThere
<1>1. IndInv => ServiceTeamThere
    BY DEF IndInv, Stages, ServiceTeamThere
<1> QED BY Invariance, <1>1, PTL

\* What ucc_team_create_test reports as created is complete: the score map is
\* there, there is a CL, every CL team of the array is ready and there once, no
\* operation of the creation is outstanding, and a team of several members has the
\* id and the service team its CLs need.
THEOREM CreatedComplete == Spec => []CreatedIsReady
<1>1. IndInv => CreatedIsReady
  <2> SUFFICES ASSUME IndInv, user = "created" PROVE CreatedIsReady
      BY DEF CreatedIsReady
  <2>1. /\ TypeOK /\ Control /\ Stages /\ InProgress /\ Holds /\ Emptying
        /\ state = "ACTIVE" /\ score_map /\ n_cl_teams > 0
        /\ ~addr_req /\ ~oob_req /\ ~sreq /\ service_team # "creating"
    BY DEF IndInv, Control, Stages, Emptying
  <2>2. \A k \in 0 .. n_cl_teams - 1 : k \in Cls /\ cl_teams[k] \in Cls
    BY <2>1, TeamAssumption DEF TypeOK, Cls, Emptying
  <2>3. \A k \in 0 .. n_cl_teams - 1 : cl[cl_teams[k]] = "ready"
    BY <2>1, <2>2 DEF Holds, InProgress, Emptying
  <2>4. \A k \in 0 .. n_cl_teams - 1 : \A m \in 0 .. k - 1 :
            m \in 0 .. n_cl_teams - 1 /\ m < k
    BY <2>1 DEF TypeOK
  <2>5. \A k \in 0 .. n_cl_teams - 1 : \A m \in 0 .. k - 1 :
            cl_teams[m] # cl_teams[k]
    BY <2>1, <2>2, <2>4 DEF Holds, Emptying, Cls
  <2>6. /\ addr_storage # "lens" /\ ctx_ranks # "dangling"
        /\ ~params.single => /\ params.need_id => id # "none"
                             /\ OwnService => service_team = "ready"
    BY <2>1 DEF IndInv, Provided
  <2> QED BY <2>1, <2>3, <2>5, <2>6 DEF CreatedIsReady
<1> QED BY Invariance, <1>1, PTL

\* ucc_team_destroy, called as often as it takes, destroys no CL team twice, and
\* leaves no ready CL team, service team, reference, request, address, array,
\* topology, score map or id when it returns UCC_OK; only a CL team that failed
\* during the creation may be lost.
THEOREM DestructionComplete == Spec => []NothingLeft
<1>1. IndInv => NothingLeft
  <2> SUFFICES ASSUME IndInv PROVE NothingLeft
      OBVIOUS
  <2>1. /\ TypeOK /\ Control /\ Stages /\ Refs /\ Provided
        /\ InProgress /\ Holds /\ Emptying /\ Lost
    BY DEF IndInv
  <2>2. ASSUME user = "destroyed"
        PROVE  /\ \A c \in Cls : cl[c] \in {"none", "gone", "lost"}
               /\ service_team = "null" /\ service_refs = 0
               /\ ~addr_req /\ ~oob_req /\ ~oob_info /\ ~sreq
               /\ addr_storage = "null" /\ ctx_ranks = "null"
               /\ ~topo /\ ~score_map /\ id # "internal"
    <3>1. \A c \in Cls : ~InArray(c)
      BY <2>1, <2>2 DEF InArray, Emptying, Cls, NoTeam
    <3>2. \A c \in Cls : cl[c] \in {"none", "gone", "lost"}
      BY <2>1, <3>1 DEF Holds, TypeOK
    <3> QED BY <2>1, <2>2, <3>2 DEF Control, Stages, Refs, Provided, Emptying
  <2> QED BY <2>1, <2>2 DEF NothingLeft, Holds, Lost
<1> QED BY Invariance, <1>1, PTL

\* A set with no other element than x has at most one.
LEMMA AtMostOne ==
    ASSUME NEW S, NEW x, S \subseteq {x}
    PROVE  Cardinality(S) \in {0, 1} /\ (S = {} => Cardinality(S) = 0)
<1>1. S = {} \/ S = {x}
    OBVIOUS
<1> QED BY <1>1, FS_EmptySet, FS_Singleton

\* Between the calls of ucc_team_create_test at most one operation of the creation
\* is outstanding, so that no two of them use the out-of-band allgather at once.
THEOREM OneStage == Spec => []OneOobAtATime
<1>1. IndInv => OneOobAtATime
  <2> SUFFICES ASSUME IndInv, user = "creating" PROVE OneOobAtATime
      BY DEF OneOobAtATime
  <2> DEFINE stages == <<addr_req, oob_req, service_team = "creating", sreq>>
             S      == {k \in DOMAIN stages : stages[k]}
             C      == {c \in Cls : cl[c] = "creating"}
  <2>1. TypeOK /\ Stages /\ InProgress
    BY DEF IndInv
  <2>2. /\ stages[1] = addr_req
        /\ stages[2] = oob_req
        /\ stages[3] = (service_team = "creating")
        /\ stages[4] = sreq
        /\ DOMAIN stages = 1 .. 4
    OBVIOUS
  <2> HIDE DEF stages
  <2>3. \A k \in 1 .. 4 : k = 1 \/ k = 2 \/ k = 3 \/ k = 4
    OBVIOUS
  <2>4. \A k \in S : \/ k = 1 /\ addr_req
                     \/ k = 2 /\ oob_req
                     \/ k = 3 /\ service_team = "creating"
                     \/ k = 4 /\ sreq
    BY Zenon, <2>2, <2>3
  <2>5. C \subseteq {last} /\ (state # "CL_CREATE" => C = {})
    BY <2>1 DEF InProgress
  <2> HIDE DEF S, C
  <2>6. state = "CL_CREATE" => S = {}
    BY <2>1, <2>4 DEF Stages
  <2>7. PICK x : S \subseteq {x}
    <3>1. CASE state = "ADDR_EXCHANGE"
      <4>1. S \subseteq {IF params.storage THEN 2 ELSE 1}
        BY <2>1, <2>4, <3>1 DEF Stages
      <4> QED BY Zenon, <4>1
    <3>2. CASE state # "ADDR_EXCHANGE"
      <4>1. S \subseteq {IF state = "SERVICE_TEAM" THEN 3 ELSE 4}
        BY <2>1, <2>4, <3>2 DEF Stages
      <4> QED BY Zenon, <4>1
    <3> QED BY <3>1, <3>2
  <2>8. Cardinality(S) \in {0, 1} /\ (S = {} => Cardinality(S) = 0)
    BY <2>7, AtMostOne
  <2>9. Cardinality(C) \in {0, 1} /\ (C = {} => Cardinality(C) = 0)
    BY <2>5, AtMostOne
  <2>10. Cardinality(S) + Cardinality(C) <= 1
    BY <2>5, <2>6, <2>8, <2>9
  <2> QED BY <2>10 DEF OneOobAtATime, S, C, stages
<1> QED BY Invariance, <1>1, PTL

\* A CL team that became ready stays so, whatever happens to the CLs after it,
\* until ucc_team_destroy destroys it.
ReadyStays ==
    [][\A c \in Cls : cl[c] = "ready" => cl'[c] = "ready" \/ call = "destroy"]_vars

\* The failure or the delay of a CL in create_cls does not touch the teams of the
\* CLs that are ready.
THEOREM ReadyKept == Spec => ReadyStays
<1> DEFINE Stays == \A c \in Cls : cl[c] = "ready" => cl'[c] = "ready" \/ call = "destroy"
<1>1. IndInv /\ [Next]_vars => [Stays]_vars
  <2> SUFFICES ASSUME IndInv, Next PROVE Stays
      OBVIOUS
  <2>1. CASE UNCHANGED cl \/ call = "destroy"
    BY <2>1
  <2>2. CASE ClTest
    <3>1. /\ \A c \in Cls : c # last => cl'[c] = cl[c]
          /\ cl[last] = "creating" /\ last \in Cls
      BY <2>2, TestedCl DEF ClTest, IndInv, TypeOK
    <3> QED BY <3>1
  <2>3. CASE ClFails \/ ClReady \/ ClInProgress
    <3>1. InLoop /\ \A c \in Cls : c # i => cl'[c] = cl[c]
      BY <2>3, StoreArray, LoopCl
      DEF ClFails, ClReady, ClInProgress, IndInv, TypeOK
    <3>2. cl[i] # "ready"
      <4>1. i \in Cls /\ n_cl_teams \in Cls
        BY <3>1, LoopCl
      <4>2. \A k \in 0 .. n_cl_teams - 1 : k \in Cls
        BY <4>1, TeamAssumption DEF Cls
      <4>3. ~InArray(i)
        BY <3>1, <4>1, <4>2, LoopCl DEF InArray, Cls, NoTeam
      <4> QED BY <4>1, <4>3 DEF IndInv, Holds
    <3> QED BY <3>1, <3>2
  <2> QED
    BY <2>1, <2>2, <2>3
    DEF Next, CreatePost, CreateTest, Creating, AddrExchange, RankExchange,
        ServiceTeam, AllocId, CreateCls, ClTestUnwritten, Activate, Destroy,
        Destroying, DestroyService, DestroyCl, DestroyFree, clvars
<1> QED BY Invariance, <1>1, PTL DEF Spec, ReadyStays

-----------------------------------------------------------------------------

\* create_cls tests the CL in progress through cl_teams[last_team_create_posted],
\* an index of the CLs used as an index of the array.  The two agree when no CL
\* that may fail comes before one that needs time.
NoneFailsBefore(c) == \A f \in params.failing : f >= c

\* As long as no CL failed, the array has an entry for every CL that was tried.
Aligned ==
    user = "creating" =>
        /\ call = "cl_loop" /\ NoneFailsBefore(i) => n_cl_teams = i
        /\ call # "cl_loop" /\ last >= 0 =>
              /\ last \in params.slow
              /\ NoneFailsBefore(last)
                   => n_cl_teams = last + 1 /\ cl_teams[last] = last

\* The loop over the CLs keeps the two indices together until a CL fails.
LEMMA NextAligned == IndInv /\ Aligned /\ [Next]_vars => Aligned'
<1> SUFFICES ASSUME IndInv, Aligned, [Next]_vars PROVE Aligned'
    OBVIOUS
<1>1. TypeOK /\ Control /\ Filling
    BY DEF IndInv
<1>2. params \in Params /\ params.failing \subseteq Int
    BY <1>1, TeamAssumption DEF TypeOK
<1>3. params' = params
    BY DEF Next, vars, CreatePost, CreateTest, Creating, AddrExchange, RankExchange,
        ServiceTeam, AllocId, CreateCls, ClTest, ClTestUnwritten, ClFails, ClReady,
        ClInProgress, Activate, Destroy, Destroying, DestroyService, DestroyCl, DestroyFree
<1>4. CASE \/ CreatePost \/ AddrExchange \/ RankExchange \/ ServiceTeam
           \/ AllocId
    BY <1>4, EarlySteps DEF array, Aligned
<1>5. CASE CreateTest
    BY <1>3, <1>5 DEF CreateTest, clvars, Aligned, NoneFailsBefore
<1>6. CASE CreateCls
  <2>1. /\ call = "create" /\ user = "creating" /\ user' = "creating"
        /\ UNCHANGED <<last, n_cl_teams, cl_teams>> /\ i' = last + 1
        /\ call' = IF last >= 0 THEN "cl_test" ELSE "cl_loop"
    BY <1>1, <1>6 DEF CreateCls, InState, Control, FirstCl
  <2>2. last = -1 => n_cl_teams = 0
    BY <1>1, <2>1 DEF Filling, Done, TypeOK
  <2> QED BY <1>1, <1>3, <2>1, <2>2 DEF Aligned, NoneFailsBefore, TypeOK
<1>7. CASE ClTest
  <2>1. /\ last \in Cls /\ cl_teams[last] = last /\ user = "creating"
        /\ UNCHANGED <<last, cl_teams, i>> /\ i = last + 1 /\ call = "cl_test"
        /\ last \in Int /\ last >= 0
    BY <1>1, <1>7, TestedCl DEF ClTest, Control, Filling, TypeOK
  <2>2. CASE Return("INPROGRESS") /\ UNCHANGED <<cl, n_cl_teams>>
    BY <1>3, <2>1, <2>2 DEF Return, Aligned, NoneFailsBefore
  <2>3. CASE call' = "cl_loop" /\ UNCHANGED <<user, n_cl_teams>>
    <3>1. NoneFailsBefore(last + 1) => NoneFailsBefore(last)
      BY <1>2, <2>1 DEF NoneFailsBefore
    <3> QED BY <1>3, <2>1, <2>3, <3>1 DEF Aligned, NoneFailsBefore
  <2>4. CASE call' = "cl_loop" /\ UNCHANGED user /\ last \in params.failing
    <3>1. ~NoneFailsBefore(last + 1)
      BY <1>2, <2>1, <2>4 DEF NoneFailsBefore
    <3> QED BY <1>3, <2>1, <2>4, <3>1 DEF Aligned, NoneFailsBefore
  <2> QED BY <1>7, <2>1, <2>2, <2>3, <2>4 DEF ClTest
<1>8. CASE ClFails
  <2>1. /\ user' = "creating" /\ call' = "cl_loop" /\ i \in params.failing
        /\ i' = i + 1 /\ i \in Int
    BY <1>1, <1>8, LoopCl DEF ClFails, InLoop, Control, TypeOK
  <2>2. ~NoneFailsBefore(i)'
    BY <1>2, <1>3, <2>1 DEF NoneFailsBefore
  <2> QED BY <2>1, <2>2 DEF Aligned
<1>9. CASE ClReady \/ ClInProgress
  <2>1. /\ InLoop /\ user = "creating" /\ i \in Int /\ call = "cl_loop"
        /\ \E st : Store(st)
    BY <1>1, <1>9, LoopCl DEF ClReady, ClInProgress, InLoop, TypeOK
  <2>2. n_cl_teams' = n_cl_teams + 1 /\ cl_teams'[n_cl_teams] = i
    BY <2>1, StoreArray
  <2>3. NoneFailsBefore(i + 1) => NoneFailsBefore(i)
    BY <1>2, <2>1 DEF NoneFailsBefore
  <2>4. CASE ClReady
    <3>1. i' = i + 1 /\ call' = "cl_loop"
      BY <2>1, <2>4 DEF ClReady
    <3> QED BY <1>3, <2>1, <2>2, <2>3, <3>1 DEF Aligned, NoneFailsBefore
  <2>5. CASE ClInProgress
    <3>1. last' = i /\ i \in params.slow /\ call' = "none"
      BY <2>5 DEF ClInProgress, Stop, Return
    <3> QED BY <1>3, <2>1, <2>2, <3>1 DEF Aligned, NoneFailsBefore
  <2> QED BY <1>9, <2>4, <2>5
<1>10. CASE Activate
    BY <1>10 DEF Activate, BuildScoreMap, Return, Aligned
<1>11. CASE Destroy \/ Destroying
    BY <1>1, <1>11
    DEF Destroy, Destroying, DestroyService, DestroyCl, DestroyFree, DestroyStops,
        GoOn, Control, Aligned
<1>12. CASE UNCHANGED vars
    BY <1>12 DEF vars, clvars, Aligned, NoneFailsBefore
<1>20. CASE ClTestUnwritten
    BY <1>1, <1>20, UnwrittenStep DEF Aligned
<1> QED
    BY <1>20, <1>4, <1>5, <1>6, <1>7, <1>8, <1>9, <1>10, <1>11, <1>12 DEF Next, Creating

\* When no CL that may fail comes before one that needs time, the entry through
\* which create_cls tests the CL in progress was written.
THEOREM TestedIsPosted ==
    Spec => [](SlowBeforeFailing(params) => TestsPostedTeam)
<1>1. Init => Aligned
    BY DEF Init, Aligned
<1>2. IndInv /\ Aligned => (SlowBeforeFailing(params) => TestsPostedTeam)
  <2> SUFFICES ASSUME IndInv, Aligned, call = "cl_test",
                      SlowBeforeFailing(params)
               PROVE  cl_teams[last] # NoTeam
      BY DEF TestsPostedTeam
  <2>1. user = "creating" /\ last >= 0 /\ last \in Int
    BY DEF IndInv, Control, Filling, TypeOK
  <2>2. NoneFailsBefore(last)
    BY <2>1 DEF Aligned, IndInv, TypeOK, SlowBeforeFailing, NoneFailsBefore
  <2> QED BY <2>1, <2>2 DEF Aligned, NoTeam
<1> QED BY Invariance, <1>1, <1>2, NextAligned, PTL DEF Spec

=============================================================================
