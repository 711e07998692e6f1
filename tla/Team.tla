-------------------------------- MODULE Team --------------------------------
(***************************************************************************)
(* The life of a team at one process (core/ucc_team.c): posting its        *)
(* creation, the state machine that ucc_team_create_test advances with the *)
(* exchange of addresses and the loop over the CLs, and ucc_team_destroy.  *)
(* What other components answer (the out-of-band allgather, the TL of the  *)
(* service team, the allocation of the id of TeamIds, the CLs) is chosen   *)
(* at each call.                                                           *)
(***************************************************************************)
EXTENDS Integers, FiniteSets

CONSTANTS NCls,     \* context->n_cl_ctx
          Params    \* what the user and the context ask for, what CLs may do

ASSUME TeamAssumption ==
    /\ NCls \in Nat \ {0}
    /\ Params \subseteq [single   : BOOLEAN,   \* a team of size 1
                         storage  : BOOLEAN,   \* addresses are on the context
                         ep_map   : BOOLEAN,   \* UCC_TEAM_PARAM_FIELD_EP_MAP
                         service  : BOOLEAN,   \* SERVICE_TEAM_REQUIRED
                         need_id  : BOOLEAN,   \* TEAM_ID_REQUIRED
                         external : BOOLEAN,   \* the user gave a team id
                         ctx_service : BOOLEAN,  \* context->service_team
                         failing  : SUBSET (0 .. NCls - 1), \* CLs that may fail
                         slow     : SUBSET (0 .. NCls - 1)] \* or need time

Cls    == 0 .. NCls - 1
NoTeam == -1      \* an entry of cl_teams that was never written, or is NULL
Answer == {"OK", "INPROGRESS", "ERR"}

VARIABLES
    params,
    user,          \* what the user knows of the handle
    call,          \* where in a call of the API the process is
    state,         \* team->state
    addr_storage,  \* "null", "lens" (first exchange) or "addrs" (second)
    addr_req,      \* addr_storage.oob_req is set
    ctx_ranks,     \* "null", "alloc" or "dangling"
    oob_req,       \* the exchange of the context ranks is outstanding
    oob_info,      \* coll_info of the internal out-of-band
    service_team,  \* "null", "creating" or "ready"
    service_refs,  \* references to service_ctx this team holds
    sreq,          \* the service allreduce of the id is outstanding
    id,            \* "none", "external", "internal" or "released"
    topo,
    cl,            \* cl[c]: the team object of CL c
    cl_teams,      \* the array: index -> CL
    n_cl_teams,
    last,          \* last_team_create_posted
    i,             \* loop counter of create_cls and of destroy_single
    score_map

oobvars == <<addr_storage, addr_req, ctx_ranks, oob_req>>
srvvars == <<service_team, service_refs, sreq, id>>
clvars  == <<topo, cl, cl_teams, n_cl_teams, last>>
vars == <<params, user, call, state, oobvars, oob_info, srvvars, clvars, i,
          score_map>>

Init ==
    /\ params \in Params
    /\ user = "idle" /\ call = "none"
    /\ state = "ADDR_EXCHANGE"
    /\ addr_storage = "null" /\ addr_req = FALSE
    /\ ctx_ranks = "null" /\ oob_req = FALSE /\ oob_info = FALSE
    /\ service_team = "null" /\ service_refs = 0
    /\ sreq = FALSE /\ id = "none"
    /\ topo = FALSE
    /\ cl = [c \in Cls |-> "none"]
    /\ cl_teams = [k \in Cls |-> NoTeam]
    /\ n_cl_teams = 0 /\ last = -1 /\ i = 0
    /\ score_map = FALSE

\* the call goes on, or returns st to the user
GoOn == UNCHANGED <<user, call>>

Return(st) ==
    /\ call' = "none"
    /\ user' = CASE st = "OK" -> "created"
                 [] st = "INPROGRESS" -> "creating"
                 [] st = "ERR" -> "failed"

-----------------------------------------------------------------------------
(* ucc_team_create_post, ucc_team_create_test                              *)

\* The checks of the parameters that return before there is a team are left out.
CreatePost ==
    /\ user = "idle"
    /\ id' = IF params.external THEN "external" ELSE id
    /\ \/ /\ user' = "creating"
          /\ oob_info' = (params.ctx_service /\ ~params.single)
          /\ state' = IF params.single THEN "CL_CREATE" ELSE "ADDR_EXCHANGE"
       \/ /\ user' = "rejected"
          /\ oob_info' \in {FALSE, params.ctx_service /\ ~params.single}
          /\ UNCHANGED state
    /\ UNCHANGED <<params, call, oobvars, service_team, service_refs, sreq,
                   clvars, i, score_map>>

CreateTest ==
    /\ user = "creating" /\ call = "none"
    /\ call' = "create"
    /\ UNCHANGED <<params, user, state, oobvars, oob_info, srvvars, clvars, i,
                   score_map>>

InState(s) == call = "create" /\ state = s

\* Defect: the addresses are taken for lengths.
MutAddrRound == "lens"

AddrRound == IF addr_storage = "null" THEN "lens" ELSE "addrs"

\* ucc_core_addr_exchange, one pass of its poll loop: test the request, or start
\* the next of its two allgathers (lengths, then addresses).
AddrExchange ==
    /\ InState("ADDR_EXCHANGE") /\ ~params.storage
    /\ \/ /\ addr_req
          /\ \E st \in Answer :
               /\ addr_req' = (st # "OK")
               /\ IF st = "OK" THEN GoOn ELSE Return(st)
          /\ UNCHANGED <<addr_storage, state>>
       \/ /\ ~addr_req /\ addr_storage # "addrs"
          /\ addr_storage' = AddrRound
          /\ addr_req' = TRUE /\ GoOn /\ UNCHANGED state
       \/ \* no memory, or the allgather does not start
          /\ ~addr_req /\ addr_storage # "addrs"
          /\ addr_storage' \in {"null", AddrRound}
          /\ Return("ERR") /\ UNCHANGED <<addr_req, state>>
       \/ \* no TL has an address
          /\ ~addr_req /\ addr_storage = "lens"
          /\ addr_storage' = "null"
          /\ state' = "SERVICE_TEAM" /\ GoOn /\ UNCHANGED addr_req
       \/ /\ ~addr_req /\ addr_storage = "addrs"
          /\ \/ state' = "SERVICE_TEAM" /\ GoOn
             \/ Return("ERR") /\ UNCHANGED state    \* proc info collision
          /\ UNCHANGED <<addr_storage, addr_req>>
    /\ UNCHANGED <<params, ctx_ranks, oob_req, oob_info, srvvars, clvars, i,
                   score_map>>

\* ucc_team_exchange when the context has the addresses: only the ranks in the
\* context are exchanged.  ucc_ep_map_from_array frees the array of a strided
\* map and keeps it otherwise.
RankExchange ==
    /\ InState("ADDR_EXCHANGE") /\ params.storage
    /\ \/ /\ params.ep_map
          /\ state' = "SERVICE_TEAM" /\ GoOn /\ UNCHANGED <<ctx_ranks, oob_req>>
       \/ /\ ~params.ep_map /\ ctx_ranks = "null"
          /\ ctx_ranks' = "alloc" /\ oob_req' = TRUE
          /\ GoOn /\ UNCHANGED state
       \/ /\ ~params.ep_map /\ ctx_ranks = "null"
          /\ ctx_ranks' \in {"null", "dangling"}
          /\ Return("ERR") /\ UNCHANGED <<state, oob_req>>
       \/ /\ ~params.ep_map /\ ctx_ranks = "alloc"
          /\ \E st \in Answer :
               /\ oob_req' = (st = "INPROGRESS")
               /\ IF st = "OK"
                  THEN /\ ctx_ranks' \in {"null", "alloc"}
                       /\ state' = "SERVICE_TEAM" /\ GoOn
                  ELSE Return(st) /\ UNCHANGED <<ctx_ranks, state>>
    /\ UNCHANGED <<params, addr_storage, addr_req, oob_info, srvvars, clvars, i,
                   score_map>>

\* Defect: the service team is only created for a CL that asks for it.
MutNeedsService == params.service /\ ~params.ctx_service

NeedsService ==
    /\ params.service \/ (params.need_id /\ id = "none")
    /\ ~params.ctx_service

\* ucc_team_create_service_team
ServiceTeam ==
    /\ InState("SERVICE_TEAM")
    /\ \/ /\ ~NeedsService
          /\ state' = "ALLOC_ID" /\ GoOn
          /\ UNCHANGED <<service_team, service_refs>>
       \/ \* there is no TL/UCP, or its create_post fails
          /\ NeedsService /\ service_team = "null"
          /\ service_refs' \in {service_refs, service_refs + 1}
          /\ Return("ERR") /\ UNCHANGED <<state, service_team>>
       \/ /\ NeedsService
          /\ service_refs' = service_refs
                             + IF service_team = "null" THEN 1 ELSE 0
          /\ \E st \in Answer :
               /\ service_team' = CASE st = "OK" -> "ready"
                                    [] st = "INPROGRESS" -> "creating"
                                    [] st = "ERR" -> "null"
               /\ IF st = "OK" THEN state' = "ALLOC_ID" /\ GoOn
                               ELSE Return(st) /\ UNCHANGED state
    /\ UNCHANGED <<params, oobvars, oob_info, sreq, id, clvars, i, score_map>>

\* ucc_team_alloc_id; what the ids are is in TeamIds
AllocId ==
    /\ InState("ALLOC_ID")
    /\ \/ /\ ~params.need_id \/ id # "none"
          /\ state' = "CL_CREATE" /\ GoOn /\ UNCHANGED <<sreq, id>>
       \/ /\ params.need_id /\ id = "none" /\ ~sreq
          /\ \/ sreq' = TRUE /\ GoOn
             \/ Return("ERR") /\ UNCHANGED sreq
          /\ UNCHANGED <<id, state>>
       \/ /\ params.need_id /\ sreq
          /\ \/ /\ id' = "internal" /\ sreq' = FALSE
                /\ state' = "CL_CREATE" /\ GoOn
             \/ /\ Return("INPROGRESS") /\ UNCHANGED <<id, sreq, state>>
             \/ \* the test fails, or all ids are taken
                /\ sreq' \in BOOLEAN
                /\ Return("ERR") /\ UNCHANGED <<id, state>>
    /\ UNCHANGED <<params, oobvars, oob_info, service_team, service_refs, clvars,
                   i, score_map>>

-----------------------------------------------------------------------------
(* ucc_team_create_cls                                                     *)

FirstCl == last + 1

\* The topology, which may fail, then the CL in progress or the loop.
CreateCls ==
    /\ InState("CL_CREATE")
    /\ topo' \in {topo, topo \/ ~params.single}
    /\ call' = IF last >= 0 THEN "cl_test" ELSE "cl_loop"
    /\ i' = FirstCl
    /\ UNCHANGED <<params, user, state, oobvars, oob_info, srvvars, cl,
                   cl_teams, n_cl_teams, last, score_map>>

\* A team that fails is destroyed; what its destroy returns is ignored, and a
\* team whose destroy is in progress is lost.
Dropped == {"gone", "lost"}

\* Defect: a team that failed stays counted.
MutAfterFailure == n_cl_teams

AfterFailure == n_cl_teams - 1

\* The CL in progress is tested through cl_teams[last].
ClTest ==
    /\ call = "cl_test"
    /\ cl_teams[last] # NoTeam
    /\ LET c == cl_teams[last] IN
       \/ /\ Return("INPROGRESS")
          /\ UNCHANGED <<cl, n_cl_teams>>
       \/ /\ cl' = [cl EXCEPT ![c] = "ready"]
          /\ call' = "cl_loop" /\ UNCHANGED <<user, n_cl_teams>>
       \/ /\ c \in params.failing
          /\ \E d \in Dropped : cl' = [cl EXCEPT ![c] = d]
          /\ n_cl_teams' = AfterFailure
          /\ call' = "cl_loop" /\ UNCHANGED user
    /\ UNCHANGED <<params, state, oobvars, oob_info, srvvars, topo, cl_teams,
                   last, i, score_map>>

\* cl_teams is indexed by the number of the CL, but filled without gaps: when an
\* earlier CL has failed the entry was never written (ucc_malloc), and the call
\* goes through a wild pointer.
ClTestUnwritten ==
    /\ call = "cl_test"
    /\ cl_teams[last] = NoTeam
    /\ user' = "crashed" /\ call' = "none"
    /\ UNCHANGED <<params, state, oobvars, oob_info, srvvars, clvars, i,
                   score_map>>

InLoop == call = "cl_loop" /\ i < NCls

\* The next CL of the loop has no team, or one that fails at once ...
ClFails ==
    /\ InLoop /\ i \in params.failing
    /\ \E d \in Dropped \cup {"none"} : cl' = [cl EXCEPT ![i] = d]
    /\ i' = i + 1
    /\ UNCHANGED <<params, user, call, state, oobvars, oob_info, srvvars, topo,
                   cl_teams, n_cl_teams, last, score_map>>

Store(st) ==
    /\ cl' = [cl EXCEPT ![i] = st]
    /\ cl_teams' = [cl_teams EXCEPT ![n_cl_teams] = i]
    /\ n_cl_teams' = n_cl_teams + 1

\* ... or one that is ready at once ...
ClReady ==
    /\ InLoop
    /\ Store("ready")
    /\ i' = i + 1
    /\ UNCHANGED <<params, user, call, state, oobvars, oob_info, srvvars, topo,
                   last, score_map>>

\* Defect: the loop goes on past a CL in progress.
MutStop == GoOn /\ i' = i + 1

Stop == Return("INPROGRESS") /\ UNCHANGED i

\* ... or one in progress, which ends the call.
ClInProgress ==
    /\ InLoop /\ i \in params.slow
    /\ Store("creating")
    /\ last' = i
    /\ Stop
    /\ UNCHANGED <<params, state, oobvars, oob_info, srvvars, topo, score_map>>

\* The end of create_cls: a team without CLs is an error.
AnyCl == n_cl_teams > 0

\* ucc_team_build_score_map: the scores of the CLs are merged into the map that
\* collectives are looked up in.
BuildScoreMap ==
    \/ score_map' = TRUE /\ Return("OK")
    \/ Return("ERR") /\ UNCHANGED score_map

\* The end of create_test_single: the team is active before its score map is
\* built, which may fail.
Activate ==
    /\ call = "cl_loop" /\ i = NCls
    /\ \/ /\ ~AnyCl
          /\ Return("ERR") /\ UNCHANGED <<state, score_map>>
       \/ /\ AnyCl
          /\ state' = "ACTIVE"
          /\ BuildScoreMap
    /\ UNCHANGED <<params, oobvars, oob_info, srvvars, clvars, i>>

-----------------------------------------------------------------------------
(* ucc_team_destroy                                                        *)

\* The user destroys a team that was created or whose creation failed, and calls
\* again while this is in progress.
Destroy ==
    /\ user \in {"created", "failed", "destroying"} /\ call = "none"
    /\ IF state = "ACTIVE"
       THEN call' = "destroy" /\ user' = "destroying"
       ELSE user' = "refused" /\ UNCHANGED call
    /\ i' = 0
    /\ UNCHANGED <<params, state, oobvars, oob_info, srvvars, clvars, score_map>>

\* Destroying a component's team is in progress or fails: the call returns.
DestroyStops ==
    call' = "none" /\ user' \in {"destroying", "destroy_failed"}

DestroyService ==
    /\ call = "destroy" /\ service_team # "null"
    /\ \/ /\ service_team' = "null" /\ service_refs' = service_refs - 1
          /\ GoOn
       \/ DestroyStops /\ UNCHANGED <<service_team, service_refs>>
    /\ UNCHANGED <<params, state, oobvars, oob_info, sreq, id, clvars, i,
                   score_map>>

\* Defect: the entry of a destroyed team is not cleared.
MutCleared == cl_teams

Cleared == [cl_teams EXCEPT ![i] = NoTeam]

\* the teams still in the array; to destroy one that is gone is "twice"
DestroyCl ==
    /\ call = "destroy" /\ service_team = "null" /\ i < n_cl_teams
    /\ LET c == cl_teams[i] IN
       \/ /\ c = NoTeam
          /\ i' = i + 1 /\ GoOn /\ UNCHANGED <<cl, cl_teams>>
       \/ /\ c # NoTeam
          /\ cl' = [cl EXCEPT ![c] = IF @ = "gone" THEN "twice" ELSE "gone"]
          /\ \/ cl_teams' = Cleared /\ i' = i + 1 /\ GoOn
             \/ /\ call' = "none" /\ user' = "destroy_failed"
                /\ UNCHANGED <<cl_teams, i>>
       \/ /\ c # NoTeam
          /\ DestroyStops /\ UNCHANGED <<cl, cl_teams, i>>
    /\ UNCHANGED <<params, state, oobvars, oob_info, srvvars, topo, n_cl_teams,
                   last, score_map>>

\* The rest is freed and the id released; ucc_coll_score_free_map reads the map.
DestroyFree ==
    /\ call = "destroy" /\ service_team = "null" /\ i = n_cl_teams
    /\ call' = "none"
    /\ topo' = FALSE
    /\ oob_info' = (oob_info /\ ~(params.ctx_service /\ ~params.single))
    /\ IF score_map
       THEN /\ user' = "destroyed"
            /\ addr_storage' = "null"
            /\ ctx_ranks' = "null"
            /\ id' = IF id = "internal" THEN "released" ELSE id
            /\ score_map' = FALSE
       ELSE /\ user' = "crashed"
            /\ UNCHANGED <<addr_storage, ctx_ranks, id, score_map>>
    /\ UNCHANGED <<params, state, addr_req, oob_req, service_team, service_refs,
                   sreq, cl, cl_teams, n_cl_teams, last, i>>

-----------------------------------------------------------------------------
Creating == \/ AddrExchange \/ RankExchange \/ ServiceTeam \/ AllocId
            \/ CreateCls \/ ClTest \/ ClTestUnwritten
            \/ ClFails \/ ClReady \/ ClInProgress \/ Activate

Destroying == DestroyService \/ DestroyCl \/ DestroyFree

Next == CreatePost \/ CreateTest \/ Creating \/ Destroy \/ Destroying

Spec == Init /\ [][Next]_vars

\* A call does not stop inside the library, the user keeps testing, and what is
\* tested again and again is one day no longer in progress.
Ends(A) == A /\ ~(call' = "none" /\ user' = "creating")

FairSpec ==
    /\ Spec
    /\ WF_vars(CreateTest) /\ WF_vars(Creating)
    /\ SF_vars(Ends(AddrExchange)) /\ SF_vars(Ends(RankExchange))
    /\ SF_vars(Ends(ServiceTeam)) /\ SF_vars(Ends(AllocId))
    /\ SF_vars(Ends(ClTest))

-----------------------------------------------------------------------------
(* Properties                                                              *)

\* Every field has its type; the counters stay inside cl_teams.
TypeOK ==
    /\ params \in Params
    /\ user \in {"idle", "rejected", "creating", "created", "failed",
                 "destroying", "destroy_failed", "refused", "crashed",
                 "destroyed"}
    /\ call \in {"none", "create", "cl_test", "cl_loop", "destroy"}
    /\ state \in {"ADDR_EXCHANGE", "SERVICE_TEAM", "ALLOC_ID", "CL_CREATE",
                  "ACTIVE"}
    /\ addr_storage \in {"null", "lens", "addrs"}
    /\ ctx_ranks \in {"null", "alloc", "dangling"}
    /\ service_team \in {"null", "creating", "ready"}
    /\ service_refs \in {0, 1}
    /\ id \in {"none", "external", "internal", "released"}
    /\ {addr_req, oob_req, oob_info, sreq, topo, score_map} \subseteq BOOLEAN
    /\ cl \in [Cls -> {"none", "creating", "ready", "gone", "lost", "twice"}]
    /\ cl_teams \in [Cls -> Cls \cup {NoTeam}]
    /\ n_cl_teams \in 0 .. NCls
    /\ last \in -1 .. NCls - 1
    /\ i \in 0 .. NCls

\* While the creation goes on, at most one of its stages has an operation
\* outstanding: the address or rank exchange, the service team, the id
\* allreduce, or a single CL.  They share the out-of-band allgather of the user,
\* which create_cls must not give to several teams at once.
OneOobAtATime ==
    LET stages == <<addr_req, oob_req, service_team = "creating", sreq>>
    IN  user = "creating" =>
            Cardinality({k \in DOMAIN stages : stages[k]})
              + Cardinality({c \in Cls : cl[c] = "creating"}) <= 1

\* the team needs a service team of its own
OwnService ==
    /\ params.service \/ (params.need_id /\ ~params.external)
    /\ ~params.ctx_service

\* A team that ucc_team_create_test reports as created can be used: its score map
\* is there, it holds at least one CL, every CL team in its array is ready and is
\* there once, nothing of the creation is outstanding or half done, and if it has
\* several members it has an id and a service team where the CLs need them.
CreatedIsReady ==
    user = "created" =>
        /\ score_map
        /\ n_cl_teams > 0
        /\ \A k \in 0 .. n_cl_teams - 1 :
              /\ cl[cl_teams[k]] = "ready"
              /\ \A m \in 0 .. k - 1 : cl_teams[m] # cl_teams[k]
        /\ ~addr_req /\ ~oob_req /\ ~sreq /\ service_team # "creating"
        /\ addr_storage # "lens" /\ ctx_ranks # "dangling"
        /\ ~params.single =>
              /\ params.need_id => id # "none"
              /\ OwnService => service_team = "ready"

\* The allreduce that allocates an id has a service team to run on, the
\* context's or the team's own (ucc_service_coll_req_init asserts it).
ServiceTeamThere == sreq => params.ctx_service \/ service_team = "ready"

\* ucc_team_destroy, called as often as it takes, destroys no CL team twice; when
\* it returns UCC_OK no ready CL team, service team, reference, request, array,
\* address, topology, score map or id of the team is left.  (A CL team that failed
\* during the creation is lost if its destroy takes time: create_cls does not
\* look at what destroy returns.)
NothingLeft ==
    /\ \A c \in Cls : cl[c] # "twice"
    /\ \A c \in Cls : cl[c] = "lost" => c \in params.failing
    /\ user = "destroyed" =>
          /\ \A c \in Cls : cl[c] \in {"none", "gone", "lost"}
          /\ service_team = "null" /\ service_refs = 0
          /\ ~addr_req /\ ~oob_req /\ ~oob_info /\ ~sreq
          /\ addr_storage = "null" /\ ctx_ranks = "null"
          /\ ~topo /\ ~score_map /\ id # "internal"

\* No CL that needs time comes after one that may fail: the case in which the
\* index in cl_teams is the number of the CL.
SlowBeforeFailing(p) == \A f \in p.failing, s \in p.slow : s <= f

\* A creation whose stages all answer in the end is reported to the user, if no
\* CL that needs time comes after one that failed (ucc_team_create_test).
CreationEnds ==
    user = "creating" /\ SlowBeforeFailing(params) ~> user \in {"created", "failed"}

\* create_cls asks for the status of a team that it posted (ucc.h:
\* "ucc_team_create_test operation is used to learn the status of the new team
\* handle"): the entry cl_teams[last_team_create_posted] was written.
TestsPostedTeam == call = "cl_test" => cl_teams[last] # NoTeam

\* A team whose creation failed can be destroyed (ucc.h: "On error, the team
\* handle becomes invalid, user is responsible to call ucc_team_destroy to
\* destroy team and free allocated resources").
FailedTeamDestroyed == user \notin {"refused", "crashed"}
=============================================================================
