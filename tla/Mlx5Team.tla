------------------------------ MODULE Mlx5Team ------------------------------
(***************************************************************************)
(* Creation of a team of TL mlx5.  The alltoall and the multicast are two  *)
(* features that a rank may or may not be able to offer; both are set up   *)
(* by polling, side by side, and two service allreduces let the ranks      *)
(* agree on what all of them have: the first on who can try, the second    *)
(* on who has succeeded.                                                   *)
(*                                                                         *)
(* The service collectives of all features carry the same tag: the k-th    *)
(* message from p to q meets the k-th receive that q has posted for p,     *)
(* whatever each of them was posted for.  A broadcast goes from its root   *)
(* to the other members, the other collectives go from all to all.         *)
(* One call of create_test is one step.                                    *)
(***************************************************************************)
EXTENDS Integers, Sequences, FiniteSets, SequencesExt

CONSTANTS Scenarios  \* [kind, node, a2a, mcast, reliability, groups, slow, fail]

VARIABLES sc,   \* the scenario: the node of every rank, what is configured,
                \* whose sends need another poll, which step fails where
          rank, \* rank -> its team object
          wire  \* <<p, q>> -> the messages that p has sent to q

vars == <<sc, rank, wire>>

Ours == sc.kind = "team"
Ranks == 0 .. Len(sc.node) - 1
Fails(r, what) == <<r, what>> \in sc.fail

With(v, F(_)) == CHOOSE y \in {F(x) : x \in {v}} : TRUE

\* The ranks of the node of r, and the first ranks of all nodes (the ASRs).
Node(r) == {s \in Ranks : sc.node[s + 1] = sc.node[r + 1]}
Leader(r) == CHOOSE l \in Node(r) : \A s \in Node(r) : l <= s
Asrs == {Leader(r) : r \in Ranks}
IsAsr(r) == Leader(r) = r

\* init_alltoall: several nodes, with the same number of ranks, more than
\* one, one node after the other.
Fits == /\ \A r, s \in Ranks : Cardinality(Node(r)) = Cardinality(Node(s))
        /\ Cardinality(Asrs) > 1
        /\ Cardinality(Asrs) < Cardinality(Ranks)
        /\ \A r \in Ranks : \A s \in Node(r) : r .. s \subseteq Node(r)

-----------------------------------------------------------------------------
(* The service collectives.  S is the state of a rank while it runs.       *)

Sources(r, c) == IF c.coll # "bcast" THEN c.members \ {r}
                 ELSE IF r = c.root THEN {} ELSE {c.root}
Targets(r, c) == IF c.coll = "bcast" /\ r # c.root THEN {} ELSE c.members \ {r}

\* service_bcast, service_allgather, service_allreduce: the request says
\* which message of every source it waits for.
Post(S, c, value) ==
  [S EXCEPT
     !.out = [d \in Ranks |-> IF d \in Targets(S.me, c)
                              THEN Append(@[d], [name |-> c.name, value |-> value]) ELSE @[d]],
     !.posted = [s \in Ranks |-> IF s \in Sources(S.me, c) THEN @[s] + 1 ELSE @[s]],
     !.req[c.name] = [there |-> TRUE, own |-> value, sent |-> S.me \notin sc.slow,
       wait |-> [s \in Sources(S.me, c) |-> S.posted[s] + 1]]]

NoReq == [there |-> FALSE, own |-> 0, sent |-> TRUE, wait |-> <<>>]
Posted(S, name) == S.req[name].there

Arrived(S, name) ==
  S.req[name].sent /\ \A s \in DOMAIN S.req[name].wait : Len(wire[<<s, S.me>>]) >= S.req[name].wait[s]
Got(S, name) ==
  [s \in DOMAIN S.req[name].wait |-> wire[<<s, S.me>>][S.req[name].wait[s]]]

\* The progress of the context that the tests of the last call have made.
Polled(S) == [S EXCEPT !.req = [n \in DOMAIN @ |-> [@[n] EXCEPT !.sent = TRUE]]]

\* coll_test and coll_finalize of a collective that has arrived.  A rank that
\* has taken the message of another collective has read garbage, or a message
\* too long for its buffer: CreateTest follows it no further.
Finish(S, name) ==
  [S EXCEPT !.req[name] = NoReq,
            !.mixed = @ \/ \E s \in DOMAIN Got(S, name) : Got(S, name)[s].name # name]
\* What a broadcast has brought to a rank that is not its root.
Brought(S, name) ==
  IF DOMAIN Got(S, name) = {} THEN S.req[name].own
  ELSE \E s \in DOMAIN Got(S, name) : Got(S, name)[s].name = name /\ Got(S, name)[s].value
AllOk(S, name, i) ==
  /\ S.req[name].own[i]
  /\ \A s \in DOMAIN Got(S, name) : Got(S, name)[s].name = name => Got(S, name)[s].value[i]

Everybody(name) == [name |-> name, coll |-> "allreduce", root |-> 0, members |-> Ranks]
SyncColl == Everybody("sync")
ShmidColl(r) == [name |-> "shmid", coll |-> "bcast", root |-> Leader(r), members |-> Node(r)]
ExchangeColl == [name |-> "exchange", coll |-> "allgather", root |-> 0, members |-> Asrs]
GroupColl == [name |-> "group", coll |-> "bcast", root |-> 0, members |-> Ranks]
ReliabilityColl == [name |-> "reliability", coll |-> "allgather", root |-> 0, members |-> Ranks]

-----------------------------------------------------------------------------
(* The alltoall.                                                           *)

\* test_alltoall_start.
AlltoallStart(S) ==
  IF ~S.aglobal
  THEN [S EXCEPT !.ast = "failed", !.a2a_there = FALSE]
  ELSE Post([S EXCEPT !.ast = "SHMID"], ShmidColl(S.me), ~Fails(S.me, "shm"))

\* The resources of an ASR, and the addresses that the others need of them.
\* An ASR that fails before the exchange leaves it out, and the others wait.
AsrResources(S) ==
  IF Fails(S.me, "resources") THEN [S EXCEPT !.ast = "failed", !.skipped = TRUE]
  ELSE Post([S EXCEPT !.ast = "EXCHANGE"], ExchangeColl, TRUE)

ShmidArrived(S) ==
  With(Brought(S, "shmid"), LAMBDA ok :
    With(Finish(S, "shmid"), LAMBDA T :
      CASE ~ok -> [T EXCEPT !.ast = "failed", !.skipped = IsAsr(T.me)]
        [] ok /\ ~IsAsr(T.me) ->
             [T EXCEPT !.ast = IF Fails(T.me, "shmat") THEN "failed" ELSE "done"]
        [] OTHER -> AsrResources(T)))

ExchangeProgress(S) ==
  IF S.ast # "EXCHANGE" \/ ~Arrived(S, "exchange") THEN S
  ELSE [Finish(S, "exchange") EXCEPT
          !.ast = IF Fails(S.me, "connect") THEN "failed" ELSE "done"]

\* test_alltoall_progress.
AlltoallProgress(S) ==
  CASE S.ast = "SHMID" /\ ~Arrived(S, "shmid") -> S
    [] S.ast = "SHMID" /\ Arrived(S, "shmid") -> ExchangeProgress(ShmidArrived(S))
    [] OTHER -> ExchangeProgress(S)

\* alltoall_team_test.
AlltoallTest(S) ==
  IF S.a2a \notin {"INIT", "POSTED"} THEN S
  ELSE With(AlltoallProgress(IF S.a2a = "INIT" THEN AlltoallStart(S) ELSE S), LAMBDA T :
         [T EXCEPT !.a2a = CASE T.ast = "failed" -> "NOT_AVAILABLE"
                             [] T.ast = "done" -> "READY"
                             [] OTHER -> "POSTED"])

-----------------------------------------------------------------------------
(* The multicast.                                                          *)

Unavailable(S) == [S EXCEPT !.mc = "NOT_AVAILABLE"]
\* The same before the addresses are exchanged, which is then left out.
GiveUp(S) == Unavailable([S EXCEPT !.skipped = @ \/ sc.reliability])

\* process_comm_event: k of the groups that are not joined yet are reported.
CommEvents(S, k) ==
  IF Fails(S.me, "event") THEN [S EXCEPT !.mc = "JOIN_FAILED"]
  ELSE [S EXCEPT !.joined = @ + k,
                 !.mc = IF S.joined + k = sc.groups THEN "JOIN_READY" ELSE @]

\* setup_comm_resources: cleans up when it fails.
SetupResources(S) ==
  IF Fails(S.me, "setup") THEN GiveUp([S EXCEPT !.comm = "freed"])
  ELSE [S EXCEPT !.mc = "RELIABILITY"]

\* one_sided_reliability_test: the reads need the addresses of all ranks.
Reliability(S) ==
  IF ~sc.reliability THEN [S EXCEPT !.mc = "READY"]
  ELSE With(IF Posted(S, "reliability") THEN S
            ELSE Post(S, ReliabilityColl, TRUE), LAMBDA T :
         IF ~Arrived(T, "reliability") THEN T
         ELSE With(Finish(T, "reliability"), LAMBDA U :
                IF Fails(U.me, "rc") THEN Unavailable(U) ELSE [U EXCEPT !.mc = "READY"]))

\* Rank 0 makes the groups and tells the others.  When it could not join, it
\* frees what it is about to send.
TestRoot(S, k) ==
  CASE S.mc = "INIT" ->
         [S EXCEPT !.mc = IF Fails(S.me, "join") THEN "JOIN_FAILED" ELSE "JOIN_TEST"]
    [] S.mc = "JOIN_TEST" -> CommEvents(S, k)
    [] S.mc \in {"JOIN_READY", "JOIN_FAILED"} ->
         Post([S EXCEPT !.mc = "BCAST_POST", !.info = S.mc = "JOIN_READY"],
              GroupColl, S.mc = "JOIN_READY")
    [] S.mc = "BCAST_POST" ->
         IF S.info THEN SetupResources(Finish(S, "group")) ELSE [S EXCEPT !.pc = "crashed"]
    [] S.mc = "RELIABILITY" -> Reliability(S)
    [] OTHER -> S

\* The other ranks join when rank 0 has told them what.
TestOther(S, k) ==
  CASE S.mc = "INIT" -> Post([S EXCEPT !.mc = "BCAST_POST"], GroupColl, TRUE)
    [] S.mc = "BCAST_POST" ->
         IF ~Arrived(S, "group") THEN S
         ELSE With(Brought(S, "group"), LAMBDA ok : With(Finish(S, "group"), LAMBDA T :
                CASE ~ok -> Unavailable(T)
                  [] ok /\ Fails(S.me, "join") -> GiveUp(T)
                  [] OTHER -> [T EXCEPT !.mc = "JOIN_TEST"]))
    [] S.mc = "JOIN_TEST" -> CommEvents(S, k)
    [] S.mc = "JOIN_FAILED" -> GiveUp(S)
    [] S.mc = "JOIN_READY" -> SetupResources(S)
    [] S.mc = "RELIABILITY" -> Reliability(S)
    [] OTHER -> S

\* mcast_team_test.
McastTest(S, k) == IF S.me = 0 THEN TestRoot(S, k) ELSE TestOther(S, k)

-----------------------------------------------------------------------------
(* The team.                                                               *)

\* class init: what the rank can try.
NewTeam(r) ==
  [me |-> r, pc |-> "test",
   a2a |-> "CTX_CHECK", alocal |-> sc.a2a /\ Fits /\ ~Fails(r, "dm"), aglobal |-> FALSE,
   a2a_there |-> sc.a2a /\ Fits, ast |-> "none",
   mc |-> "CTX_CHECK", comm |-> IF sc.mcast /\ ~Fails(r, "ctx") THEN "there" ELSE "none",
   joined |-> 0, info |-> FALSE, mixed |-> FALSE, skipped |-> FALSE,
   req |-> [name \in {"sync", "shmid", "exchange", "group", "reliability"} |-> NoReq],
   posted |-> [s \in Ranks |-> 0], out |-> [d \in Ranks |-> <<>>]]

\* create_test, when the first allreduce is over ...
FirstSync(S) ==
  [Finish(S, "sync") EXCEPT
     !.a2a = "INIT",
     !.aglobal = AllOk(S, "sync", 1),
     !.mc = IF AllOk(S, "sync", 2) THEN "INIT" ELSE "NOT_AVAILABLE",
     !.comm = IF ~AllOk(S, "sync", 2) /\ @ = "there" THEN "freed" ELSE @]

\* Mutant: what some other rank does not have is kept.
MutSecondSync(S) == [Finish(S, "sync") EXCEPT !.pc = "ok"]

\* ... and the second: what some rank does not have is given up.
SecondSync(S) ==
  [Finish(S, "sync") EXCEPT
     !.pc = "ok",
     !.a2a = IF AllOk(S, "sync", 1) THEN @ ELSE "NOT_AVAILABLE",
     !.a2a_there = @ /\ (AllOk(S, "sync", 1) \/ S.a2a # "READY"),
     !.mc = IF AllOk(S, "sync", 2) THEN @ ELSE "NOT_AVAILABLE",
     !.comm = IF ~AllOk(S, "sync", 2) /\ S.mc = "READY" THEN "freed" ELSE @]

SyncPost(S, value) ==
  IF Fails(S.me, "sync") THEN [S EXCEPT !.pc = "err", !.skipped = TRUE] ELSE Post(S, SyncColl, value)

\* The features make a step each; when both have come to an end, the ranks
\* compare.
TestFeatures(S, k) ==
  With(IF sc.a2a THEN AlltoallTest(S) ELSE [S EXCEPT !.a2a = "NOT_AVAILABLE"], LAMBDA T :
    With(IF T.mc = "NOT_AVAILABLE" THEN T ELSE McastTest(T, k), LAMBDA U :
      IF U.pc # "test" \/ U.a2a \notin {"READY", "NOT_AVAILABLE"}
           \/ U.mc \notin {"READY", "NOT_AVAILABLE"}
      THEN U
      ELSE SyncPost(U, <<U.a2a = "READY", U.mc = "READY">>)))

\* team_create_test.
CreateTestOf(S, k) ==
  CASE Posted(S, "sync") /\ ~Arrived(S, "sync") -> S
    [] Posted(S, "sync") /\ Arrived(S, "sync") /\ S.mc = "CTX_CHECK" -> FirstSync(S)
    [] Posted(S, "sync") /\ Arrived(S, "sync") /\ S.mc # "CTX_CHECK" -> SecondSync(S)
    [] ~Posted(S, "sync") /\ S.mc = "CTX_CHECK" ->
         SyncPost(S, <<S.alocal, S.comm = "there">>)
    [] OTHER -> TestFeatures(S, k)

CreateTest(r, k) ==
  /\ rank[r].pc = "test" 
  /\ k > 0 => rank[r].mc = "JOIN_TEST" /\ k <= sc.groups - rank[r].joined
  /\ \E S \in {CreateTestOf(Polled(rank[r]), k)} :
       /\ rank' = [rank EXCEPT ![r] = [S EXCEPT !.out = [d \in Ranks |-> <<>>],
                                                 !.pc = IF S.mixed THEN "mixed" ELSE @]]
       /\ wire' = [l \in DOMAIN wire |->
                     IF l[1] = r THEN wire[l] \o S.out[l[2]] ELSE wire[l]]
  /\ UNCHANGED sc

\* class cleanup.
Destroy(r) ==
  /\ \A s \in Ranks : rank[s].pc # "test"
  /\ rank[r].pc \in {"ok", "err"}
  /\ rank' = [rank EXCEPT ![r] =
       IF @.mc = "NOT_AVAILABLE" THEN [@ EXCEPT !.pc = "destroyed", !.a2a_there = FALSE]
       ELSE IF @.comm # "there" THEN [@ EXCEPT !.pc = "crashed"]
       ELSE [@ EXCEPT !.pc = "destroyed", !.a2a_there = FALSE, !.comm = "freed"]]
  /\ UNCHANGED <<sc, wire>>

-----------------------------------------------------------------------------
Init ==
  /\ sc \in Scenarios
  /\ rank = [r \in Ranks |-> NewTeam(r)]
  /\ wire = [l \in Ranks \X Ranks |-> <<>>]

\* Nothing more is done, or followed.
Over == \A r \in Ranks : rank[r].pc \in {"destroyed", "crashed", "mixed"}
Done == Over /\ UNCHANGED vars

Next == Ours /\
  \/ \E r \in Ranks :
       \/ \E k \in 0 .. sc.groups : CreateTest(r, k)
       \/ Destroy(r)
  \/ Done

Spec == Init /\ [][Next]_vars

\* create_test is called again and again, and the join events come.
Fairness == \A r \in 0 .. 3 :
  WF_vars(/\ Ours /\ r \in Ranks
          /\ \/ \E k \in 0 .. sc.groups :
                  CreateTest(r, k) /\ (rank[r].mc = "JOIN_TEST" => k > 0)
             \/ Destroy(r))

FairSpec == Spec /\ Fairness

-----------------------------------------------------------------------------
(* Properties.                                                             *)

\* When two ranks have created the team, a feature is there on both or on
\* neither, whatever failed where (the two service allreduces of
\* team_create_test).
Agreement == Ours =>
  \A r, s \in Ranks : rank[r].pc = "ok" /\ rank[s].pc = "ok" =>
    (rank[r].mc = "READY") = (rank[s].mc = "READY") /\ (rank[r].a2a = "READY") = (rank[s].a2a = "READY")

\* The two ways in which the ranks post their collectives in different orders:
\* a rank has failed before a collective that others post (an ASR before the
\* exchange, a rank before the exchange of addresses, a post of the allreduce),
\* or both features are set up at the same time and a send takes more than one
\* poll, so that one rank posts the exchange before it waits for the group and
\* another one after.
LeftOut == \E r \in Ranks : rank[r].skipped
Overlap == sc.a2a /\ sc.mcast /\ sc.slow # {}

\* A collective of one feature takes the message of another one in no other
\* case, although all of them share a tag.
NeverMixed == Ours => ((\E r \in Ranks : rank[r].mixed) => LeftOut \/ Overlap)

\* No rank uses what it has freed or never had, in the creation or in the
\* cleanup of the team; but for rank 0 when it could not join a group.
RootFailed == Fails(0, "join") \/ Fails(0, "event")
NoCrash == Ours => \A r \in Ranks : rank[r].pc = "crashed" => r = 0 /\ RootFailed

\* What the multicast of a rank that offers it uses is there.
ReadyIsThere == Ours => \A r \in Ranks :
  rank[r].pc = "ok" /\ rank[r].mc = "READY" => rank[r].comm = "there"

\* Every rank comes to the end of the creation, with or without the features,
\* unless a collective was left out or mixed up or rank 0 could not join: then
\* the ranks that wait for a message of the others may wait for ever.
Completed == Over \/ LeftOut \/ Overlap \/ RootFailed
Completes == <>(Ours => Completed)

\* What the comments at the failed join of rank 0 say: it broadcasts the failed
\* status to the other ranks "so others do not hang".
OthersReturn == <>(Ours => \A r \in Ranks \ {0} : rank[r].pc # "test")

=============================================================================
