------------------------------ MODULE MCMlx5 ------------------------------
(* Small teams for TL mlx5: their creation (Mlx5Team), and the multicast     *)
(* broadcast (McastBcast) and allgather (McastAllgather).                    *)
EXTENDS McastBcast

(* The team, the sizes of its window and of its queues, and the broadcasts   *)
(* that are made one after the other: roots that change, messages that need  *)
(* several windows, windows that span several broadcasts, send completions   *)
(* that are moderated, and the in-place receive of the large messages.       *)
Sc(n, w, calls) == [kind |-> "bcast", n |-> n, wsize |-> w, rx |-> 4, thresh |-> 0,
                    sx |-> 4, mod |-> 2, calls |-> calls]
C(root, packets, zcopy) == [root |-> root, packets |-> packets, zcopy |-> zcopy]

BcastScenarios ==
    { Sc(2, 2, <<C(0, 1, FALSE), C(0, 2, FALSE)>>),
      Sc(3, 2, <<C(0, 1, TRUE), C(1, 1, TRUE)>>),
      Sc(4, 1, <<C(0, 1, FALSE)>>),
      Sc(2, 1, <<C(0, 2, FALSE), C(1, 1, TRUE)>>),
      [Sc(2, 4, <<C(0, 3, FALSE), C(0, 1, FALSE)>>) EXCEPT !.sx = 1, !.mod = 1],
      [Sc(2, 4, <<C(0, 3, FALSE), C(0, 1, FALSE)>>)
          EXCEPT !.sx = 2, !.mod = 2, !.thresh = 1],
      Sc(3, 1, <<C(0, 2, FALSE)>>) }

(* The scheme, the calls and the links on which packets may be late, lost or *)
(* reordered.                                                                *)
Ags(n, scheme, packets, calls) ==
  [kind |-> "allgather", n |-> n, scheme |-> scheme, coll |-> "allgather",
   root |-> 0, packets |-> packets, calls |-> calls, bucket |-> 1, groups |-> 2,
   push |-> 1, slow |-> {<<0, 1>>}, waits |-> {1}, early |-> FALSE, first |-> 1]
Quiet(s) == [s EXCEPT !.slow = {}, !.waits = {}]

AllgatherScenarios ==
    { Ags(2, "async", 1, 2), Ags(2, "async", 2, 1),
      [Ags(2, "async", 1, 1) EXCEPT !.slow = {<<0, 1>>, <<1, 0>>}, !.waits = {0, 1}],
      [Ags(2, "async", 1, 2) EXCEPT !.first = 31, !.slow = {}, !.waits = {0, 1}],
      Ags(2, "sync", 1, 2), Ags(2, "sync", 2, 1),
      Quiet(Ags(3, "sync", 1, 1)),
      Quiet(Ags(2, "zcopy", 2, 2)), Ags(2, "zcopy", 2, 1),
      Quiet([Ags(2, "zcopy", 4, 1) EXCEPT !.bucket = 2, !.push = 2]),
      Quiet([Ags(2, "zcopy", 2, 1) EXCEPT !.groups = 4]),
      Quiet([Ags(3, "zcopy", 2, 2) EXCEPT !.coll = "bcast"]),
      [Ags(2, "zcopy", 2, 2) EXCEPT !.coll = "bcast"] }

Batch == 2
AG == INSTANCE McastAllgather WITH
        Scenarios <- AllgatherScenarios, MaxBatch <- 1, MaxCounter <- 32, SlotsCount <- 2

(* Teams on one or two nodes, with one feature or both, and a rank on which  *)
(* a step of the creation fails.  The failed join of rank 0 is a run of its  *)
(* own, too.                                                                 *)
T(node, a2a, mcast, rel, fail) ==
  [kind |-> "team", node |-> node, a2a |-> a2a, mcast |-> mcast, reliability |-> rel,
   groups |-> 2, slow |-> {}, fail |-> fail]

TeamScenarios ==
    { [T(<<0, 0, 1, 1>>, TRUE, FALSE, FALSE, {}) EXCEPT !.slow = {0, 2}],
      T(<<0, 0, 1, 1>>, TRUE, FALSE, FALSE, {<<3, "shmat">>}),
      T(<<0, 0, 1, 1>>, TRUE, FALSE, FALSE, {<<0, "connect">>}),
      T(<<0, 0, 1, 1>>, TRUE, FALSE, FALSE, {<<1, "dm">>}),
      T(<<0, 1, 1>>, FALSE, TRUE, TRUE, {}),
      T(<<0, 1, 1>>, TRUE, TRUE, FALSE, {}),
      T(<<0, 1>>, FALSE, TRUE, TRUE, {<<1, "ctx">>}),
      T(<<0, 1, 1>>, FALSE, TRUE, FALSE, {<<1, "setup">>}),
      T(<<0, 0>>, FALSE, TRUE, TRUE, {<<1, "rc">>}),
      T(<<0, 0>>, FALSE, TRUE, FALSE, {<<0, "sync">>}),
      [T(<<0, 0, 1, 1>>, TRUE, TRUE, FALSE, {}) EXCEPT !.slow = {0, 2}, !.groups = 1],
      T(<<0, 0, 1, 1>>, TRUE, FALSE, FALSE, {<<0, "shm">>}),
      T(<<0, 0, 1, 1>>, TRUE, FALSE, FALSE, {<<2, "resources">>}) }
  \cup { T(<<0, 0>>, FALSE, TRUE, rel, {<<r, f>>}) :
         rel \in BOOLEAN, r \in 0 .. 1, f \in {"join", "setup", "event"} }

TM == INSTANCE Mlx5Team WITH Scenarios <- TeamScenarios

MlxInit == Init \/ AG!Init \/ TM!Init
MlxNext == Next \/ AG!Next \/ TM!Next
MlxSpec == MlxInit /\ [][MlxNext]_vars /\ Fairness /\ AG!Fairness /\ TM!Fairness

(* Rank 0 of two cannot join the multicast group.                            *)
JoinInit == TM!Init /\ sc = T(<<0, 0>>, FALSE, TRUE, FALSE, {<<0, "join">>})
JoinSpec == JoinInit /\ [][TM!Next]_vars /\ TM!Fairness

-----------------------------------------------------------------------------
\* The ranks of a mlx5 team agree on the features they offer, have what those
\* use, and never crash or take one another's messages, unless a collective of
\* the creation left a rank out, the messages of both features met on one tag,
\* or rank 0 could not join the group (ucc_tl_mlx5_team_create_test).
TeamsAgree == TM!Agreement /\ TM!NeverMixed /\ TM!NoCrash /\ TM!ReadyIsThere

\* A complete broadcast or allgather has delivered what was sent, although
\* windows and buffers are used again and packets were lost, late, out of
\* order, resent or read (process_packet, process_packet_collective); not so a
\* zero-copy collective on a rank that repaired a loss.
AllDelivered == Delivered /\ AG!Delivered

\* Every team is created or given up on all ranks and every collective that all
\* post completes, even if no multicast packet arrives, with the exceptions the
\* modules name: a rank left out, features on one tag and a failed root in the
\* creation of a team, and a zero-copy collective that repaired a loss.
AllComplete == <>(/\ Ours => AllDone
                  /\ AG!Ours => AG!AllDone \/ AG!Failed \/ AG!Repaired
                  /\ TM!Ours => TM!Completed)

\* What the comments at the failed join of rank 0 say: it broadcasts the failed
\* status to the other ranks "so others do not hang" (tl_mlx5_mcast_team.c).
OthersReturn == TM!OthersReturn
=============================================================================
