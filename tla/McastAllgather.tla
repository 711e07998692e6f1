--------------------------- MODULE McastAllgather ---------------------------
(***************************************************************************)
(* Allgather, and the zero-copy broadcast, over the InfiniBand multicast   *)
(* of TL mlx5.  A packet carries its source, the number of its collective  *)
(* (modulo MaxCounter) and its number within the message.  What has not    *)
(* arrived in time is read from the memory of the source by RDMA:          *)
(*   "async"  from a slot into which the source copied its message, after  *)
(*            a first read has shown that the slot is of this collective;  *)
(*   "sync"   from the send buffer, the keys of which are exchanged before *)
(*            the first packet; a barrier ends the collective;             *)
(*   "zcopy"  like sync, with the packets received in place: the message   *)
(*            is cut into buckets, in every step one bucket per group is   *)
(*            sent while the buffers of the next are posted, and a barrier *)
(*            ends every step.                                             *)
(* One call of the progress function is one step.  It finds some of the    *)
(* packets that may arrive, some completions, and the timer run out or     *)
(* not.  A read takes place some time after it is posted.                  *)
(***************************************************************************)
EXTENDS Integers, Sequences, FiniteSets, SequencesExt

CONSTANTS Scenarios,  \* [kind, n, scheme, coll, root, packets, calls, bucket,
                      \*  groups, push, slow, waits, early, first]
          MaxBatch,   \* most packets that one progress call finds
          MaxCounter, \* ONE_SIDED_MAX_ZCOPY_COLL_COUNTER
          SlotsCount  \* ONE_SIDED_SLOTS_COUNT

VARIABLES sc,   \* the scenario
          rank, \* rank -> the state of its communicator and of its request
          wire  \* the multicast packets that may still arrive

vars == <<sc, rank, wire>>

Ours == sc.kind = "allgather"
Ranks == 0 .. sc.n - 1
Zcopy == sc.scheme = "zcopy"
Async == sc.scheme = "async"
Overwritten == <<-1, -1, -1>> \* what a user may write into a buffer of theirs
Valid(src, off, call) == <<src, off, call>>

\* F(v), with v evaluated once.
With(v, F(_)) == CHOOSE y \in {F(x) : x \in {v}} : TRUE

Least(a, b) == IF a < b THEN a ELSE b

\* What remote_slot_info may hold besides a counter.
INVALID == -4
PENDING_INFO == -2
PENDING_DATA == -1

AgCounter(R) == sc.first + R.call - 1
Counter(R) == AgCounter(R) % MaxCounter
PendingReads(R) == Cardinality(R.reads) + R.readcq

-----------------------------------------------------------------------------
(* The schedule of the zero-copy collectives.  Step i posts the buffers of *)
(* Prepost(i) and multicasts what step i - 1 has posted.                   *)

Concurrency == Least(sc.groups \div 2, sc.n)
Bucket == Least(sc.packets, sc.bucket)
Ops == 0 .. Concurrency - 1

\* validate_zero_copy_*_params.
Supported ==
  /\ Concurrency > 0
  /\ (sc.coll = "allgather" /\ Concurrency % 2 = 1) \/ sc.packets % Bucket = 0
  /\ sc.n % Concurrency = 0

TotalSteps == 1 +
  IF sc.coll = "allgather"
  THEN (sc.packets * (sc.n \div Concurrency)) \div Bucket
  ELSE sc.packets \div (Concurrency * Bucket)

\* The allgather goes through the message of Concurrency roots at a time ...
AllgatherPrepost(i, j) ==
  LET turn == (sc.packets + Bucket - 1) \div Bucket IN
  [group |-> j + Concurrency * (i % 2),
   offset |-> IF sc.packets % Bucket = 0 THEN (i % turn) * Bucket ELSE i * Bucket,
   root |-> (IF sc.packets % Bucket = 0
             THEN ((i \div turn) * Concurrency) % sc.n ELSE 0) + j]

\* ... and the broadcast through Concurrency buckets of one root.
BcastPrepost(i, j) ==
  [group |-> j + Concurrency * (i % 2),
   offset |-> (i * Concurrency + j) * Bucket,
   root |-> sc.root]

Prepost(i, j) ==
  IF sc.coll = "allgather" THEN AllgatherPrepost(i, j) ELSE BcastPrepost(i, j)
MulticastOp(i, j) == Prepost(i - 1, j)

\* The root of a broadcast receives nothing.
Receives(R) == sc.coll = "allgather" \/ R.me # sc.root
StepToRecv(R) == IF R.step > 0 /\ Receives(R) THEN Concurrency * Bucket ELSE 0
MyOps(R, i) == IF i = 0 THEN {} ELSE {j \in Ops : MulticastOp(i, j).root = R.me}

\* What a step starts with.
EnterStep(R, i) ==
  [R EXCEPT !.step = i,
            !.recvd = 0,
            !.left = [j \in Ops |-> IF j \in MyOps(R, i) THEN Bucket ELSE 0],
            !.sendat = [j \in Ops |-> IF i = 0 THEN 0 ELSE MulticastOp(i, j).offset],
            !.prepost = IF sc.coll = "allgather" THEN i = TotalSteps - 1
                                                 ELSE R.me = sc.root,
            !.mdone = sc.coll = "allgather" /\ MyOps(R, i) = {}]

-----------------------------------------------------------------------------
(* Requests.                                                               *)

\* allgather_init, prepare_bcast: the request of the next collective.
NewRequest(R) ==
  With([R EXCEPT
          !.st = "run", !.keys = FALSE, !.bar = FALSE,
          !.to_send = IF sc.coll = "allgather" \/ R.me = sc.root THEN sc.packets ELSE 0,
          !.to_recv = CASE sc.coll = "allgather" -> sc.n * sc.packets
                        [] R.me = sc.root -> 0
                        [] OTHER -> sc.packets,
          !.out = [s \in Ranks |-> [o \in 0 .. sc.packets - 1 |-> <<>>]]],
       LAMBDA S : IF Zcopy THEN EnterStep(S, 0) ELSE S)

NewComm(r) == NewRequest(
  [me |-> r, call |-> 1, st |-> "run", ready |-> FALSE, keys |-> FALSE,
   to_send |-> 0, to_recv |-> 0, pending_send |-> 0,
   reads |-> {}, readcq |-> 0,
   tracker |-> [s \in Ranks |-> 0], info |-> [s \in Ranks |-> INVALID],
   slots |-> [i \in 0 .. SlotsCount - 1 |-> [info |-> 0, data |-> 0]],
   slots_valid |-> FALSE, pending_q |-> <<>>, coll |-> 0, bar |-> FALSE,
   step |-> 0, recvd |-> 0, left |-> <<>>, sendat |-> <<>>, prepost |-> FALSE,
   mdone |-> FALSE, drained |-> FALSE, net |-> {}, polled |-> {},
   rq |-> [g \in 0 .. sc.groups - 1 |-> <<>>], out |-> <<>>])

\* The service collectives of the team run in the order in which they are
\* posted; one is complete on a rank when everybody, or for a broadcast its
\* root, has posted it.
Post(R) == [R EXCEPT !.coll = @ + 1]
Synced(R) == \A s \in Ranks \ {R.me} : rank[s].coll >= R.coll
FromRoot(R) == R.me = sc.root \/ rank[sc.root].coll >= R.coll

ClearReliability(R) ==
  [R EXCEPT !.tracker = [s \in Ranks |-> 0],
            !.info = [s \in Ranks |-> INVALID],
            !.slots_valid = FALSE]

\* allgather_reliability_ready, bcast_reliability_ready.
ReliabilityReady(R) ==
  CASE R.ready -> R
    [] ~R.ready /\ Async -> [ClearReliability(R) EXCEPT !.ready = TRUE]
    [] ~R.ready /\ ~Async /\ ~R.keys -> Post([ClearReliability(R) EXCEPT !.keys = TRUE])
    [] OTHER -> IF IF sc.coll = "bcast" THEN FromRoot(R) ELSE Synced(R)
                THEN [R EXCEPT !.ready = TRUE, !.keys = FALSE] ELSE R

-----------------------------------------------------------------------------
(* Sending and receiving.                                                  *)

\* send_collective: k packets on a group, from offset at of the message.
\* The packet is numbered by what is left to send.
Packets(R, k, at, group) ==
  {[src |-> R.me, ctr |-> Counter(R), off |-> sc.packets - R.to_send + i,
    data |-> Valid(R.me, at + i, R.call), group |-> group, to |-> d] :
     i \in 0 .. k - 1, d \in Ranks}
SendCollective(R, k, at, group) ==
  [R EXCEPT !.to_send = @ - k,
            !.pending_send = @ + k,
            !.net = @ \cup Packets(R, k, at, group)]
Push(R, left) == Least(sc.push - R.pending_send, left)

\* poll_send: all that has completed.
PollSend(R, polled) ==
  [R EXCEPT !.readcq = 0, !.pending_send = IF polled THEN 0 ELSE @]

\* Mutant: a packet that was left from an earlier collective is taken.
MutProcessPacket(R, p) == LET cur == Counter(R) IN
  IF p.ctr > cur THEN [R EXCEPT !.pending_q = Append(@, p)]
  ELSE [R EXCEPT !.tracker[p.src] = Least(@ + 1, sc.packets),
                 !.out[p.src][p.off] = p.data, !.to_recv = @ - 1]

\* process_packet_collective.  A zero-copy packet is where the receive that
\* it met was posted for; in the wrong place it does not count.
ProcessPacket(R, p) ==
  LET cur   == Counter(R)
      place == IF Zcopy THEN Head(R.rq[p.group])
                        ELSE [root |-> p.src, offset |-> p.off]
      n     == R.tracker[p.src] + IF place.offset = p.off THEN 1 ELSE 0
  IN CASE p.ctr > cur -> [R EXCEPT !.pending_q = Append(@, p)]
       [] p.ctr < cur -> R
       [] OTHER ->
            [R EXCEPT !.st = IF n > sc.packets THEN "err" ELSE @,
                      !.tracker[p.src] = n,
                      !.out[place.root][place.offset] = p.data,
                      !.rq = IF Zcopy THEN [@ EXCEPT ![p.group] = Tail(@)] ELSE @,
                      !.to_recv = @ - 1]

ProcessAll(R, ps) == FoldLeft(
  LAMBDA S, p : IF S.st = "err" \/ (Zcopy /\ S.rq[p.group] = <<>>) THEN S
                ELSE With(S, LAMBDA T : ProcessPacket(T, p)), R, ps)

\* recv_collective: what was set aside, then what has come.
RecvCollective(R, batch) ==
  IF R.to_recv = 0 \/ R.st = "err" THEN R
  ELSE LET mine == SelectSeq(R.pending_q, LAMBDA p : p.ctr = Counter(R))
           rest == SelectSeq(R.pending_q, LAMBDA p : p.ctr # Counter(R))
       IN ProcessAll([R EXCEPT !.pending_q = rest, !.polled = Range(batch)], mine \o batch)

-----------------------------------------------------------------------------
(* What has not come is read.  A read is [target, what, offset, count].    *)

Read(t, what, offset, count) ==
  [target |-> t, what |-> what, offset |-> offset, count |-> count]
Whole(t) == Read(t, "data", 0, sc.packets)

\* staging_allgather_reliable_one_sided_get.
StagingGet(R) ==
  LET open  == {t \in Ranks : R.tracker[t] # sc.packets}
      there == {t \in open : R.info[t] = AgCounter(R)}
      ask   == {t \in open : R.info[t] \notin {AgCounter(R), PENDING_INFO, PENDING_DATA}}
  IN IF Async
     THEN [R EXCEPT
             !.reads = @ \cup {Whole(t) : t \in there} \cup {Read(t, "info", 0, 0) : t \in ask},
             !.info = [t \in Ranks |-> CASE t \in there -> PENDING_DATA
                                         [] t \in ask -> PENDING_INFO
                                         [] OTHER -> @[t]],
             !.tracker = [t \in Ranks |-> IF t \in there THEN sc.packets ELSE @[t]]]
     ELSE [R EXCEPT !.reads = @ \cup {Whole(t) : t \in open}]

AllCounted(R) == \A t \in Ranks : R.tracker[t] = sc.packets

\* progress_one_sided_communication.
ProgressOneSided(R, polled) ==
  With(PollSend(R, polled), LAMBDA S :
    With(IF Async THEN StagingGet(S) ELSE S, LAMBDA T :
      IF PendingReads(T) = 0 /\ ~Zcopy /\ (Async => AllCounted(T))
      THEN [T EXCEPT !.to_recv = 0] ELSE T))

\* check_staging_based_collective.
CheckStaging(R, polled, late) ==
  CASE PendingReads(R) > 0 -> ProgressOneSided(R, polled)
    [] PendingReads(R) = 0 /\ R.to_send = 0 /\ R.to_recv > 0 /\ late
         /\ (sc.early \/ R.pending_send = 0) -> StagingGet(R)
    [] OTHER -> R

\* reliable_zcopy_pipelined_one_sided_get: the receives posted in this step,
\* for the packets of the next one, are given up, and the bucket is read.
PipelinedGet(R) ==
  LET want == IF R.step > 0 /\ Receives(R) THEN Bucket ELSE 0
      open == IF R.step = 0 THEN {}
              ELSE {j \in Ops : R.tracker[MulticastOp(R.step, j).root] # want}
      qps  == {IF R.step < TotalSteps - 1 THEN Prepost(R.step, j).group ELSE 0 : j \in open}
      gone == FoldLeft(LAMBDA n, g : n + IF g \in qps THEN Len(R.rq[g]) ELSE 0, 0,
                       [g \in 1 .. sc.groups |-> g - 1])
  IN [R EXCEPT
        !.rq = [g \in DOMAIN @ |-> IF g \in qps THEN <<>> ELSE @[g]],
        !.to_recv = @ - gone,
        !.drained = @ \/ open # {},
        !.tracker = [t \in Ranks |->
          IF \E j \in open : MulticastOp(R.step, j).root = t THEN want ELSE @[t]],
        !.reads = @ \cup {Read(MulticastOp(R.step, j).root, "data",
                               MulticastOp(R.step, j).offset, want) : j \in open},
        !.recvd = StepToRecv(R)]

\* check_zcopy_allgather_collective, check_zcopy_bcast_collective.
CheckZcopy(R, polled, late) ==
  CASE PendingReads(R) > 0 -> ProgressOneSided(R, polled)
    [] PendingReads(R) = 0 /\ R.step < TotalSteps /\ R.prepost /\ R.mdone
         /\ (R.recvd = StepToRecv(R) \/ late) -> PipelinedGet(R)
    [] OTHER -> R

-----------------------------------------------------------------------------
(* The progress functions.                                                 *)

InProgress(R) ==
  \/ R.to_send > 0 \/ R.to_recv > 0 \/ R.pending_send > 0 \/ PendingReads(R) > 0
  \/ Zcopy /\ R.step # TotalSteps

\* init_async_reliability_slots: the message is copied for the others.
InitSlots(R) ==
  IF Async /\ ~R.slots_valid
  THEN [R EXCEPT !.slots[AgCounter(R) % SlotsCount] =
                   [info |-> AgCounter(R), data |-> R.call],
                 !.slots_valid = TRUE]
  ELSE R

\* The barrier that ends a sync allgather.
EndBarrier(R) ==
  IF InProgress(R) \/ R.st = "err" THEN R
  ELSE With(IF R.bar \/ Async THEN R ELSE Post([R EXCEPT !.bar = TRUE]), LAMBDA S :
         IF Async \/ Synced(S) THEN [S EXCEPT !.st = "ok", !.bar = FALSE] ELSE S)

\* do_staging_based_allgather.
DoStaging(R, batch, polled, late) ==
  With(ReliabilityReady(R), LAMBDA A :
    IF ~A.ready THEN A ELSE
    With(LET k == Push(A, A.to_send) IN
         IF k > 0 THEN SendCollective(A, k, sc.packets - A.to_send, 0) ELSE A, LAMBDA B :
    With(IF A.to_send > 0 \/ A.to_recv > 0 THEN RecvCollective(InitSlots(B), batch)
                                           ELSE B, LAMBDA C :
    IF C.st = "err" THEN C ELSE
    With(IF C.pending_send > 0 THEN PollSend(C, polled) ELSE C, LAMBDA D :
    With(CheckStaging(D, polled, late), LAMBDA S : EndBarrier(S))))))

\* The packets of operation j of the step, as far as the send queue allows.
\* The step's sends are over when those of one operation are.
Multicast(R, j, polled) ==
  IF R.mdone \/ (sc.coll = "allgather" /\ j \notin MyOps(R, R.step)) THEN R
  ELSE LET k == Push(R, R.left[j])
           S == IF k > 0
                THEN [SendCollective(R, k, R.sendat[j], MulticastOp(R.step, j).group)
                        EXCEPT !.left[j] = @ - k, !.sendat[j] = @ + k]
                ELSE R
       IN With(IF S.pending_send > 0 THEN PollSend(S, j \in polled) ELSE S, LAMBDA T :
            [T EXCEPT !.mdone = T.left[j] = 0 /\ T.pending_send = 0])

\* post_user_recv_buffers, for every operation of the step.
PrepostStep(R) ==
  IF R.prepost THEN R
  ELSE [R EXCEPT
          !.prepost = TRUE,
          !.rq = [g \in DOMAIN @ |->
            IF R.step < TotalSteps - 1 /\ \E j \in Ops : Prepost(R.step, j).group = g
            THEN LET j == CHOOSE j \in Ops : Prepost(R.step, j).group = g
                 IN @[g] \o [i \in 1 .. Bucket |->
                      [root |-> Prepost(R.step, j).root,
                       offset |-> Prepost(R.step, j).offset + i - 1]]
            ELSE @[g]]]

CountReceived(R, S) ==
  IF sc.coll = "allgather" /\ R.recvd = StepToRecv(R) THEN S
  ELSE [S EXCEPT !.recvd = @ + R.to_recv - S.to_recv]

PostBarrier(R) ==
  IF R.prepost /\ R.mdone /\ R.recvd = StepToRecv(R) /\ R.st # "err"
  THEN Post([R EXCEPT !.bar = TRUE]) ELSE R

PipelinedStep(R, batch, polled) ==
  IF R.step = TotalSteps THEN R
  ELSE With(FoldLeft(LAMBDA S, j : With(S, LAMBDA T : Multicast(T, j, polled)), R,
                     [j \in 1 .. Concurrency |-> j - 1]), LAMBDA A :
       With(PrepostStep(A), LAMBDA B :
       With(CountReceived(B, RecvCollective(B, batch)), LAMBDA C : PostBarrier(C))))

\* do_zero_copy_pipelined_allgather, do_zero_copy_pipelined_bcast.
DoPipelined(R, batch, polled, late) ==
  With(ReliabilityReady(R), LAMBDA A :
    IF ~A.ready \/ (A.bar /\ ~Synced(A)) THEN A ELSE
    With(IF A.bar
         THEN EnterStep([A EXCEPT !.bar = FALSE, !.tracker = [t \in Ranks |-> 0]], A.step + 1)
         ELSE A, LAMBDA B :
    With(PipelinedStep(B, batch, polled), LAMBDA C :
    IF C.st = "err" THEN C ELSE
    With(CheckZcopy(C, polled # {}, late), LAMBDA D :
      IF D.bar \/ InProgress(D) THEN D ELSE [D EXCEPT !.st = "ok"]))))

\* What a poll finds: the packets of the prompt links, in order, and any of
\* those of the slow ones, in any order.
Slow(p) == <<p.src, p.to>> \in sc.slow
Waits(r) == r \in sc.waits \* its timer may run out
Sent(p) == <<p.src, p.data[3], p.off>>
NotAfter(a, b) == \/ a[1] < b[1]
                  \/ a[1] = b[1] /\ a[2] < b[2]
                  \/ a[1] = b[1] /\ a[2] = b[2] /\ a[3] <= b[3]
Prompt(r) == With({p \in wire : p.to = r /\ ~Slow(p)}, LAMBDA P :
  [i \in 1 .. Cardinality(P) |->
     CHOOSE p \in P : Cardinality({q \in P : NotAfter(Sent(q), Sent(p))}) = i])
Batches(r) == LET P == {p \in wire : p.to = r /\ Slow(p)} IN
  {Prompt(r) \o b : b \in UNION {{b \in [1 .. k -> P] :
     \A i, j \in 1 .. k : b[i] = b[j] => i = j} : k \in 0 .. MaxBatch}}

\* The progress function of the collective whose turn it is.
Progress(r, batch, polled, late) ==
  /\ rank[r].st = "run" /\ rank[r].call <= sc.calls
  /\ \E S \in {IF Zcopy THEN DoPipelined(rank[r], batch, polled, late)
                        ELSE DoStaging(rank[r], batch, polled # {}, late)} :
       /\ rank' = [rank EXCEPT ![r] = [S EXCEPT !.net = {}, !.polled = {}]]
       /\ wire' = (wire \ S.polled) \cup S.net
  /\ UNCHANGED sc

\* A read takes place: from the slot or from the user's send buffer.
PerformRead(r, x) ==
  LET R == rank[r]
      T == rank[x.target]
      slot == T.slots[AgCounter(R) % SlotsCount]
      call == IF Async THEN slot.data ELSE R.call
      kept == Async \/ (T.call = R.call /\ T.st = "run")
  IN /\ x \in R.reads
     /\ rank' = [rank EXCEPT ![r] =
          IF x.what = "info"
          THEN [R EXCEPT !.reads = @ \ {x}, !.readcq = @ + 1,
                         !.info[x.target] = slot.info]
          ELSE [R EXCEPT !.reads = @ \ {x}, !.readcq = @ + 1,
                  !.out[x.target] = [o \in DOMAIN @ |->
                    IF o \notin x.offset .. x.offset + x.count - 1 THEN @[o]
                    ELSE IF kept THEN Valid(x.target, o, call) ELSE Overwritten]]]
     /\ UNCHANGED <<sc, wire>>

\* task_finalize: the next collective has its turn.
Finalize(r) ==
  /\ rank[r].st = "ok"
  /\ rank' = [rank EXCEPT ![r] =
       NewRequest([@ EXCEPT !.call = @ + 1, !.ready = FALSE])]
  /\ UNCHANGED <<sc, wire>>

-----------------------------------------------------------------------------
Init ==
  /\ sc \in Scenarios /\ (Zcopy => Supported)
  /\ rank = [r \in Ranks |-> NewComm(r)]
  /\ wire = {}

AllDone == \A r \in Ranks : rank[r].call > sc.calls
Failed == \E r \in Ranks : rank[r].st = "err"

\* The program goes on to something else, or has been told of a failure.
Done == (AllDone \/ Failed) /\ UNCHANGED vars

Next == Ours /\
  \/ \E r \in Ranks :
       \/ \E batch \in Batches(r), polled \in SUBSET (0 .. sc.groups \div 2 - 1),
             late \in {FALSE, Waits(r)} : Progress(r, batch, polled, late)
       \/ \E x \in rank[r].reads : PerformRead(r, x)
       \/ Finalize(r)
  \/ Done

Spec == Init /\ [][Next]_vars

\* The progress function is called again and again, the reads take place,
\* and where packets may be lost the timer runs out.
Fairness == \A r \in 0 .. 2 :
  /\ WF_vars(/\ Ours /\ r \in Ranks
             /\ \E batch \in {Prompt(r)} :
                  Progress(r, batch, 0 .. sc.groups \div 2 - 1, Waits(r)))
  /\ \A t \in 0 .. 2 : WF_vars(/\ Ours /\ r \in Ranks
                            /\ \E x \in rank[r].reads : x.target = t /\ PerformRead(r, x))
  /\ WF_vars(Ours /\ r \in Ranks /\ Finalize(r))

FairSpec == Spec /\ Fairness

-----------------------------------------------------------------------------
(* Properties.                                                             *)

Gathered(R) == \A s \in Ranks : sc.coll = "allgather" \/ (s = sc.root /\ R.me # s) =>
  \A o \in 0 .. sc.packets - 1 :
    R.out[s][o] = Valid(s, o, R.call)

\* A collective that has completed on a rank has put into its buffer what
\* every source sent in this call, whatever was lost, late, out of order or
\* read (process_packet_collective, the one-sided reads).  In the zero-copy
\* scheme this ends with the first repair on the rank: the queue that is
\* drained is not that of the late packets, whose receives stay posted, and
\* the next packets of the group land in them.
Delivered == Ours => \A r \in Ranks :
  rank[r].st = "ok" /\ ~rank[r].drained => Gathered(rank[r])

\* Every rank completes every call, or somebody reports a failure, unless a
\* rank drained a queue to repair a loss: the count of receives it waits for
\* may then never be reached.
Repaired == \E r \in Ranks : rank[r].drained
Completes == <>(Ours => AllDone \/ Failed \/ Repaired)

=============================================================================
