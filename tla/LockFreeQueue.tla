--------------------------- MODULE LockFreeQueue ---------------------------
(***************************************************************************)
(* The lock-free progress queue (utils/ucc_lock_free_queue.h) under the    *)
(* calls ucc_pq_mt_progress and ucc_progress_queue_enqueue make.  Two      *)
(* pools of LINE_SIZE slots, each with a locked overflow list; which_pool  *)
(* counts the switches from one pool to the other and its low bit names    *)
(* the pool that is dequeued from.  Every access to a slot and to          *)
(* which_pool is a step of its own; a critical section on a locked queue,  *)
(* which touches nothing else that is shared, is one step.                 *)
(***************************************************************************)
EXTENDS Naturals, Sequences

CONSTANTS Threads,
          Elems,        \* queue elements, one per task
          NULL,
          LINE_SIZE,    \* slots of a pool (8 in the code)
          POOL_MOD      \* which_pool wraps at POOL_MOD (256: a uint8_t)

ASSUME QueueAssumption ==
    /\ NULL \notin Elems
    /\ LINE_SIZE \in Nat \ {0}
    /\ POOL_MOD \in Nat \ {0}

Pools == {0, 1}
Slots == 1 .. LINE_SIZE
Ptr   == Elems \cup {NULL}

VARIABLES
    elements,      \* elements[p][i]: the element in slot i of pool p, or NULL
    locked_queue,  \* locked_queue[p]: the overflow list of pool p
    which_pool,
    was_queued,    \* was_queued[e]: 1 once e has been dequeued
    free,          \* tasks that are not posted, or completed
    \* locals of a thread
    pc,
    held,          \* the element it enqueues, or has dequeued
    pool,          \* local which_pool of enqueue and dequeue
    idx,           \* loop counter i
    seen,          \* local elem of dequeue: the last slot read
    curr,          \* local curr_which_pool
    first          \* is_first_call

shared == <<elements, locked_queue, which_pool, was_queued>>
locals == <<pc, held, pool, idx, seen, curr, first>>
vars   == <<shared, free, locals>>

Labels == {"idle", "enq", "enq_cas", "enq_lock",
           "deq_again", "deq_read", "deq_cas", "deq_lock", "deq_flip", "hold"}

\* ucc_lf_queue_init
Init ==
    /\ elements = [p \in Pools |-> [i \in Slots |-> NULL]]
    /\ locked_queue = [p \in Pools |-> << >>]
    /\ which_pool = 0
    /\ was_queued = [e \in Elems |-> 0]
    /\ free = Elems
    /\ pc = [t \in Threads |-> "idle"]
    /\ held = [t \in Threads |-> NULL]
    /\ pool = [t \in Threads |-> 0]
    /\ idx = [t \in Threads |-> 1]
    /\ seen = [t \in Threads |-> NULL]
    /\ curr = [t \in Threads |-> 0]
    /\ first = [t \in Threads |-> TRUE]

Goto(t, l) == pc' = [pc EXCEPT ![t] = l]

\* The call ends: its locals are gone, and t holds e.
Return(t, l, e) ==
    /\ Goto(t, l)
    /\ held' = [held EXCEPT ![t] = e]
    /\ pool' = [pool EXCEPT ![t] = 0]
    /\ idx' = [idx EXCEPT ![t] = 1]
    /\ seen' = [seen EXCEPT ![t] = NULL]
    /\ curr' = [curr EXCEPT ![t] = 0]
    /\ first' = [first EXCEPT ![t] = TRUE]

-----------------------------------------------------------------------------
(* The callers                                                             *)

\* ucc_lf_queue_init_elem: the memory of a released task serves a new one.
InitElem(e) ==
    /\ e \in free
    /\ was_queued[e] = 1
    /\ was_queued' = [was_queued EXCEPT ![e] = 0]
    /\ UNCHANGED <<elements, locked_queue, which_pool, free, locals>>

\* ucc_progress_queue_enqueue of a task that is still in progress: a new
\* task, or a persistent one posted again (was_queued keeps its value).
Post(t, e) ==
    /\ pc[t] = "idle"
    /\ e \in free
    /\ free' = free \ {e}
    /\ held' = [held EXCEPT ![t] = e]
    /\ Goto(t, "enq")
    /\ UNCHANGED <<shared, pool, idx, seen, curr, first>>

\* ucc_pq_mt_progress: the task is still in progress and is enqueued again ...
Requeue(t) ==
    /\ pc[t] = "hold"
    /\ Goto(t, "enq")
    /\ UNCHANGED <<shared, free, held, pool, idx, seen, curr, first>>

\* ... or it has completed (or timed out) and leaves the queue.
Complete(t) ==
    /\ pc[t] = "hold"
    /\ free' = free \cup {held[t]}
    /\ Return(t, "idle", NULL)
    /\ UNCHANGED <<shared>>

-----------------------------------------------------------------------------
(* ucc_lf_queue_enqueue                                                    *)

\* which_pool = elem->was_queued ^ (queue->which_pool & 1)
EnqueuePool(t) == (was_queued[held[t]] + which_pool) % 2

EnqueueStart(t) ==
    /\ pc[t] = "enq"
    /\ pool' = [pool EXCEPT ![t] = EnqueuePool(t)]
    /\ idx' = [idx EXCEPT ![t] = 1]
    /\ Goto(t, "enq_cas")
    /\ UNCHANGED <<shared, free, held, seen, curr, first>>

\* Defect: the element is stored without comparing the slot with 0.
MutSlotIsFree(t) == TRUE

\* The comparison of CAS(elements[which_pool][i], 0, elem)
SlotIsFree(t) == elements[pool[t]][idx[t]] = NULL

\* the CAS succeeds
EnqueueCas(t) ==
    /\ pc[t] = "enq_cas"
    /\ SlotIsFree(t)
    /\ elements' = [elements EXCEPT ![pool[t]][idx[t]] = held[t]]
    /\ Return(t, "idle", NULL)
    /\ UNCHANGED <<locked_queue, which_pool, was_queued, free>>

\* the CAS fails: next slot, or the locked queue after the last one
EnqueueNext(t) ==
    /\ pc[t] = "enq_cas"
    /\ ~SlotIsFree(t)
    /\ IF idx[t] = LINE_SIZE
       THEN Goto(t, "enq_lock") /\ UNCHANGED idx
       ELSE idx' = [idx EXCEPT ![t] = @ + 1] /\ UNCHANGED pc
    /\ UNCHANGED <<shared, free, held, pool, seen, curr, first>>

EnqueueLocked(t) ==
    /\ pc[t] = "enq_lock"
    /\ locked_queue' = [locked_queue EXCEPT ![pool[t]] = Append(@, held[t])]
    /\ Return(t, "idle", NULL)
    /\ UNCHANGED <<elements, which_pool, was_queued, free>>

-----------------------------------------------------------------------------
(* ucc_lf_queue_dequeue                                                    *)

DequeueStart(t) ==
    /\ pc[t] \in {"idle", "deq_again"}
    /\ first' = [first EXCEPT ![t] = (pc[t] = "idle")]
    /\ curr' = [curr EXCEPT ![t] = which_pool]
    /\ pool' = [pool EXCEPT ![t] = which_pool % 2]
    /\ idx' = [idx EXCEPT ![t] = 1]
    /\ Goto(t, "deq_read")
    /\ UNCHANGED <<shared, free, held, seen>>

\* the loop goes on to the next slot, or to the locked queue
NextSlot(t) ==
    IF idx[t] = LINE_SIZE
    THEN Goto(t, "deq_lock") /\ UNCHANGED idx
    ELSE Goto(t, "deq_read") /\ idx' = [idx EXCEPT ![t] = @ + 1]

DequeueRead(t) ==
    /\ pc[t] = "deq_read"
    /\ seen' = [seen EXCEPT ![t] = elements[pool[t]][idx[t]]]
    /\ IF elements[pool[t]][idx[t]] = NULL
       THEN NextSlot(t)
       ELSE Goto(t, "deq_cas") /\ UNCHANGED idx
    /\ UNCHANGED <<shared, free, held, pool, curr, first>>

\* Defect: the slot is cleared without comparing it with the element read.
MutSlotUnchanged(t) == TRUE

\* The comparison of CAS(elements[which_pool][i], elem, 0)
SlotUnchanged(t) == elements[pool[t]][idx[t]] = seen[t]

\* The CAS succeeds; was_queued is then written by the element's new owner.
DequeueCas(t) ==
    /\ pc[t] = "deq_cas"
    /\ SlotUnchanged(t)
    /\ elements' = [elements EXCEPT ![pool[t]][idx[t]] = NULL]
    /\ was_queued' = [was_queued EXCEPT ![seen[t]] = 1]
    /\ Return(t, "hold", seen[t])
    /\ UNCHANGED <<locked_queue, which_pool, free>>

DequeueCasFails(t) ==
    /\ pc[t] = "deq_cas"
    /\ ~SlotUnchanged(t)
    /\ NextSlot(t)
    /\ UNCHANGED <<shared, free, held, pool, seen, curr, first>>

DequeueLocked(t) ==
    /\ pc[t] = "deq_lock"
    /\ locked_queue[pool[t]] # << >>
    /\ LET e == Head(locked_queue[pool[t]]) IN
         /\ locked_queue' = [locked_queue EXCEPT ![pool[t]] = Tail(@)]
         /\ was_queued' = [was_queued EXCEPT ![e] = 1]
         /\ Return(t, "hold", e)
    /\ UNCHANGED <<elements, which_pool, free>>

DequeueLockedEmpty(t) ==
    /\ pc[t] = "deq_lock"
    /\ locked_queue[pool[t]] = << >>
    /\ Goto(t, "deq_flip")
    /\ UNCHANGED <<shared, free, held, pool, idx, seen, curr, first>>

\* Defect: a drained pool is not left.
MutNextPool(t) == curr[t]

\* curr_which_pool + 1, in a uint8_t
NextPool(t) == (curr[t] + 1) % POOL_MOD

\* CAS(which_pool, curr_which_pool, curr_which_pool + 1): on success the
\* first call looks into the other pool, any other call returns NULL.
DequeueFlip(t) ==
    /\ pc[t] = "deq_flip"
    /\ IF which_pool = curr[t]
       THEN /\ which_pool' = NextPool(t)
            /\ Return(t, IF first[t] THEN "deq_again" ELSE "idle", NULL)
       ELSE Return(t, "idle", NULL) /\ UNCHANGED which_pool
    /\ UNCHANGED <<elements, locked_queue, was_queued, free>>

-----------------------------------------------------------------------------
Enqueue(t) ==
    EnqueueStart(t) \/ EnqueueCas(t) \/ EnqueueNext(t) \/ EnqueueLocked(t)

Dequeue(t) ==
    \/ DequeueStart(t) \/ DequeueRead(t) \/ DequeueCas(t) \/ DequeueCasFails(t)
    \/ DequeueLocked(t) \/ DequeueLockedEmpty(t) \/ DequeueFlip(t)

Next ==
    \/ \E e \in Elems : InitElem(e)
    \/ \E t \in Threads :
         \/ \E e \in Elems : Post(t, e)
         \/ Requeue(t) \/ Complete(t) \/ Enqueue(t) \/ Dequeue(t)

Spec == Init /\ [][Next]_vars

\* Every thread keeps calling ucc_context_progress: it dequeues whenever it is
\* not busy, runs its calls to their end, and hands back the task it holds.
Fairness ==
    \A t \in Threads :
        WF_vars(Enqueue(t) \/ Dequeue(t) \/ Requeue(t) \/ Complete(t))

FairSpec == Spec /\ Fairness

-----------------------------------------------------------------------------
(* Properties                                                              *)

\* Every field has its type: which_pool and its copies stay in a uint8_t, the
\* loop counters of enqueue and dequeue stay inside a pool.
TypeOK ==
    /\ elements \in [Pools -> [Slots -> Ptr]]
    /\ locked_queue \in [Pools -> Seq(Elems)]
    /\ which_pool \in 0 .. POOL_MOD - 1
    /\ was_queued \in [Elems -> {0, 1}]
    /\ free \in SUBSET Elems
    /\ pc \in [Threads -> Labels]
    /\ held \in [Threads -> Ptr]
    /\ pool \in [Threads -> Pools]
    /\ idx \in [Threads -> Slots]
    /\ seen \in [Threads -> Ptr]
    /\ curr \in [Threads -> 0 .. POOL_MOD - 1]
    /\ first \in [Threads -> BOOLEAN]

\* The locals agree with the control: a thread owns an element exactly while it
\* enqueues it or has just dequeued it, and it compares-and-swaps a slot only
\* with an element it has read there.
LocalsOK ==
    \A t \in Threads :
        /\ held[t] # NULL <=> pc[t] \in {"enq", "enq_cas", "enq_lock", "hold"}
        /\ pc[t] = "deq_cas" => seen[t] # NULL

InSlots(e) == \E p \in Pools, i \in Slots : elements[p][i] = e
InList(e, p) == \E k \in 1 .. Len(locked_queue[p]) : locked_queue[p][k] = e
InLists(e) == \E p \in Pools : InList(e, p)
IsHeld(e) == \E t \in Threads : held[t] = e

SlotsDistinct ==
    \A p, q \in Pools, i, j \in Slots :
        elements[p][i] # NULL /\ elements[p][i] = elements[q][j]
            => p = q /\ i = j

ListsDistinct ==
    \A p, q \in Pools : \A k \in 1 .. Len(locked_queue[p]),
                           l \in 1 .. Len(locked_queue[q]) :
        locked_queue[p][k] = locked_queue[q][l] => p = q /\ k = l

HeldDistinct ==
    \A t, u \in Threads : held[t] # NULL /\ held[t] = held[u] => t = u

OnePlace(e) ==
    /\ e \in free => ~InSlots(e) /\ ~InLists(e) /\ ~IsHeld(e)
    /\ InSlots(e) => ~InLists(e) /\ ~IsHeld(e)
    /\ InLists(e) => ~IsHeld(e)
    /\ e \in free \/ InSlots(e) \/ InLists(e) \/ IsHeld(e)

\* Every element is in exactly one place: one slot, one position of one locked
\* queue, the hands of one thread, or with the user.  So no two threads ever
\* progress one task at the same time, and a posted task is never dropped,
\* however the compare-and-swaps of enqueue and dequeue interleave.
OwnedOnce ==
    /\ SlotsDistinct
    /\ ListsDistinct
    /\ HeldDistinct
    /\ \A e \in Elems : OnePlace(e)

Queued == {e \in Elems : InSlots(e) \/ InLists(e)}

Pool == INSTANCE TaskPool WITH queued <- Queued

\* The queue implements the abstract task pool: each CAS that succeeds and each
\* critical section of a locked queue puts or takes exactly one task, and no
\* other step of enqueue or dequeue changes what is queued.
PoolSpec == Pool!Spec

\* A queued task is eventually dequeued, however often the tasks around it are
\* put back or posted again: a drained pool is left, and tasks that were queued
\* before go to the pool that is not being drained.  New tasks go to the pool
\* that is (was_queued is 0), so a stream of them that never ends can keep the
\* other pool waiting; the condition is that it ends.
EveryElemDequeued ==
    <>[][\A e \in Elems : ~InitElem(e)]_vars =>
        \A e \in Elems : e \in Queued ~> e \notin Queued
=============================================================================
