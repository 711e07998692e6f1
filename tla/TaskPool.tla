------------------------------ MODULE TaskPool ------------------------------
(***************************************************************************)
(* What a progress queue promises its users, whichever implementation      *)
(* ucc_progress_queue_init picks: a pool of tasks from which a thread takes *)
(* any queued task, and into which it puts a task it holds.  The order is  *)
(* not part of the promise, and a dequeue may find nothing at any time (a  *)
(* stuttering step).                                                       *)
(***************************************************************************)
CONSTANTS Threads,   \* threads calling ucc_context_progress / posting tasks
          Elems,     \* the queue elements (ucc_coll_task_t.lf_elem)
          NULL

VARIABLES free,      \* elements known neither to the queue nor to a thread
          queued,    \* elements in the queue
          held       \* held[t]: the element thread t works on, or NULL

vars == <<free, queued, held>>

Init ==
    /\ free = Elems
    /\ queued = {}
    /\ held = [t \in Threads |-> NULL]

\* A task is posted: its thread holds it until it is in the queue.
Post(t, e) ==
    /\ held[t] = NULL
    /\ e \in free
    /\ free' = free \ {e}
    /\ held' = [held EXCEPT ![t] = e]
    /\ UNCHANGED queued

\* pq->enqueue
Put(t) ==
    /\ held[t] # NULL
    /\ queued' = queued \cup {held[t]}
    /\ held' = [held EXCEPT ![t] = NULL]
    /\ UNCHANGED free

\* pq->dequeue, when it finds a task
Take(t, e) ==
    /\ held[t] = NULL
    /\ e \in queued
    /\ queued' = queued \ {e}
    /\ held' = [held EXCEPT ![t] = e]
    /\ UNCHANGED free

\* ucc_task_complete: the task leaves the progress engine
Drop(t) ==
    /\ held[t] # NULL
    /\ free' = free \cup {held[t]}
    /\ held' = [held EXCEPT ![t] = NULL]
    /\ UNCHANGED queued

Next ==
    \E t \in Threads :
        \/ Put(t)
        \/ Drop(t)
        \/ \E e \in Elems : Post(t, e) \/ Take(t, e)

Spec == Init /\ [][Next]_vars
=============================================================================
