------------------------ MODULE LockFreeQueueProofs ------------------------
(***************************************************************************)
(* Theorems about the lock-free queue, for any number of threads, elements *)
(* and slots and any width of which_pool.                                  *)
(***************************************************************************)
EXTENDS LockFreeQueue, TLAPS

\* The inductive invariant.
IndInv == TypeOK /\ LocalsOK /\ OwnedOnce

\* What OwnedOnce and Queued are about.
ownership == <<elements, locked_queue, held, free>>

-----------------------------------------------------------------------------

\* ucc_lf_queue_init leaves every local and every shared field in its range.
LEMMA InitType == Init => TypeOK
BY QueueAssumption DEF Init, TypeOK, Pools, Slots, Ptr, Labels

\* The low bit of which_pool, alone or combined with was_queued, names a pool.
LEMMA LowBit == \A x \in Nat : x % 2 \in Pools
BY DEF Pools

\* A slot counter that is not at the end of its pool can be advanced.
LEMMA SlotAdvance == \A i \in Slots : i # LINE_SIZE => i + 1 \in Slots
BY QueueAssumption DEF Slots

\* The dequeue loop stays within its pool.
LEMMA NextSlotType ==
    ASSUME TypeOK, NEW t \in Threads, NextSlot(t)
    PROVE  idx' \in [Threads -> Slots] /\ pc' \in [Threads -> Labels]
<1> USE DEF TypeOK, Labels, NextSlot, Goto
<1>1. CASE idx[t] = LINE_SIZE
    BY Zenon, <1>1
<1>2. CASE idx[t] # LINE_SIZE
  <2>1. idx[t] + 1 \in Slots
    BY <1>2, SlotAdvance
  <2> QED BY Zenon, <1>2, <2>1
<1> QED BY <1>1, <1>2

\* Every step of the callers, of enqueue and of dequeue keeps every field and
\* every local in its range.
LEMMA NextType == TypeOK /\ LocalsOK /\ [Next]_vars => TypeOK'
<1> SUFFICES ASSUME TypeOK, LocalsOK, [Next]_vars PROVE TypeOK'
    OBVIOUS
<1> USE QueueAssumption DEF TypeOK, Labels, Ptr, shared, locals, Goto, Return
<1>1. ASSUME NEW e \in Elems, InitElem(e) PROVE TypeOK'
    BY <1>1 DEF InitElem
<1>2. ASSUME NEW t \in Threads, NEW e \in Elems, Post(t, e) PROVE TypeOK'
    BY <1>2 DEF Post
<1>3. ASSUME NEW t \in Threads, Requeue(t) PROVE TypeOK'
    BY <1>3 DEF Requeue
<1>4. ASSUME NEW t \in Threads, Complete(t) PROVE TypeOK'
    BY <1>4 DEF Complete, LocalsOK, Pools, Slots
<1>5. ASSUME NEW t \in Threads, EnqueueStart(t) PROVE TypeOK'
  <2>1. was_queued[held[t]] \in Nat /\ which_pool \in Nat
    BY <1>5 DEF EnqueueStart, LocalsOK
  <2>2. EnqueuePool(t) \in Pools
    BY <2>1, LowBit DEF EnqueuePool
  <2> QED BY <1>5, <2>2 DEF EnqueueStart, Slots
<1>6. ASSUME NEW t \in Threads, EnqueueCas(t) PROVE TypeOK'
    BY <1>6 DEF EnqueueCas, Pools, Slots
<1>7. ASSUME NEW t \in Threads, EnqueueNext(t) PROVE TypeOK'
  <2>1. idx' \in [Threads -> Slots] /\ pc' \in [Threads -> Labels]
    <3>1. CASE idx[t] = LINE_SIZE
      BY Zenon, <1>7, <3>1 DEF EnqueueNext
    <3>2. CASE idx[t] # LINE_SIZE
      <4>1. idx[t] + 1 \in Slots
        BY <3>2, SlotAdvance
      <4> QED BY Zenon, <1>7, <3>2, <4>1 DEF EnqueueNext
    <3> QED BY <3>1, <3>2
  <2> QED BY <1>7, <2>1 DEF EnqueueNext
<1>8. ASSUME NEW t \in Threads, EnqueueLocked(t) PROVE TypeOK'
  <2>1. held[t] \in Elems
    BY <1>8 DEF EnqueueLocked, LocalsOK
  <2>2. Append(locked_queue[pool[t]], held[t]) \in Seq(Elems)
    BY <2>1
  <2> QED BY <1>8, <2>2 DEF EnqueueLocked, Pools, Slots
<1>9. ASSUME NEW t \in Threads, DequeueStart(t) PROVE TypeOK'
    BY <1>9, LowBit DEF DequeueStart, Slots
<1>10. ASSUME NEW t \in Threads, DequeueRead(t) PROVE TypeOK'
  <2>1. elements[pool[t]][idx[t]] \in Ptr
    OBVIOUS
  <2>2. seen' \in [Threads -> Ptr]
    BY <1>10, <2>1 DEF DequeueRead
  <2>3. idx' \in [Threads -> Slots] /\ pc' \in [Threads -> Labels]
    <3>1. CASE NextSlot(t)
      BY <3>1, NextSlotType
    <3>2. CASE ~NextSlot(t)
      BY Zenon, <1>10, <3>2 DEF DequeueRead
    <3> QED BY <3>1, <3>2
  <2> QED BY <1>10, <2>2, <2>3 DEF DequeueRead
<1>11. ASSUME NEW t \in Threads, DequeueCas(t) PROVE TypeOK'
  <2>1. elements' \in [Pools -> [Slots -> Ptr]]
    BY <1>11 DEF DequeueCas
  <2>2. was_queued' \in [Elems -> {0, 1}]
    BY Zenon, <1>11 DEF DequeueCas
  <2> QED BY <1>11, <2>1, <2>2 DEF DequeueCas, Pools, Slots
<1>12. ASSUME NEW t \in Threads, DequeueCasFails(t) PROVE TypeOK'
    BY <1>12, NextSlotType DEF DequeueCasFails
<1>13. ASSUME NEW t \in Threads, DequeueLocked(t) PROVE TypeOK'
  <2>1. /\ Head(locked_queue[pool[t]]) \in Elems
        /\ Tail(locked_queue[pool[t]]) \in Seq(Elems)
    BY <1>13 DEF DequeueLocked
  <2> QED BY <1>13, <2>1 DEF DequeueLocked, Pools, Slots
<1>14. ASSUME NEW t \in Threads, DequeueLockedEmpty(t) PROVE TypeOK'
    BY <1>14 DEF DequeueLockedEmpty
<1>15. ASSUME NEW t \in Threads, DequeueFlip(t) PROVE TypeOK'
  <2>1. NextPool(t) \in 0 .. POOL_MOD - 1
    BY DEF NextPool
  <2>2. which_pool' \in 0 .. POOL_MOD - 1
    BY <1>15, <2>1 DEF DequeueFlip
  <2>3. PICK l \in Labels : Return(t, l, NULL)
    BY <1>15 DEF DequeueFlip
  <2> QED BY <1>15, <2>2, <2>3 DEF DequeueFlip, Pools, Slots
<1>16. CASE UNCHANGED vars
    BY <1>16 DEF vars
<1> QED
    BY Zenon, <1>1, <1>2, <1>3, <1>4, <1>5, <1>6, <1>7, <1>8, <1>9, <1>10, <1>11,
       <1>12, <1>13, <1>14, <1>15, <1>16 DEF Next, Enqueue, Dequeue

\* Every step keeps the locals in agreement with the control point.
LEMMA NextLocals == TypeOK /\ LocalsOK /\ [Next]_vars => LocalsOK'
<1> SUFFICES ASSUME TypeOK, LocalsOK, [Next]_vars, NEW u \in Threads
             PROVE  /\ held'[u] # NULL <=>
                         pc'[u] \in {"enq", "enq_cas", "enq_lock", "hold"}
                    /\ pc'[u] = "deq_cas" => seen'[u] # NULL
    BY DEF LocalsOK
<1> USE QueueAssumption DEF TypeOK, LocalsOK, Ptr, shared, locals, Goto, Return
<1>1. ASSUME NEW e \in Elems, InitElem(e) PROVE UNCHANGED locals
    BY <1>1 DEF InitElem
<1>2. CASE \E t \in Threads, e \in Elems : Post(t, e)
    BY <1>2 DEF Post
<1>3. CASE \E t \in Threads : Requeue(t) \/ Complete(t)
    BY <1>3 DEF Requeue, Complete
<1>4. CASE \E t \in Threads : EnqueueStart(t) \/ EnqueueCas(t)
    BY <1>4 DEF EnqueueStart, EnqueueCas
<1>5. CASE \E t \in Threads : EnqueueNext(t) \/ EnqueueLocked(t)
    BY <1>5 DEF EnqueueNext, EnqueueLocked
<1>6. CASE \E t \in Threads : DequeueStart(t)
    BY <1>6 DEF DequeueStart
<1>7. CASE \E t \in Threads : DequeueRead(t)
    BY <1>7 DEF DequeueRead, NextSlot
<1>8. CASE \E t \in Threads : DequeueCas(t) \/ DequeueCasFails(t)
  <2>1. CASE \E t \in Threads : DequeueCas(t)
    <3> PICK t \in Threads : DequeueCas(t)
        BY <2>1
    <3>1. seen[t] # NULL /\ Return(t, "hold", seen[t])
        BY DEF DequeueCas
    <3> QED BY <3>1
  <2>2. CASE \E t \in Threads : DequeueCasFails(t)
    <3> PICK t \in Threads : DequeueCasFails(t)
        BY <2>2
    <3>1. /\ held' = held /\ pc[t] = "deq_cas" /\ seen' = seen
          /\ \/ pc' = [pc EXCEPT ![t] = "deq_lock"]
             \/ pc' = [pc EXCEPT ![t] = "deq_read"]
        BY DEF DequeueCasFails, NextSlot
    <3> QED BY Zenon, <3>1
  <2> QED BY <1>8, <2>1, <2>2
<1>9. CASE \E t \in Threads : DequeueLocked(t) \/ DequeueLockedEmpty(t)
  <2>1. CASE \E t \in Threads : DequeueLocked(t)
    <3> PICK t \in Threads : DequeueLocked(t)
        BY <2>1
    <3> DEFINE e == Head(locked_queue[pool[t]])
    <3>1. e # NULL /\ Return(t, "hold", e)
        BY DEF DequeueLocked
    <3> HIDE DEF e
    <3> QED BY <3>1
  <2>2. CASE \E t \in Threads : DequeueLockedEmpty(t)
    BY <2>2 DEF DequeueLockedEmpty
  <2> QED BY <1>9, <2>1, <2>2
<1>10. CASE \E t \in Threads : DequeueFlip(t)
  <2>1. PICK t \in Threads, l \in {"idle", "deq_again"} : Return(t, l, NULL)
    BY Zenon, <1>10 DEF DequeueFlip
  <2> QED BY <2>1
<1>11. CASE UNCHANGED vars
    BY <1>11 DEF vars
<1> QED
    BY <1>1, <1>2, <1>3, <1>4, <1>5, <1>6, <1>7, <1>8, <1>9, <1>10, <1>11
    DEF Next, Enqueue, Dequeue

-----------------------------------------------------------------------------
\* Initially every element is with the user and nowhere else.
LEMMA InitOwned == Init => LocalsOK /\ OwnedOnce
BY QueueAssumption
DEF Init, LocalsOK, OwnedOnce, SlotsDistinct, ListsDistinct, HeldDistinct,
    OnePlace, InSlots, InLists, InList, IsHeld, Pools, Slots

\* The steps that move no element: all but posting, completing, and the
\* successful ends of enqueue and dequeue.
LEMMA SilentSteps ==
    ASSUME TypeOK, LocalsOK, NEW t \in Threads,
           \/ \E e \in Elems : InitElem(e)
           \/ Requeue(t) \/ EnqueueStart(t) \/ EnqueueNext(t)
           \/ DequeueStart(t) \/ DequeueRead(t) \/ DequeueCasFails(t)
           \/ DequeueLockedEmpty(t) \/ DequeueFlip(t)
    PROVE  UNCHANGED ownership
<1> USE DEF ownership, shared, locals
<1>1. CASE DequeueFlip(t)
  <2>1. held[t] = NULL
    BY <1>1 DEF DequeueFlip, LocalsOK
  <2>2. held' = [held EXCEPT ![t] = NULL]
    BY <1>1 DEF DequeueFlip, Return
  <2>3. held' = held
    BY <2>1, <2>2 DEF TypeOK
  <2> QED BY <1>1, <2>3 DEF DequeueFlip
<1>2. CASE \E e \in Elems : InitElem(e)
    BY <1>2 DEF InitElem
<1> QED
    BY <1>1, <1>2 DEF Requeue, EnqueueStart, EnqueueNext, DequeueStart,
       DequeueRead, DequeueCasFails, DequeueLockedEmpty

\* A compare-and-swap that succeeds moves the enqueued element into a slot.
LEMMA EnqueueCasMoves ==
    ASSUME IndInv, NEW t \in Threads, EnqueueCas(t)
    PROVE  /\ \A x \in Elems : InSlots(x)' <=> InSlots(x) \/ x = held[t]
           /\ SlotsDistinct'
<1> USE QueueAssumption DEF IndInv, TypeOK, EnqueueCas, SlotIsFree
<1>1. held[t] \in Elems
    BY DEF LocalsOK, Ptr
<1>2. \A p \in Pools, i \in Slots :
        elements'[p][i] = IF p = pool[t] /\ i = idx[t] THEN held[t]
                          ELSE elements[p][i]
    OBVIOUS
<1>3. ~InSlots(held[t])
    BY <1>1 DEF OwnedOnce, OnePlace, IsHeld
<1>4. ASSUME NEW x \in Elems PROVE InSlots(x)' <=> InSlots(x) \/ x = held[t]
  <2>1. ASSUME InSlots(x)' PROVE InSlots(x) \/ x = held[t]
    BY <1>2, <2>1 DEF InSlots
  <2>2. ASSUME InSlots(x) PROVE InSlots(x)'
    <3>1. PICK p \in Pools, i \in Slots : elements[p][i] = x
      BY <2>2 DEF InSlots
    <3>2. ~(p = pool[t] /\ i = idx[t])
      BY <3>1
    <3> QED BY <1>2, <3>1, <3>2 DEF InSlots
  <2>3. ASSUME x = held[t] PROVE InSlots(x)'
    BY <1>2, <2>3 DEF InSlots
  <2> QED BY <2>1, <2>2, <2>3
<1>5. SlotsDistinct'
    BY <1>2, <1>3 DEF OwnedOnce, SlotsDistinct, InSlots
<1> QED BY <1>4, <1>5

\* A compare-and-swap that succeeds takes one element out of its only slot.
LEMMA DequeueCasMoves ==
    ASSUME IndInv, NEW t \in Threads, DequeueCas(t)
    PROVE  /\ seen[t] \in Elems /\ InSlots(seen[t])
           /\ \A x \in Elems : InSlots(x)' <=> InSlots(x) /\ x # seen[t]
           /\ SlotsDistinct'
<1> USE QueueAssumption DEF IndInv, TypeOK, DequeueCas, SlotUnchanged
<1>1. seen[t] \in Elems /\ InSlots(seen[t])
    BY DEF LocalsOK, Ptr, InSlots
<1>2. \A p \in Pools, i \in Slots :
        elements'[p][i] = IF p = pool[t] /\ i = idx[t] THEN NULL
                          ELSE elements[p][i]
    OBVIOUS
<1>3. \A p \in Pools, i \in Slots :
        elements[p][i] = seen[t] => p = pool[t] /\ i = idx[t]
  <2>1. elements[pool[t]][idx[t]] = seen[t] /\ seen[t] # NULL
    BY <1>1
  <2>2. pool[t] \in Pools /\ idx[t] \in Slots
    OBVIOUS
  <2> QED BY <2>1, <2>2 DEF OwnedOnce, SlotsDistinct
<1>4. ASSUME NEW x \in Elems PROVE InSlots(x)' <=> InSlots(x) /\ x # seen[t]
  <2>1. ASSUME InSlots(x)' PROVE InSlots(x) /\ x # seen[t]
    BY <1>2, <1>3, <2>1 DEF InSlots
  <2>2. ASSUME InSlots(x), x # seen[t] PROVE InSlots(x)'
    <3>1. PICK p \in Pools, i \in Slots : elements[p][i] = x
      BY <2>2 DEF InSlots
    <3>2. ~(p = pool[t] /\ i = idx[t])
      BY <2>2, <3>1
    <3> QED BY <1>2, <3>1, <3>2 DEF InSlots
  <2> QED BY <2>1, <2>2
<1>5. SlotsDistinct'
    BY <1>2 DEF OwnedOnce, SlotsDistinct
<1> QED BY <1>1, <1>4, <1>5

\* Appending to the locked queue moves the enqueued element into one position.
LEMMA EnqueueLockedMoves ==
    ASSUME IndInv, NEW t \in Threads, EnqueueLocked(t)
    PROVE  /\ \A x \in Elems : InLists(x)' <=> InLists(x) \/ x = held[t]
           /\ ListsDistinct'
<1> USE DEF IndInv, TypeOK, EnqueueLocked
<1> PICK c \in Pools : c = pool[t]
    OBVIOUS
<1> DEFINE q == locked_queue[c]
<1>1. held[t] \in Elems /\ q \in Seq(Elems)
    BY DEF LocalsOK, Ptr
<1>2. ~InLists(held[t])
    BY <1>1 DEF OwnedOnce, OnePlace, IsHeld
<1>3. /\ locked_queue'[c] = Append(q, held[t])
      /\ \A p \in Pools : p # c => locked_queue'[p] = locked_queue[p]
    OBVIOUS
<1>4. /\ Len(Append(q, held[t])) = Len(q) + 1
      /\ \A k \in 1 .. Len(q) : Append(q, held[t])[k] = q[k]
      /\ Append(q, held[t])[Len(q) + 1] = held[t]
      /\ Len(q) \in Nat
    BY <1>1
<1>5. ASSUME NEW x \in Elems PROVE InLists(x)' <=> InLists(x) \/ x = held[t]
  <2>1. \A p \in Pools : p # c => (InList(x, p)' <=> InList(x, p))
    BY <1>3 DEF InList
  <2>2. InList(x, c)' <=> InList(x, c) \/ x = held[t]
    BY <1>3, <1>4 DEF InList
  <2> QED BY <2>1, <2>2 DEF InLists
<1>6. ListsDistinct'
  <2> HIDE DEF q
  <2> SUFFICES ASSUME NEW p \in Pools, NEW r \in Pools,
                      NEW k \in 1 .. Len(locked_queue'[p]),
                      NEW l \in 1 .. Len(locked_queue'[r]),
                      locked_queue'[p][k] = locked_queue'[r][l]
               PROVE  p = r /\ k = l
    BY DEF ListsDistinct
  <2>1. \A s \in Pools : \A m \in 1 .. Len(locked_queue'[s]) :
          \/ m \in 1 .. Len(locked_queue[s])
             /\ locked_queue'[s][m] = locked_queue[s][m]
          \/ s = c /\ m = Len(q) + 1 /\ locked_queue'[s][m] = held[t]
    BY <1>3, <1>4 DEF q
  <2>2. \A s \in Pools : \A m \in 1 .. Len(locked_queue[s]) :
          locked_queue[s][m] # held[t]
    BY <1>2 DEF InLists, InList
  <2> QED BY <2>1, <2>2 DEF OwnedOnce, ListsDistinct
<1> QED BY <1>5, <1>6

\* Extracting the head of a locked queue takes one element out of its only
\* position.
LEMMA DequeueLockedMoves ==
    ASSUME IndInv, NEW t \in Threads, DequeueLocked(t),
           NEW e, e = Head(locked_queue[pool[t]])
    PROVE  /\ e \in Elems /\ InLists(e)
           /\ \A x \in Elems : InLists(x)' <=> InLists(x) /\ x # e
           /\ ListsDistinct'
<1> USE DEF IndInv, TypeOK, DequeueLocked
<1> PICK c \in Pools : c = pool[t]
    OBVIOUS
<1> DEFINE q == locked_queue[c]
<1>1. q \in Seq(Elems) /\ q # << >>
    OBVIOUS
<1>2. /\ locked_queue'[c] = Tail(q)
      /\ \A p \in Pools : p # c => locked_queue'[p] = locked_queue[p]
    OBVIOUS
<1>3. /\ e = q[1] /\ Len(q) \in Nat /\ Len(q) >= 1
      /\ Len(Tail(q)) = Len(q) - 1
      /\ \A k \in 1 .. Len(q) - 1 : Tail(q)[k] = q[k + 1]
    BY <1>1
<1> HIDE DEF q
<1>4. e \in Elems /\ InLists(e)
    BY <1>1, <1>3 DEF InLists, InList, q
<1>5. \A p \in Pools : \A k \in 1 .. Len(locked_queue[p]) :
        locked_queue[p][k] = e => p = c /\ k = 1
    BY <1>1, <1>3 DEF OwnedOnce, ListsDistinct, q
<1>6. ASSUME NEW x \in Elems PROVE InLists(x)' <=> InLists(x) /\ x # e
  <2>1. \A p \in Pools : p # c => (InList(x, p)' <=> InList(x, p))
    BY <1>2 DEF InList
  <2>2. \A p \in Pools : p # c => ~InList(e, p)
    BY <1>5 DEF InList
  <2>3. ASSUME InList(x, c)' PROVE InList(x, c) /\ x # e
    <3>1. PICK k \in 1 .. Len(q) - 1 : Tail(q)[k] = x
      BY Zenon, <1>2, <1>3, <2>3 DEF InList
    <3>2. k + 1 \in 1 .. Len(q) /\ q[k + 1] = x /\ k + 1 # 1
      BY <1>3, <3>1
    <3> QED BY <1>5, <3>2, <1>1 DEF InList, q
  <2>4. ASSUME InList(x, c), x # e PROVE InList(x, c)'
    <3>1. PICK k \in 1 .. Len(q) : q[k] = x
      BY <2>4 DEF InList, q
    <3>2. k - 1 \in 1 .. Len(q) - 1 /\ Tail(q)[k - 1] = x
      BY <1>3, <2>4, <3>1
    <3> QED BY Zenon, <1>2, <1>3, <3>2 DEF InList
  <2> QED BY Zenon, <1>1, <2>1, <2>2, <2>3, <2>4 DEF InLists
<1>7. ListsDistinct'
  <2> SUFFICES ASSUME NEW p \in Pools, NEW r \in Pools,
                      NEW k \in 1 .. Len(locked_queue'[p]),
                      NEW l \in 1 .. Len(locked_queue'[r]),
                      locked_queue'[p][k] = locked_queue'[r][l]
               PROVE  p = r /\ k = l
    BY Zenon DEF ListsDistinct
  <2> DEFINE at(s, m) == IF s = c THEN m + 1 ELSE m
  <2>1. \A s \in Pools : \A m \in 1 .. Len(locked_queue'[s]) :
          /\ at(s, m) \in 1 .. Len(locked_queue[s])
          /\ locked_queue'[s][m] = locked_queue[s][at(s, m)]
    BY <1>2, <1>3 DEF q
  <2>2. p = r /\ at(p, k) = at(r, l)
    BY <2>1 DEF OwnedOnce, ListsDistinct
  <2> QED BY <2>2
<1> QED BY <1>4, <1>6, <1>7

\* A thread that holds nothing takes an element nobody holds.
LEMMA HeldTaken ==
    ASSUME TypeOK, HeldDistinct, NEW t \in Threads, NEW e \in Elems,
           held[t] = NULL, ~IsHeld(e), held' = [held EXCEPT ![t] = e]
    PROVE  /\ \A x \in Elems : IsHeld(x)' <=> IsHeld(x) \/ x = e
           /\ HeldDistinct'
BY QueueAssumption DEF TypeOK, HeldDistinct, IsHeld

\* A thread gives away the element it holds.
LEMMA HeldGiven ==
    ASSUME TypeOK, HeldDistinct, NEW t \in Threads,
           held[t] # NULL, held' = [held EXCEPT ![t] = NULL]
    PROVE  /\ held[t] \in Elems /\ IsHeld(held[t])
           /\ \A x \in Elems : IsHeld(x)' <=> IsHeld(x) /\ x # held[t]
           /\ HeldDistinct'
BY QueueAssumption DEF TypeOK, Ptr, HeldDistinct, IsHeld

\* A step that moves no element leaves the ownership and the abstract pool as
\* they are.
LEMMA SilentOwned ==
    ASSUME OwnedOnce, UNCHANGED ownership
    PROVE  OwnedOnce' /\ UNCHANGED Pool!vars
<1> USE DEF ownership
<1>1. SlotsDistinct' /\ ListsDistinct' /\ HeldDistinct'
    BY DEF OwnedOnce, SlotsDistinct, ListsDistinct, HeldDistinct
<1>2. \A x \in Elems : /\ InSlots(x)' <=> InSlots(x)
                       /\ InLists(x)' <=> InLists(x)
                       /\ IsHeld(x)' <=> IsHeld(x)
    BY DEF InSlots, InLists, InList, IsHeld
<1>3. \A x \in Elems : OnePlace(x)'
    BY <1>2 DEF OwnedOnce, OnePlace
<1>4. Queued' = Queued
    BY <1>2 DEF Queued
<1> QED BY <1>1, <1>3, <1>4 DEF OwnedOnce, Pool!vars

\* Every step keeps each element in exactly one place, and is a step of the
\* abstract task pool or leaves the pool as it is.
LEMMA NextOwned ==
    ASSUME IndInv, [Next]_vars
    PROVE  OwnedOnce' /\ [Pool!Next]_(Pool!vars)
<1> USE DEF IndInv, shared, locals
<1>1. ASSUME NEW t \in Threads, NEW e \in Elems, Post(t, e)
      PROVE  OwnedOnce' /\ Pool!Post(t, e)
  <2>1. held[t] = NULL /\ ~IsHeld(e) /\ held' = [held EXCEPT ![t] = e]
    BY <1>1 DEF Post, LocalsOK, OwnedOnce, OnePlace
  <2>2. /\ \A x \in Elems : IsHeld(x)' <=> IsHeld(x) \/ x = e
        /\ HeldDistinct'
    BY Zenon, <2>1, HeldTaken DEF OwnedOnce
  <2>3. \A x \in Elems : (InSlots(x)' <=> InSlots(x)) /\ (InLists(x)' <=> InLists(x))
    BY <1>1 DEF Post, InSlots, InLists, InList
  <2>4. SlotsDistinct' /\ ListsDistinct'
    BY <1>1 DEF Post, OwnedOnce, SlotsDistinct, ListsDistinct
  <2>5. free' = free \ {e} /\ e \in free
    BY <1>1 DEF Post
  <2>6. \A x \in Elems : OnePlace(x)'
    BY <2>2, <2>3, <2>5 DEF OwnedOnce, OnePlace
  <2>7. Queued' = Queued
    BY <2>3 DEF Queued
  <2> QED BY <2>1, <2>2, <2>4, <2>5, <2>6, <2>7 DEF OwnedOnce, Pool!Post
<1>2. ASSUME NEW t \in Threads, Complete(t)
      PROVE  OwnedOnce' /\ Pool!Drop(t)
  <2>1. held[t] # NULL /\ held' = [held EXCEPT ![t] = NULL]
    BY <1>2 DEF Complete, Return, LocalsOK
  <2>2. /\ held[t] \in Elems /\ IsHeld(held[t])
        /\ \A x \in Elems : IsHeld(x)' <=> IsHeld(x) /\ x # held[t]
        /\ HeldDistinct'
    BY Zenon, <2>1, HeldGiven DEF OwnedOnce
  <2>3. \A x \in Elems : (InSlots(x)' <=> InSlots(x)) /\ (InLists(x)' <=> InLists(x))
    BY <1>2 DEF Complete, InSlots, InLists, InList
  <2>4. SlotsDistinct' /\ ListsDistinct'
    BY <1>2 DEF Complete, OwnedOnce, SlotsDistinct, ListsDistinct
  <2>5. free' = free \cup {held[t]}
    BY <1>2 DEF Complete
  <2>6. \A x \in Elems : OnePlace(x)'
    BY <2>2, <2>3, <2>5 DEF OwnedOnce, OnePlace
  <2>7. Queued' = Queued
    BY <2>3 DEF Queued
  <2> QED BY <2>1, <2>2, <2>4, <2>5, <2>6, <2>7 DEF OwnedOnce, Pool!Drop
<1>3. ASSUME NEW t \in Threads, EnqueueCas(t) \/ EnqueueLocked(t)
      PROVE  OwnedOnce' /\ Pool!Put(t)
  <2>1. held[t] # NULL /\ held' = [held EXCEPT ![t] = NULL] /\ free' = free
    BY <1>3 DEF EnqueueCas, EnqueueLocked, Return, LocalsOK
  <2>2. /\ held[t] \in Elems /\ IsHeld(held[t])
        /\ \A x \in Elems : IsHeld(x)' <=> IsHeld(x) /\ x # held[t]
        /\ HeldDistinct'
    BY Zenon, <2>1, HeldGiven DEF OwnedOnce
  <2>3. CASE EnqueueCas(t)
    <3>1. \A x \in Elems : /\ InSlots(x)' <=> InSlots(x) \/ x = held[t]
                           /\ InLists(x)' <=> InLists(x)
      BY Zenon, <2>3, EnqueueCasMoves DEF EnqueueCas, InLists, InList
    <3>2. SlotsDistinct' /\ ListsDistinct'
      <4>1. SlotsDistinct'
        BY <2>3, EnqueueCasMoves
      <4>2. ListsDistinct'
        BY <2>3 DEF EnqueueCas, OwnedOnce, ListsDistinct
      <4> QED BY <4>1, <4>2
    <3>3. \A x \in Elems : OnePlace(x)'
      BY <2>1, <2>2, <3>1 DEF OwnedOnce, OnePlace
    <3>4. Queued' = Queued \cup {held[t]}
      BY <2>2, <3>1 DEF Queued
    <3> QED BY <2>1, <2>2, <3>2, <3>3, <3>4 DEF OwnedOnce, Pool!Put
  <2>4. CASE EnqueueLocked(t)
    <3>1. \A x \in Elems : /\ InSlots(x)' <=> InSlots(x)
                           /\ InLists(x)' <=> InLists(x) \/ x = held[t]
      BY Zenon, <2>4, EnqueueLockedMoves DEF EnqueueLocked, InSlots
    <3>2. SlotsDistinct' /\ ListsDistinct'
      <4>1. ListsDistinct'
        BY <2>4, EnqueueLockedMoves
      <4>2. SlotsDistinct'
        BY <2>4 DEF EnqueueLocked, OwnedOnce, SlotsDistinct
      <4> QED BY <4>1, <4>2
    <3>3. \A x \in Elems : OnePlace(x)'
      BY <2>1, <2>2, <3>1 DEF OwnedOnce, OnePlace
    <3>4. Queued' = Queued \cup {held[t]}
      BY <2>2, <3>1 DEF Queued
    <3> QED BY <2>1, <2>2, <3>2, <3>3, <3>4 DEF OwnedOnce, Pool!Put
  <2> QED BY <1>3, <2>3, <2>4
<1>4. ASSUME NEW t \in Threads, DequeueCas(t)
      PROVE  OwnedOnce' /\ seen[t] \in Elems /\ Pool!Take(t, seen[t])
  <2>1. /\ seen[t] \in Elems /\ InSlots(seen[t])
        /\ \A x \in Elems : InSlots(x)' <=> InSlots(x) /\ x # seen[t]
        /\ SlotsDistinct'
    BY <1>4, DequeueCasMoves
  <2>2. /\ held[t] = NULL /\ ~IsHeld(seen[t]) /\ free' = free
        /\ held' = [held EXCEPT ![t] = seen[t]]
    BY <1>4, <2>1 DEF DequeueCas, Return, LocalsOK, OwnedOnce, OnePlace
  <2>3. /\ \A x \in Elems : IsHeld(x)' <=> IsHeld(x) \/ x = seen[t]
        /\ HeldDistinct'
    BY Zenon, <2>1, <2>2, HeldTaken DEF OwnedOnce
  <2>4. \A x \in Elems : InLists(x)' <=> InLists(x)
    BY <1>4 DEF DequeueCas, InLists, InList
  <2>5. ListsDistinct'
    BY <1>4 DEF DequeueCas, OwnedOnce, ListsDistinct
  <2>6. \A x \in Elems : OnePlace(x)'
    BY <2>1, <2>2, <2>3, <2>4 DEF OwnedOnce, OnePlace
  <2>7. Queued' = Queued \ {seen[t]} /\ seen[t] \in Queued
    BY <2>1, <2>4 DEF Queued, OwnedOnce, OnePlace
  <2> QED BY <2>1, <2>2, <2>3, <2>5, <2>6, <2>7 DEF OwnedOnce, Pool!Take
<1>5. ASSUME NEW t \in Threads, DequeueLocked(t)
      PROVE  OwnedOnce' /\ \E e \in Elems : Pool!Take(t, e)
  <2> PICK e : e = Head(locked_queue[pool[t]])
    OBVIOUS
  <2>1. /\ e \in Elems /\ InLists(e)
        /\ \A x \in Elems : InLists(x)' <=> InLists(x) /\ x # e
        /\ ListsDistinct'
    BY <1>5, DequeueLockedMoves
  <2>2. /\ held[t] = NULL /\ ~IsHeld(e) /\ free' = free
        /\ held' = [held EXCEPT ![t] = e]
    BY <1>5, <2>1 DEF DequeueLocked, Return, LocalsOK, OwnedOnce, OnePlace
  <2>3. /\ \A x \in Elems : IsHeld(x)' <=> IsHeld(x) \/ x = e
        /\ HeldDistinct'
    BY Zenon, <2>1, <2>2, HeldTaken DEF OwnedOnce
  <2>4. \A x \in Elems : InSlots(x)' <=> InSlots(x)
    BY <1>5 DEF DequeueLocked, InSlots
  <2>5. SlotsDistinct'
    BY <1>5 DEF DequeueLocked, OwnedOnce, SlotsDistinct
  <2>6. \A x \in Elems : OnePlace(x)'
    BY <2>1, <2>2, <2>3, <2>4 DEF OwnedOnce, OnePlace
  <2>7. Queued' = Queued \ {e} /\ e \in Queued
    BY <2>1, <2>4 DEF Queued, OwnedOnce, OnePlace
  <2> QED BY Zenon, <2>1, <2>2, <2>3, <2>5, <2>6, <2>7 DEF OwnedOnce, Pool!Take
<1>6. ASSUME UNCHANGED ownership
      PROVE  OwnedOnce' /\ [Pool!Next]_(Pool!vars)
    BY <1>6, SilentOwned
<1>7. CASE UNCHANGED vars
    BY <1>6, <1>7 DEF vars, ownership
<1>8. CASE \E e \in Elems : InitElem(e)
    BY <1>6, <1>8 DEF InitElem, ownership
<1>9. ASSUME NEW t \in Threads,
             \/ Requeue(t) \/ EnqueueStart(t) \/ EnqueueNext(t)
             \/ DequeueStart(t) \/ DequeueRead(t) \/ DequeueCasFails(t)
             \/ DequeueLockedEmpty(t) \/ DequeueFlip(t)
      PROVE  OwnedOnce' /\ [Pool!Next]_(Pool!vars)
    BY <1>6, <1>9, SilentSteps
<1> QED
    BY <1>1, <1>2, <1>3, <1>4, <1>5, <1>7, <1>8, <1>9
    DEF Next, Enqueue, Dequeue, Pool!Next

-----------------------------------------------------------------------------
\* The inductive invariant holds in every reachable state.
LEMMA Invariance == Spec => []IndInv
<1>1. Init => IndInv
    BY InitType, InitOwned DEF IndInv
<1>2. IndInv /\ [Next]_vars => IndInv'
    BY NextType, NextLocals, NextOwned DEF IndInv
<1> QED BY <1>1, <1>2, PTL DEF Spec

\* Every field of the queue and every local of enqueue and dequeue stays in
\* its range; which_pool wraps inside its width.
THEOREM TypeCorrect == Spec => []TypeOK
BY Invariance, PTL DEF IndInv

\* However the compare-and-swaps of any number of threads interleave, a task
\* is never lost and never in the hands of two threads.
THEOREM Ownership == Spec => []OwnedOnce
BY Invariance, PTL DEF IndInv

\* The lock-free queue implements the abstract task pool.
THEOREM ImplementsPool == Spec => PoolSpec
<1>1. Init => Pool!Init
  <2>1. Init => Queued = {}
    BY QueueAssumption
    DEF Init, Queued, InSlots, InLists, InList, Pools, Slots
  <2> QED BY <2>1 DEF Init, Pool!Init
<1>2. IndInv /\ [Next]_vars => [Pool!Next]_(Pool!vars)
    BY NextOwned
<1> QED BY <1>1, <1>2, Invariance, PTL DEF Spec, PoolSpec, Pool!Spec
=============================================================================
