--------------------------- MODULE TeamIdsProofs ---------------------------
(***************************************************************************)
(* Theorems about TeamIds.                                                 *)
(***************************************************************************)
EXTENDS TeamIds, TLAPS

-----------------------------------------------------------------------------
(* Arithmetic of the words of the pool                                     *)

\* Products with a natural number are monotonic.
LEMMA TimesMonotonic ==
    ASSUME NEW a \in Nat, NEW b \in Nat, NEW w \in Nat, a <= b
    PROVE  /\ a * w \in Nat
           /\ b * w \in Nat
           /\ a * w <= b * w
BY SMT

\* The pool has at least one word.
LEMMA PoolFacts ==
    /\ WordBits \in Nat \ {0}
    /\ NIds \in Nat
    /\ WordBits <= NIds
    /\ ExternalBit \in Nat
    /\ NIds < ExternalBit
<1>1. WordBits \in Nat \ {0} /\ PoolSize \in Nat \ {0} /\ ExternalBit \in Nat
      /\ NIds < ExternalBit
  BY TeamIdsAssumption
<1>2. 1 * WordBits <= PoolSize * WordBits /\ PoolSize * WordBits \in Nat
  BY <1>1, TimesMonotonic
<1>. QED  BY <1>1, <1>2 DEF NIds

\* Quotient and remainder, as the code divides an id by the bits of a word.
LEMMA DivMod ==
    ASSUME NEW n \in Nat, NEW w \in Nat \ {0}
    PROVE  /\ n \div w \in Nat
           /\ n % w \in 0 .. w - 1
           /\ n = (n \div w) * w + (n % w)
BY SMT

\* set_id_bit computes the bit of id n, unless n is the last id of a word.
LEMMA SetBitInside ==
    ASSUME NEW n \in Nat, n >= 1, n % WordBits # 0
    PROVE  SetBit(n) = n
<1> DEFINE w == WordBits
           q == n \div w
           k == (n - 1) \div w
<1>1. w \in Nat \ {0}
  BY PoolFacts
<1>2. n - 1 \in Nat
  OBVIOUS
<1>3. /\ q \in Nat /\ n % w \in 0 .. w - 1 /\ n = q * w + (n % w)
  BY <1>1, DivMod
<1>4. /\ k \in Nat /\ (n - 1) % w \in 0 .. w - 1
      /\ n - 1 = k * w + ((n - 1) % w)
  BY Zenon, <1>1, <1>2, DivMod
<1> HIDE DEF w, q, k
<1>5. n % w # 0
  BY DEF w
<1>6. q * w \in Nat /\ k * w \in Nat
  BY <1>1, <1>3, <1>4, TimesMonotonic
<1>7. ~(k + 1 <= q)
  <2> SUFFICES ASSUME k + 1 <= q PROVE FALSE
    OBVIOUS
  <2>1. (k + 1) * w <= q * w
    BY <1>1, <1>3, <1>4, TimesMonotonic
  <2>2. (k + 1) * w = k * w + w
    BY <1>1, <1>4
  <2>. QED  BY <2>1, <2>2, <1>1, <1>3, <1>4, <1>5, <1>6
<1>8. ~(q + 1 <= k)
  <2> SUFFICES ASSUME q + 1 <= k PROVE FALSE
    OBVIOUS
  <2>1. (q + 1) * w <= k * w
    BY <1>1, <1>3, <1>4, TimesMonotonic
  <2>2. (q + 1) * w = q * w + w
    BY <1>1, <1>3
  <2>. QED  BY <2>1, <2>2, <1>1, <1>3, <1>4, <1>6
<1>9. q = k
  BY <1>3, <1>4, <1>7, <1>8
<1>10. n - 1 = q * w + ((n - 1) % w)
  BY <1>4, <1>9
<1>11. SetBit(n) = q * w + ((n - 1) % w) + 1
  BY DEF SetBit, q, w
<1>. QED  BY <1>10, <1>11, <1>1, <1>4, <1>6

\* The bit that set_id_bit sets is a bit of ids.pool.
LEMMA SetBitInPool ==
    ASSUME NEW n \in Ids
    PROVE  SetBit(n) \in Bits
<1> DEFINE w == WordBits
           q == n \div w
<1>1. w \in Nat \ {0} /\ NIds \in Nat /\ w <= NIds /\ n \in Nat /\ n - 1 \in Nat
      /\ n <= NIds
  BY PoolFacts DEF Ids
<1>2. q \in Nat /\ n % w \in 0 .. w - 1 /\ n = q * w + (n % w)
  BY Zenon, <1>1, DivMod
<1>3. (n - 1) % w \in 0 .. w - 1
  BY <1>1, DivMod
<1>4. SetBit(n) = q * w + ((n - 1) % w) + 1
  BY DEF SetBit
<1>5. q * w \in Nat
  BY <1>1, <1>2, TimesMonotonic
<1> HIDE DEF w, q
<1>. QED  BY <1>1, <1>2, <1>3, <1>4, <1>5 DEF Bits

\* With one word, the bit of its last id is set outside of the process's words.
LEMMA SetBitOneWord ==
    ASSUME PoolSize = 1, NEW n \in Ids, n % WordBits = 0
    PROVE  SetBit(n) \notin Ids
<1> DEFINE w == WordBits
           q == n \div w
<1>1. w \in Nat \ {0} /\ NIds = w /\ n \in Nat /\ n - 1 \in Nat
      /\ 1 <= n /\ n <= w
  BY PoolFacts DEF Ids, NIds
<1>2. q \in Nat /\ n = q * w
  BY <1>1, DivMod
<1>3. (n - 1) % w \in 0 .. w - 1
  BY <1>1, DivMod
<1>4. SetBit(n) = q * w + ((n - 1) % w) + 1
  BY DEF SetBit
<1> HIDE DEF q
<1>5. n = w
  <2>1. q # 0
    BY <1>1, <1>2
  <2>2. 1 * w <= q * w
    BY <2>1, <1>1, <1>2, TimesMonotonic
  <2>. QED  BY <2>2, <1>1, <1>2
<1>6. (n - 1) % w = w - 1
  BY <1>1, <1>5
<1>. QED  BY <1>1, <1>2, <1>3, <1>4, <1>5, <1>6 DEF Ids

-----------------------------------------------------------------------------
(* The inductive invariant                                                 *)

\* How far p is with team t: what it keeps of a team it has not joined, which
\* id it has, when its allreduce is posted.
Progress(p, t) ==
    /\ state[p][t] # "none" => p \in Members[t]
    /\ p \in joining[t] =>
          state[p][t] = "none" /\ p \notin posted[t] /\ p \in Members[t]
    /\ sreq[p][t] =>
          state[p][t] \in {"ALLOC_ID", "failed"} /\ External[t] = NoId
    /\ state[p][t] = "ALLOC_ID" => id[p][t] = GivenId(t)
    /\ state[p][t] = "ALLOC_ID" /\ p \in posted[t] => sreq[p][t]

\* The id of a team that is active at p: the one of the user, or the first that
\* the members' contributions have in common, which stay as they are.
Agreed(p, t) ==
    state[p][t] = "ACTIVE" =>
        IF External[t] = NoId
        THEN /\ Members[t] \subseteq posted[t]
             /\ id[p][t] \in Result(t)
             /\ \A m \in Result(t) : id[p][t] <= m
        ELSE id[p][t] = GivenId(t)

Control == \A p \in Procs, t \in Teams : Progress(p, t) /\ Agreed(p, t)

IInv == TypeOK /\ Control

\* The ids of the user do not collide with those of the pool.
LEMMA GivenIdRange ==
    ASSUME NEW t \in Teams
    PROVE  /\ External[t] = NoId => GivenId(t) = 0
           /\ External[t] # NoId =>
                 GivenId(t) \in ExternalBit .. 2 * ExternalBit - 1
BY TeamIdsAssumption DEF GivenId

\* A team that is active without an id of the user has one of the pool.
LEMMA ActiveId ==
    ASSUME IInv, NEW p \in Procs, NEW t \in Teams, Active(p, t)
    PROVE  /\ External[t] = NoId => id[p][t] \in Ids /\ ~IsExternal(id[p][t])
           /\ External[t] # NoId => IsExternal(id[p][t])
<1>1. Agreed(p, t)
  BY DEF IInv, Control
<1>2. CASE External[t] = NoId
  <2>1. id[p][t] \in Ids
    BY <1>1, <1>2 DEF Agreed, Active, Result
  <2>. QED  BY <1>2, <2>1, PoolFacts DEF Ids, IsExternal
<1>3. CASE External[t] # NoId
  BY <1>1, <1>3, GivenIdRange, PoolFacts DEF Agreed, Active, IsExternal
<1>. QED  BY <1>2, <1>3

-----------------------------------------------------------------------------
(* Each action preserves it                                                *)

LEMMA InitIInv == Init => IInv
<1> SUFFICES ASSUME Init PROVE IInv
  OBVIOUS
<1>1. TypeOK
  BY PoolFacts DEF Init, TypeOK, Ids, Bits
<1>2. Control
  BY DEF Init, Control, Progress, Agreed
<1>. QED  BY <1>1, <1>2 DEF IInv

LEMMA CreatePostIInv ==
    ASSUME IInv, NEW p \in Procs, NEW t \in Teams, CreatePost(p, t)
    PROVE  IInv'
<1>1. TypeOK'
  <2>1. GivenId(t) \in (0 .. NIds) \cup (ExternalBit .. 2 * ExternalBit - 1)
    BY GivenIdRange, PoolFacts
  <2>2. Members[t] \subseteq Procs
    BY TeamIdsAssumption
  <2>3. id' \in [Procs -> [Teams -> (0 .. NIds) \cup
                                  (ExternalBit .. 2 * ExternalBit - 1)]]
    BY <2>1 DEF IInv, TypeOK, CreatePost
  <2>4. /\ posted' \in [Teams -> SUBSET Procs]
        /\ joining' \in [Teams -> SUBSET Procs]
    <3>1. /\ posted \in [Teams -> SUBSET Procs]
          /\ joining \in [Teams -> SUBSET Procs]
      BY DEF IInv, TypeOK
    <3>2. \/ /\ joining' = [joining EXCEPT ![t] = Members[t] \ {p}]
             /\ posted' = [posted EXCEPT ![t] = {}]
          \/ /\ joining' = [joining EXCEPT ![t] = joining[t] \ {p}]
             /\ posted' = posted
      BY DEF CreatePost
    <3>. QED  BY <2>2, <3>1, <3>2
  <2>5. state' \in [Procs -> [Teams -> {"none", "ALLOC_ID", "ACTIVE", "failed"}]]
    BY DEF IInv, TypeOK, CreatePost
  <2>. QED  BY <2>3, <2>4, <2>5 DEF IInv, TypeOK, CreatePost
<1>2. ASSUME NEW q \in Procs, NEW u \in Teams
      PROVE  Progress(q, u)'
  <2>1. Progress(q, u) /\ Progress(p, t)
    BY DEF IInv, Control
  <2>2. state[p][t] = "none"
    BY <2>1 DEF CreatePost, Progress
  <2>3. p \in Members[t] /\ GivenId(u)' = GivenId(u)
    BY DEF CreatePost, GivenId
  <2>4. CASE u # t
    BY <2>1, <2>3, <2>4 DEF Progress, CreatePost, IInv, TypeOK
  <2>5. CASE u = t /\ q # p
    BY <2>1, <2>3, <2>5 DEF Progress, CreatePost, IInv, TypeOK
  <2>6. CASE u = t /\ q = p
    BY <2>1, <2>2, <2>3, <2>6 DEF Progress, CreatePost, IInv, TypeOK
  <2>. QED  BY <2>4, <2>5, <2>6
<1>3. ASSUME NEW q \in Procs, NEW u \in Teams
      PROVE  Agreed(q, u)'
  <2>1. Agreed(q, u) /\ Progress(q, u) /\ Progress(p, t)
    BY DEF IInv, Control
  <2>2. Result(u)' = Result(u) /\ GivenId(u)' = GivenId(u)
    BY DEF CreatePost, Result, GivenId
  <2>3. CASE u # t
    BY <2>1, <2>2, <2>3 DEF Agreed, CreatePost, IInv, TypeOK
  <2>4. CASE u = t /\ q # p
    <3>1. CASE \A r \in Members[t] : state[r][t] = "none"
      BY <2>1, <2>4, <3>1 DEF Agreed, Progress, CreatePost, IInv, TypeOK
    <3>2. CASE p \in joining[t] /\ UNCHANGED posted
      BY <2>1, <2>2, <2>4, <3>2 DEF Agreed, Progress, CreatePost, IInv, TypeOK
    <3>. QED  BY <3>1, <3>2 DEF CreatePost
  <2>5. CASE u = t /\ q = p
    BY <2>5 DEF Agreed, CreatePost, IInv, TypeOK
  <2>. QED  BY <2>3, <2>4, <2>5
<1>. QED  BY <1>1, <1>2, <1>3 DEF IInv, Control

LEMMA AllocExternalIInv ==
    ASSUME IInv, NEW p \in Procs, NEW t \in Teams, AllocExternal(p, t)
    PROVE  IInv'
<1>1. TypeOK'
  BY DEF IInv, TypeOK, AllocExternal
<1>2. ASSUME NEW q \in Procs, NEW u \in Teams
      PROVE  Progress(q, u)' /\ Agreed(q, u)'
  <2>1. Progress(q, u) /\ Agreed(q, u) /\ Progress(p, t)
    BY DEF IInv, Control
  <2>2. Result(u)' = Result(u) /\ GivenId(u)' = GivenId(u)
    BY DEF AllocExternal, Result, GivenId
  <2>3. id[p][t] = GivenId(t) /\ External[t] # NoId /\ ~sreq[p][t]
    BY <2>1, GivenIdRange DEF AllocExternal, Progress
  <2>4. CASE q = p /\ u = t
    BY <2>1, <2>2, <2>3, <2>4
    DEF Progress, Agreed, AllocExternal, IInv, TypeOK
  <2>5. CASE ~(q = p /\ u = t)
    BY <2>1, <2>2, <2>5 DEF Progress, Agreed, AllocExternal, IInv, TypeOK
  <2>. QED  BY <2>4, <2>5
<1>. QED  BY <1>1, <1>2 DEF IInv, Control

LEMMA AllocPostIInv ==
    ASSUME IInv, NEW p \in Procs, NEW t \in Teams, AllocPost(p, t)
    PROVE  IInv'
<1>1. TypeOK'
  BY DEF IInv, TypeOK, AllocPost, Local
<1>2. p \notin posted[t] /\ p \in Members[t] /\ External[t] = NoId
      /\ p \notin joining[t]
  <2>1. Progress(p, t)
    BY DEF IInv, Control
  <2>. QED  BY <2>1, GivenIdRange, PoolFacts DEF Progress, AllocPost
<1>3. ASSUME NEW q \in Procs, NEW u \in Teams
      PROVE  Progress(q, u)' /\ Agreed(q, u)'
  <2>1. Progress(q, u) /\ Agreed(q, u)
    BY DEF IInv, Control
  <2>2. GivenId(u)' = GivenId(u)
    BY DEF GivenId
  <2>3. Progress(q, u)'
    BY <1>2, <2>1, <2>2 DEF Progress, AllocPost, IInv, TypeOK
  <2>4. Agreed(q, u)'
    <3>1. CASE u = t
      BY <1>2, <2>1, <3>1 DEF Agreed, AllocPost
    <3>2. CASE u # t
      <4>1. Result(u)' = Result(u)
        BY <3>2 DEF AllocPost, Result, IInv, TypeOK
      <4>. QED  BY <2>1, <2>2, <3>2, <4>1 DEF Agreed, AllocPost, IInv, TypeOK
    <3>. QED  BY <3>1, <3>2
  <2>. QED  BY <2>3, <2>4
<1>. QED  BY <1>1, <1>3 DEF IInv, Control

LEMMA AllocDoneIInv ==
    ASSUME IInv, NEW p \in Procs, NEW t \in Teams, AllocDone(p, t)
    PROVE  IInv'
<1> DEFINE copy == {n + NIds : n \in Result(t)}
<1>1. Result(t) \subseteq Ids /\ Result(t) \subseteq Bits /\ copy \subseteq Bits
  BY PoolFacts DEF Result, Ids, Bits
<1>2. /\ state[p][t] = "ALLOC_ID" /\ sreq[p][t] /\ Members[t] \subseteq posted[t]
      /\ External[t] = NoId /\ p \notin joining[t] /\ p \in Members[t]
  BY DEF AllocDone, IInv, Control, Progress
<1>3. CASE Result(t) = {}
  <2>1. /\ pool' = [pool EXCEPT ![p] = copy]
        /\ state' = [state EXCEPT ![p][t] = "failed"]
        /\ sreq' = [sreq EXCEPT ![p][t] = FALSE]
        /\ UNCHANGED <<id, posted, sbuf, joining>>
    BY <1>3 DEF AllocDone, Available
  <2> HIDE DEF copy
  <2>2. TypeOK'
    BY <1>1, <2>1 DEF IInv, TypeOK
  <2>3. ASSUME NEW q \in Procs, NEW u \in Teams
        PROVE  Progress(q, u)' /\ Agreed(q, u)'
    <3>1. Progress(q, u) /\ Agreed(q, u)
      BY DEF IInv, Control
    <3>2. Result(u)' = Result(u) /\ GivenId(u)' = GivenId(u)
      BY <2>1 DEF Result, GivenId
    <3>. QED  BY <1>2, <2>1, <3>1, <3>2 DEF Progress, Agreed, IInv, TypeOK
  <2>. QED  BY <2>2, <2>3 DEF IInv, Control
<1>4. CASE Result(t) # {}
  <2>1. PICK n \in Result(t) :
            /\ \A m \in Result(t) : n <= m
            /\ pool' = [pool EXCEPT ![p] = (Result(t) \ {n}) \cup copy]
            /\ id' = [id EXCEPT ![p][t] = n]
            /\ state' = [state EXCEPT ![p][t] = "ACTIVE"]
    BY <1>4 DEF AllocDone, Available, Taken
  <2>2. sreq' = [sreq EXCEPT ![p][t] = FALSE] /\ UNCHANGED <<posted, sbuf, joining>>
    BY DEF AllocDone
  <2> HIDE DEF copy
  <2>3. TypeOK'
    <3>1. pool' \in [Procs -> SUBSET Bits]
      BY <1>1, <2>1 DEF IInv, TypeOK
    <3>2. n \in 0 .. NIds
      BY <1>1, PoolFacts DEF Ids
    <3>3. id' \in [Procs -> [Teams -> (0 .. NIds) \cup
                                  (ExternalBit .. 2 * ExternalBit - 1)]]
      BY <2>1, <3>2 DEF IInv, TypeOK
    <3>. QED  BY <2>1, <2>2, <3>1, <3>3 DEF IInv, TypeOK
  <2>4. ASSUME NEW q \in Procs, NEW u \in Teams
        PROVE  Progress(q, u)' /\ Agreed(q, u)'
    <3>1. Progress(q, u) /\ Agreed(q, u)
      BY DEF IInv, Control
    <3>2. Result(u)' = Result(u) /\ GivenId(u)' = GivenId(u)
      BY <2>2 DEF Result, GivenId
    <3>3. CASE q = p /\ u = t
      BY <1>2, <2>1, <2>2, <3>1, <3>2, <3>3 DEF Progress, Agreed, IInv, TypeOK
    <3>4. CASE ~(q = p /\ u = t)
      BY <2>1, <2>2, <3>1, <3>2, <3>4 DEF Progress, Agreed, IInv, TypeOK
    <3>. QED  BY <3>3, <3>4
  <2>. QED  BY <2>3, <2>4 DEF IInv, Control
<1>. QED  BY <1>3, <1>4

LEMMA AllocErrorIInv ==
    ASSUME IInv, NEW p \in Procs, NEW t \in Teams, AllocError(p, t)
    PROVE  IInv'
<1>1. TypeOK'
  BY DEF IInv, TypeOK, AllocError
<1>2. ASSUME NEW q \in Procs, NEW u \in Teams
      PROVE  Progress(q, u)' /\ Agreed(q, u)'
  <2>1. Progress(q, u) /\ Agreed(q, u)
    BY DEF IInv, Control
  <2>2. Result(u)' = Result(u) /\ GivenId(u)' = GivenId(u)
    BY DEF AllocError, Result, GivenId
  <2>. QED  BY <2>1, <2>2 DEF Progress, Agreed, AllocError, IInv, TypeOK
<1>. QED  BY <1>1, <1>2 DEF IInv, Control

LEMMA DestroyIInv ==
    ASSUME IInv, NEW p \in Procs, NEW t \in Teams, Destroy(p, t)
    PROVE  IInv'
<1>1. Active(p, t)
  BY DEF Destroy, Active
<1>2. ~IsExternal(id[p][t]) => SetBit(id[p][t]) \in Bits
  BY <1>1, ActiveId, SetBitInPool
<1>3. pool' \in [Procs -> SUBSET Bits]
  BY <1>2 DEF IInv, TypeOK, Destroy
<1>4. id' \in [Procs -> [Teams -> (0 .. NIds) \cup
                              (ExternalBit .. 2 * ExternalBit - 1)]]
  BY PoolFacts DEF IInv, TypeOK, Destroy
<1>5. TypeOK'
  BY <1>3, <1>4 DEF IInv, TypeOK, Destroy
<1>6. ASSUME NEW q \in Procs, NEW u \in Teams
      PROVE  Progress(q, u)' /\ Agreed(q, u)'
  <2>1. Progress(q, u) /\ Agreed(q, u)
    BY DEF IInv, Control
  <2>2. Result(u)' = Result(u) /\ GivenId(u)' = GivenId(u)
    BY DEF Destroy, Result, GivenId
  <2>3. CASE q = p /\ u = t
    BY <2>1, <2>3 DEF Progress, Agreed, Destroy, IInv, TypeOK
  <2>4. CASE ~(q = p /\ u = t)
    BY <2>1, <2>2, <2>4 DEF Progress, Agreed, Destroy, IInv, TypeOK
  <2>. QED  BY <2>3, <2>4
<1>. QED  BY <1>5, <1>6 DEF IInv, Control

LEMMA NextIInv == IInv /\ [Next]_vars => IInv'
<1> SUFFICES ASSUME IInv, [Next]_vars PROVE IInv'
  OBVIOUS
<1>1. ASSUME NEW p \in Procs, NEW t \in Teams, CreatePost(p, t) PROVE IInv'
  BY <1>1, CreatePostIInv
<1>2. ASSUME NEW p \in Procs, NEW t \in Teams, Destroy(p, t) PROVE IInv'
  BY <1>2, DestroyIInv
<1>3. ASSUME NEW p \in Procs, NEW t \in Teams, AllocExternal(p, t) PROVE IInv'
  BY <1>3, AllocExternalIInv
<1>4. ASSUME NEW p \in Procs, NEW t \in Teams, AllocPost(p, t) PROVE IInv'
  BY <1>4, AllocPostIInv
<1>5. ASSUME NEW p \in Procs, NEW t \in Teams, AllocDone(p, t) PROVE IInv'
  BY <1>5, AllocDoneIInv
<1>6. ASSUME NEW p \in Procs, NEW t \in Teams, AllocError(p, t) PROVE IInv'
  BY <1>6, AllocErrorIInv
<1>7. CASE UNCHANGED vars
  BY <1>7 DEF vars, IInv, TypeOK, Control, Progress, Agreed, Result, GivenId
<1>. QED  BY <1>1, <1>2, <1>3, <1>4, <1>5, <1>6, <1>7 DEF Next

\* IInv holds in every reachable state.
LEMMA IInvAlways == Spec => []IInv
BY InitIInv, NextIInv, PTL DEF Spec

\* The fields keep their types; set_id_bit, in particular, stays within ids.pool
\* although it picks the word with id / 64 and the bit with (id - 1) % 64.
THEOREM TypeCorrect == Spec => []TypeOK
<1>1. IInv => TypeOK
  BY DEF IInv
<1>. QED  BY <1>1, IInvAlways, PTL

\* The members of a team have the same id for it (ucc_team_alloc_id), however
\* their creations and destructions of other teams interleave.
THEOREM Agreement == Spec => []SameId
<1>1. ASSUME IInv PROVE SameId
  <2> SUFFICES ASSUME NEW t \in Teams, NEW p \in Members[t], NEW q \in Members[t],
                      Active(p, t), Active(q, t)
               PROVE  id[p][t] = id[q][t]
    BY DEF SameId
  <2>1. p \in Procs /\ q \in Procs
    BY TeamIdsAssumption
  <2>2. Agreed(p, t) /\ Agreed(q, t)
    BY <1>1, <2>1 DEF IInv, Control
  <2>3. Result(t) \subseteq Int
    BY PoolFacts DEF Result, Ids
  <2>. QED  BY <2>2, <2>3 DEF Agreed, Active
<1>. QED  BY <1>1, IInvAlways, PTL

-----------------------------------------------------------------------------
(* Uniqueness                                                              *)

\* An id in use is not in the pool of the process, and neither is one that the
\* process has not offered for the team it creates.
Pooled(p, t) ==
    /\ Internal(p, t) => id[p][t] \notin pool[p]
    /\ state[p][t] = "ALLOC_ID" /\ sreq[p][t] => sbuf[t][p] \subseteq pool[p]
    /\ \A u \in Teams :
          state[p][t] = "ALLOC_ID" /\ state[p][u] = "ALLOC_ID" => t = u

AllPooled == \A p \in Procs, t \in Teams : Pooled(p, t)

UInv == IInv /\ UniqueIds /\ AllPooled

\* set_id_bit puts the right bit back, or one that is not among the words of the
\* process.
ReleasesRight == PoolSize = 1 \/ NoBoundaryIds

LEMMA InitUInv == Init => UInv
<1> SUFFICES ASSUME Init PROVE UInv
  OBVIOUS
<1>1. IInv
  BY InitIInv
<1>2. UniqueIds /\ AllPooled
  BY DEF Init, UniqueIds, AllPooled, Pooled, Internal, Active
<1>. QED  BY <1>1, <1>2 DEF UInv

LEMMA CreatePostUInv ==
    ASSUME UInv, NEW p \in Procs, NEW t \in Teams, CreatePost(p, t)
    PROVE  UniqueIds' /\ AllPooled'
<1>1. /\ Progress(p, t) /\ state[p][t] = "none" /\ ~sreq[p][t]
  <2>1. Progress(p, t)
    BY DEF UInv, IInv, Control
  <2>. QED  BY <2>1 DEF CreatePost, Progress
<1>2. /\ state' = [state EXCEPT ![p][t] = "ALLOC_ID"]
      /\ id' = [id EXCEPT ![p][t] = GivenId(t)]
      /\ UNCHANGED <<pool, sreq, sbuf>>
      /\ \A u \in Teams : state[p][u] # "ALLOC_ID"
  BY DEF CreatePost, Idle
<1>3. UniqueIds'
  BY <1>2 DEF UInv, IInv, TypeOK, UniqueIds, Internal, Active
<1>4. ASSUME NEW q \in Procs, NEW u \in Teams
      PROVE  Pooled(q, u)'
  <2>1. Pooled(q, u)
    BY DEF UInv, AllPooled
  <2>. QED  BY <1>1, <1>2, <2>1 DEF Pooled, Internal, Active, UInv, IInv, TypeOK
<1>. QED  BY <1>3, <1>4 DEF AllPooled

LEMMA AllocExternalUInv ==
    ASSUME UInv, NEW p \in Procs, NEW t \in Teams, AllocExternal(p, t)
    PROVE  UniqueIds' /\ AllPooled'
<1>1. IsExternal(id[p][t])
  <2>1. Progress(p, t)
    BY DEF UInv, IInv, Control
  <2>. QED  BY <2>1, GivenIdRange, PoolFacts DEF AllocExternal, Progress, IsExternal
<1>2. state' = [state EXCEPT ![p][t] = "ACTIVE"] /\ UNCHANGED <<pool, id, sreq, sbuf>>
  BY DEF AllocExternal
<1>3. UniqueIds'
  BY <1>1, <1>2 DEF UInv, IInv, TypeOK, UniqueIds, Internal, Active
<1>4. ASSUME NEW q \in Procs, NEW u \in Teams
      PROVE  Pooled(q, u)'
  <2>1. Pooled(q, u)
    BY DEF UInv, AllPooled
  <2>. QED  BY <1>1, <1>2, <2>1 DEF Pooled, Internal, Active, UInv, IInv, TypeOK
<1>. QED  BY <1>3, <1>4 DEF AllPooled

LEMMA AllocPostUInv ==
    ASSUME UInv, NEW p \in Procs, NEW t \in Teams, AllocPost(p, t)
    PROVE  UniqueIds' /\ AllPooled'
<1>1. /\ sreq' = [sreq EXCEPT ![p][t] = TRUE]
      /\ sbuf' = [sbuf EXCEPT ![t][p] = pool[p] \cap Ids]
      /\ UNCHANGED <<pool, id, state>>
  BY DEF AllocPost, Local
<1>2. UniqueIds'
  BY <1>1 DEF UInv, UniqueIds, Internal, Active
<1>3. ASSUME NEW q \in Procs, NEW u \in Teams
      PROVE  Pooled(q, u)'
  <2>1. Pooled(q, u)
    BY DEF UInv, AllPooled
  <2>. QED  BY <1>1, <2>1 DEF Pooled, Internal, Active, UInv, IInv, TypeOK
<1>. QED  BY <1>2, <1>3 DEF AllPooled

LEMMA AllocErrorUInv ==
    ASSUME UInv, NEW p \in Procs, NEW t \in Teams, AllocError(p, t)
    PROVE  UniqueIds' /\ AllPooled'
<1>1. state' = [state EXCEPT ![p][t] = "failed"] /\ UNCHANGED <<pool, id, sreq, sbuf>>
  BY DEF AllocError
<1>2. UniqueIds'
  BY <1>1 DEF UInv, IInv, TypeOK, UniqueIds, Internal, Active
<1>3. ASSUME NEW q \in Procs, NEW u \in Teams
      PROVE  Pooled(q, u)'
  <2>1. Pooled(q, u)
    BY DEF UInv, AllPooled
  <2>. QED  BY <1>1, <2>1 DEF Pooled, Internal, Active, UInv, IInv, TypeOK
<1>. QED  BY <1>2, <1>3 DEF AllPooled

\* The id that is taken, and all that stay free, were free at p when it posted
\* the allreduce, and no id has left p's pool since.
LEMMA AllocDoneUInv ==
    ASSUME UInv, NEW p \in Procs, NEW t \in Teams, AllocDone(p, t)
    PROVE  UniqueIds' /\ AllPooled'
<1> DEFINE copy == {n + NIds : n \in Result(t)}
<1>1. state[p][t] = "ALLOC_ID" /\ sreq[p][t] /\ p \in Members[t]
  BY DEF AllocDone, UInv, IInv, Control, Progress
<1>2. Result(t) \subseteq pool[p]
  <2>1. sbuf[t][p] \subseteq pool[p]
    BY <1>1 DEF UInv, AllPooled, Pooled
  <2>. QED  BY <1>1, <2>1 DEF Result
<1>3. Result(t) \subseteq Ids /\ copy \cap Ids = {}
  BY PoolFacts DEF Result, Ids
<1>4. ASSUME NEW u \in Teams, Internal(p, u)
      PROVE  id[p][u] \notin pool[p] /\ id[p][u] \in Ids
  BY <1>4, ActiveId DEF UInv, AllPooled, Pooled, Internal
<1>5. \A u \in Teams : u # t => state[p][u] # "ALLOC_ID"
  BY <1>1 DEF UInv, AllPooled, Pooled
<1>6. sreq' = [sreq EXCEPT ![p][t] = FALSE] /\ sbuf' = sbuf
  BY DEF AllocDone
<1>7. CASE Result(t) = {}
  <2>1. /\ pool' = [pool EXCEPT ![p] = copy]
        /\ state' = [state EXCEPT ![p][t] = "failed"]
        /\ id' = id
    BY <1>7 DEF AllocDone, Available
  <2> HIDE DEF copy
  <2>2. UniqueIds'
    BY <2>1 DEF UInv, IInv, TypeOK, UniqueIds, Internal, Active
  <2>3. ASSUME NEW q \in Procs, NEW u \in Teams
        PROVE  Pooled(q, u)'
    <3>1. Pooled(q, u)
      BY DEF UInv, AllPooled
    <3>2. CASE q = p
      BY <1>3, <1>4, <1>5, <2>1, <3>2
      DEF Pooled, Internal, Active, UInv, IInv, TypeOK
    <3>3. CASE q # p
      BY <1>6, <2>1, <3>1, <3>3 DEF Pooled, Internal, Active, UInv, IInv, TypeOK
    <3>. QED  BY <3>2, <3>3
  <2>. QED  BY <2>2, <2>3 DEF AllPooled
<1>8. CASE Result(t) # {}
  <2>1. PICK n \in Result(t) :
            /\ pool' = [pool EXCEPT ![p] = (Result(t) \ {n}) \cup copy]
            /\ id' = [id EXCEPT ![p][t] = n]
            /\ state' = [state EXCEPT ![p][t] = "ACTIVE"]
    BY <1>8 DEF AllocDone, Available, Taken
  <2> HIDE DEF copy
  <2>2. n \in Ids /\ n \in pool[p] /\ ~IsExternal(n)
    BY <1>2, <1>3, PoolFacts DEF Ids, IsExternal
  <2>3. ASSUME NEW u \in Teams, u # t, Active(p, u)
        PROVE  id[p][u] # n
    BY <1>4, <2>2, <2>3 DEF Internal
  <2>4. ASSUME NEW q \in Procs, NEW u \in Teams, NEW v \in Teams,
               Internal(q, u)', Active(q, v)', id'[q][u] = id'[q][v]
        PROVE  u = v
    <3>1. CASE q # p \/ (u # t /\ v # t)
      BY <2>1, <2>4, <3>1 DEF UInv, IInv, TypeOK, UniqueIds, Internal, Active
    <3>2. CASE q = p /\ (u = t \/ v = t)
      BY <2>1, <2>3, <2>4, <3>2 DEF UInv, IInv, TypeOK, Internal, Active
    <3>. QED  BY <3>1, <3>2
  <2>5. UniqueIds'
    BY <2>4 DEF UniqueIds
  <2>6. ASSUME NEW q \in Procs, NEW u \in Teams
        PROVE  Pooled(q, u)'
    <3>1. Pooled(q, u)
      BY DEF UInv, AllPooled
    <3>2. CASE q = p /\ u = t
      BY <1>3, <2>1, <2>2, <3>2
      DEF Pooled, Internal, Active, UInv, IInv, TypeOK
    <3>3. CASE q = p /\ u # t
      BY <1>2, <1>3, <1>4, <1>5, <2>1, <3>3
      DEF Pooled, Internal, Active, UInv, IInv, TypeOK
    <3>4. CASE q # p
      BY <1>6, <2>1, <3>1, <3>4 DEF Pooled, Internal, Active, UInv, IInv, TypeOK
    <3>. QED  BY <3>2, <3>3, <3>4
  <2>. QED  BY <2>5, <2>6 DEF AllPooled
<1>. QED  BY <1>7, <1>8

\* Only here does it matter which bit set_id_bit sets.
LEMMA DestroyUInv ==
    ASSUME UInv, ReleasesRight, NEW p \in Procs, NEW t \in Teams, Destroy(p, t)
    PROVE  UniqueIds' /\ AllPooled'
<1>1. /\ state' = [state EXCEPT ![p][t] = "none"]
      /\ id' = [id EXCEPT ![p][t] = 0]
      /\ UNCHANGED <<sreq, sbuf>>
      /\ Active(p, t)
  BY DEF Destroy, Active
<1>2. UniqueIds'
  BY <1>1 DEF UInv, IInv, TypeOK, UniqueIds, Internal, Active
<1>3. ASSUME NEW u \in Teams, u # t, Internal(p, u), Internal(p, t)
      PROVE  id[p][u] # SetBit(id[p][t])
  <2>1. id[p][t] \in Ids /\ id[p][u] \in Ids
    BY <1>3, ActiveId DEF UInv, Internal
  <2>2. id[p][t] # id[p][u]
    BY <1>3 DEF UInv, UniqueIds, Internal
  <2>3. CASE id[p][t] % WordBits # 0
    <3>1. SetBit(id[p][t]) = id[p][t]
      BY <2>1, <2>3, PoolFacts, SetBitInside DEF Ids
    <3>. QED  BY <2>2, <3>1
  <2>4. CASE id[p][t] % WordBits = 0
    <3>1. PoolSize = 1
      BY <1>3, <2>4 DEF ReleasesRight, NoBoundaryIds
    <3>. QED  BY <2>1, <2>4, <3>1, SetBitOneWord
  <2>. QED  BY <2>3, <2>4
<1>4. ASSUME NEW q \in Procs, NEW u \in Teams
      PROVE  Pooled(q, u)'
  <2>1. Pooled(q, u)
    BY DEF UInv, AllPooled
  <2>2. CASE IsExternal(id[p][t])
    <3>1. pool' = pool
      BY <2>2 DEF Destroy
    <3>. QED  BY <1>1, <2>1, <3>1 DEF Pooled, Internal, Active, UInv, IInv, TypeOK
  <2>3. CASE ~IsExternal(id[p][t])
    <3>1. pool' = [pool EXCEPT ![p] = pool[p] \cup {SetBit(id[p][t])}]
      BY <2>3 DEF Destroy
    <3>2. Internal(p, t)
      BY <1>1, <2>3 DEF Internal
    <3>3. CASE q = p /\ u # t
      <4>1. /\ state'[p][u] = state[p][u] /\ id'[p][u] = id[p][u]
            /\ pool'[p] = pool[p] \cup {SetBit(id[p][t])}
            /\ \A v \in Teams : state'[p][v] = "ALLOC_ID" => state[p][v] = "ALLOC_ID"
        BY <1>1, <3>1, <3>3 DEF UInv, IInv, TypeOK
      <4>2. Internal(p, u) => id[p][u] # SetBit(id[p][t])
        BY <1>3, <3>2, <3>3
      <4>. QED  BY <1>1, <2>1, <3>3, <4>1, <4>2 DEF Pooled, Internal, Active
    <3>4. CASE q = p /\ u = t
      BY <1>1, <2>1, <3>1, <3>4 DEF Pooled, Internal, Active, UInv, IInv, TypeOK
    <3>5. CASE q # p
      BY <1>1, <2>1, <3>1, <3>5 DEF Pooled, Internal, Active, UInv, IInv, TypeOK
    <3>. QED  BY <3>3, <3>4, <3>5
  <2>. QED  BY <2>2, <2>3
<1>. QED  BY <1>2, <1>4 DEF AllPooled

LEMMA NextUInv == UInv /\ ReleasesRight /\ [Next]_vars => UInv'
<1> SUFFICES ASSUME UInv, ReleasesRight, [Next]_vars PROVE UInv'
  OBVIOUS
<1>1. IInv'
  BY NextIInv DEF UInv
<1>2. UniqueIds' /\ AllPooled'
  <2>1. ASSUME NEW p \in Procs, NEW t \in Teams,
               CreatePost(p, t) \/ AllocExternal(p, t) \/ AllocPost(p, t)
        PROVE  UniqueIds' /\ AllPooled'
    BY <2>1, CreatePostUInv, AllocExternalUInv, AllocPostUInv
  <2>2. ASSUME NEW p \in Procs, NEW t \in Teams,
               AllocDone(p, t) \/ AllocError(p, t) \/ Destroy(p, t)
        PROVE  UniqueIds' /\ AllPooled'
    BY <2>2, AllocDoneUInv, AllocErrorUInv, DestroyUInv
  <2>3. CASE UNCHANGED vars
    BY <2>3 DEF vars, UInv, UniqueIds, AllPooled, Pooled, Internal, Active
  <2>. QED  BY <2>1, <2>2, <2>3 DEF Next
<1>. QED  BY <1>1, <1>2 DEF UInv

\* An id that the library allocated is the id of no other team of the process,
\* as long as the pool is one word or no team gets the last id of a word: the
\* latter is what set_id_bit puts back at the wrong place.
THEOREM Uniqueness == Spec /\ []ReleasesRight => []UniqueIds
<1>1. UInv => UniqueIds
  BY DEF UInv
<1>. QED  BY <1>1, InitUInv, NextUInv, PTL DEF Spec
=============================================================================
