------------------------------ MODULE TeamIds ------------------------------
(***************************************************************************)
(* Team identifiers (core/ucc_team.c, ucc_team_alloc_id to                 *)
(* ucc_team_release_id).  Every process keeps a pool of free ids for its   *)
(* context; the members of a new team intersect their pools by a service   *)
(* allreduce and take the smallest id all of them have free.               *)
(*                                                                         *)
(* ids.pool is one array of 2 * PoolSize words: the words of the process   *)
(* and, behind them, the words the allreduce writes.  Here it is the set   *)
(* of the numbers of the bits that are set; bit k of word m has the number *)
(* m * WordBits + k + 1, the id it stands for.                             *)
(***************************************************************************)
EXTENDS Integers, FiniteSets

CONSTANTS Procs,
          Teams,
          Members,      \* Members[t]: the processes of team t
          External,     \* External[t]: params.id the user gave, or NoId
          NoId,
          WordBits,     \* bits of a word of the pool (64 in the code)
          PoolSize,     \* TEAM_IDS_POOL_SIZE
          ExternalBit   \* UCC_TEAM_ID_EXTERNAL_BIT (2^15 in the code)

NIds == PoolSize * WordBits

ASSUME TeamIdsAssumption ==
    /\ Members \in [Teams -> SUBSET Procs]
    /\ WordBits \in Nat \ {0}
    /\ PoolSize \in Nat \ {0}
    /\ ExternalBit \in Nat
    /\ NIds < ExternalBit
    /\ NoId \notin Nat
    /\ External \in [Teams -> (0 .. ExternalBit - 1) \cup {NoId}]

Ids  == 1 .. NIds
Bits == 1 .. 2 * NIds

VARIABLES
    pool,     \* pool[p]: the bits set in ids.pool of process p
    id,       \* id[p][t]: team->id, 0 before it is allocated
    state,    \* state[p][t]: what p knows of team t
    sreq,     \* sreq[p][t]: team->sreq, the allreduce is posted
    posted,   \* posted[t]: members that posted the allreduce of t
    sbuf,     \* sbuf[t][p]: what p contributed to it
    joining   \* joining[t]: members that have yet to call create for t

vars == <<pool, id, state, sreq, posted, sbuf, joining>>

Init ==
    /\ pool = [p \in Procs |-> Bits]
    /\ id = [p \in Procs |-> [t \in Teams |-> 0]]
    /\ state = [p \in Procs |-> [t \in Teams |-> "none"]]
    /\ sreq = [p \in Procs |-> [t \in Teams |-> FALSE]]
    /\ posted = [t \in Teams |-> {}]
    /\ sbuf = [t \in Teams |-> [p \in Procs |-> Ids]]
    /\ joining = [t \in Teams |-> {}]

IsExternal(n) == n >= ExternalBit
Local(p) == pool[p] \cap Ids

\* "Overlapping of multiple ucc_team_create_post operations are invalid", and a
\* team is not destroyed while another one is created.
Idle(p) == \A t \in Teams : state[p][t] # "ALLOC_ID"

-----------------------------------------------------------------------------
(* The user                                                                *)

\* team->id as ucc_team_create_post leaves it
GivenId(t) == IF External[t] = NoId THEN 0 ELSE External[t] + ExternalBit

\* ucc_team_create_post.  The processes call it for overlapping teams in the
\* same order: the first member to create a team finds no other call pending
\* for its members, the others follow.
CreatePost(p, t) ==
    /\ p \in Members[t]
    /\ Idle(p)
    /\ \/ /\ \A q \in Members[t] : state[q][t] = "none"
          /\ \A u \in Teams : joining[u] \cap Members[t] = {}
          /\ joining' = [joining EXCEPT ![t] = Members[t] \ {p}]
          /\ posted' = [posted EXCEPT ![t] = {}]
       \/ /\ p \in joining[t]
          /\ joining' = [joining EXCEPT ![t] = @ \ {p}]
          /\ UNCHANGED posted
    /\ state' = [state EXCEPT ![p][t] = "ALLOC_ID"]
    /\ id' = [id EXCEPT ![p][t] = GivenId(t)]
    /\ UNCHANGED <<pool, sreq, sbuf>>

-----------------------------------------------------------------------------
(* ucc_team_alloc_id                                                       *)

\* the id was given by the user
AllocExternal(p, t) ==
    /\ state[p][t] = "ALLOC_ID"
    /\ id[p][t] > 0
    /\ state' = [state EXCEPT ![p][t] = "ACTIVE"]
    /\ UNCHANGED <<pool, id, sreq, posted, sbuf, joining>>

\* the allreduce is posted with the words of the process
AllocPost(p, t) ==
    /\ state[p][t] = "ALLOC_ID"
    /\ id[p][t] = 0
    /\ ~sreq[p][t]
    /\ sreq' = [sreq EXCEPT ![p][t] = TRUE]
    /\ posted' = [posted EXCEPT ![t] = @ \cup {p}]
    /\ sbuf' = [sbuf EXCEPT ![t][p] = Local(p)]
    /\ UNCHANGED <<pool, id, state, joining>>

\* UCC_OP_BAND over the members
Result(t) == {n \in Ids : \A q \in Members[t] : n \in sbuf[t][q]}

\* Defect: the bit of the id is not cleared.
MutTaken(S, n) == S

\* find_first_set_and_zero clears the bit it found
Taken(S, n) == S \ {n}

\* Defect: the id is looked for among the ids of the process alone.
MutAvailable(p, t) == Local(p)

\* memcpy(local, global): where the id is looked for
Available(p, t) == Result(t)

\* The allreduce has ended: every member has posted it.  Its result is copied
\* over the words of the process, and the first bit that is set is taken.
AllocDone(p, t) ==
    /\ state[p][t] = "ALLOC_ID"
    /\ sreq[p][t]
    /\ Members[t] \subseteq posted[t]
    /\ sreq' = [sreq EXCEPT ![p][t] = FALSE]
    /\ LET G == Available(p, t)
           copy == {n + NIds : n \in Result(t)}
       IN  IF G = {}
           THEN /\ pool' = [pool EXCEPT ![p] = copy]
                /\ state' = [state EXCEPT ![p][t] = "failed"]
                /\ UNCHANGED id
           ELSE \E n \in G :
                /\ \A m \in G : n <= m
                /\ pool' = [pool EXCEPT ![p] = Taken(G, n) \cup copy]
                /\ id' = [id EXCEPT ![p][t] = n]
                /\ state' = [state EXCEPT ![p][t] = "ACTIVE"]
    /\ UNCHANGED <<posted, sbuf, joining>>

\* the allreduce fails at p
AllocError(p, t) ==
    /\ state[p][t] = "ALLOC_ID"
    /\ sreq[p][t]
    /\ state' = [state EXCEPT ![p][t] = "failed"]
    /\ UNCHANGED <<pool, id, sreq, posted, sbuf, joining>>

-----------------------------------------------------------------------------
\* set_id_bit: the word is id / 64, the bit in it (id - 1) % 64
SetBit(n) == (n \div WordBits) * WordBits + ((n - 1) % WordBits) + 1

\* ucc_team_destroy with the ucc_team_release_id in it; the members do not wait
\* for each other
Destroy(p, t) ==
    /\ state[p][t] = "ACTIVE"
    /\ Idle(p)
    /\ state' = [state EXCEPT ![p][t] = "none"]
    /\ id' = [id EXCEPT ![p][t] = 0]
    /\ pool' = IF IsExternal(id[p][t]) THEN pool
               ELSE [pool EXCEPT ![p] = @ \cup {SetBit(id[p][t])}]
    /\ UNCHANGED <<sreq, posted, sbuf, joining>>

Next ==
    \E p \in Procs, t \in Teams :
        \/ CreatePost(p, t) \/ Destroy(p, t)
        \/ AllocExternal(p, t) \/ AllocPost(p, t)
        \/ AllocDone(p, t) \/ AllocError(p, t)

Spec == Init /\ [][Next]_vars

-----------------------------------------------------------------------------
(* Properties                                                              *)

\* The fields have their types: an id the library allocates has a bit in the
\* pool, and no bit outside of ids.pool is ever set.
TypeOK ==
    /\ pool \in [Procs -> SUBSET Bits]
    /\ id \in [Procs -> [Teams -> (0 .. NIds) \cup
                                 (ExternalBit .. 2 * ExternalBit - 1)]]
    /\ state \in [Procs -> [Teams -> {"none", "ALLOC_ID", "ACTIVE", "failed"}]]
    /\ sreq \in [Procs -> [Teams -> BOOLEAN]]
    /\ posted \in [Teams -> SUBSET Procs]
    /\ sbuf \in [Teams -> [Procs -> SUBSET Ids]]
    /\ joining \in [Teams -> SUBSET Procs]

Active(p, t)   == state[p][t] = "ACTIVE"
Internal(p, t) == Active(p, t) /\ ~IsExternal(id[p][t])

\* "context-uniq team identifier": an id that the library allocated to a team of
\* a process is the id of no other team the process is in, whatever the members
\* of these teams have created and destroyed meanwhile with other processes.
UniqueIds ==
    \A p \in Procs : \A t, u \in Teams :
        Internal(p, t) /\ Active(p, u) /\ id[p][t] = id[p][u] => t = u

\* The members of a team have the same id for it, although each takes it from
\* its own pool (ucc_team_alloc_id): they match their messages by it.
SameId ==
    \A t \in Teams : \A p, q \in Members[t] :
        Active(p, t) /\ Active(q, t) => id[p][t] = id[q][t]

\* No team has an id that is the last one of a word of the pool.
NoBoundaryIds ==
    \A p \in Procs, t \in Teams :
        Internal(p, t) => id[p][t] % WordBits # 0

=============================================================================
