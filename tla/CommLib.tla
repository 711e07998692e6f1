------------------------------ MODULE CommLib ------------------------------
(* The GPU streams and the communication library (NCCL or RCCL) under TL     *)
(* nccl and TL rccl, as those transports use them, and what a collective     *)
(* promises.  A stream holds groups of primitives.  The sends, receives and  *)
(* collectives of a group run when the groups their peers are at hold the    *)
(* counterparts; copies and marks are local.                                 *)
(*                                                                           *)
(* A buffer is a sequence of cells; the cell j that rank r passes to its     *)
(* i-th collective holds {<<i, r, j>>}, and a reduction joins the sets.      *)
EXTENDS Integers, Sequences, FiniteSets

Ranks(n) == 0 .. n - 1

Prim(k, peer, src, so, dst, to, n) ==
  [k |-> k, peer |-> peer, src |-> src, so |-> so, dst |-> dst, to |-> to, n |-> n]
Send(peer, src, so, n) == Prim("send", peer, src, so, "none", 0, n)
Recv(peer, dst, to, n) == Prim("recv", peer, "none", 0, dst, to, n)
Copy(src, so, dst, to, n) == Prim("copy", 0, src, so, dst, to, n)
Mark(i) == Prim("mark", i, "none", 0, "none", 0, 0)

(* The cells of a buffer from an offset on, and the buffer with cells put    *)
(* there.                                                                    *)
Cells(buf, off, n) == [j \in 1 .. n |-> buf[off + j]]
Put(buf, off, cells) ==
  [j \in DOMAIN buf |-> IF j - off \in DOMAIN cells THEN cells[j - off] ELSE buf[j]]

(* The group at which the stream of a rank is.                               *)
Group(w, q) == IF w.stream[q] = <<>> THEN {} ELSE w.stream[q][1]

(* The primitive of rank q that p of rank r meets.                           *)
Meets(w, r, p, q) ==
  {x \in Group(w, q) :
     /\ x.n = p.n
     /\ \/ p.k = "send" /\ x.k = "recv" /\ x.peer = r /\ p.peer = q
        \/ p.k = "recv" /\ x.k = "send" /\ x.peer = r /\ p.peer = q
        \/ p.k \notin {"send", "recv", "copy", "mark"} /\ x.k = p.k /\ x.peer = p.peer}
Runs(w, r, p) ==
    \/ p.k \in {"copy", "mark"}
    \/ p.k \in {"send", "recv"} /\ Meets(w, r, p, p.peer) # {}
    \/ p.k \notin {"send", "recv"} /\ \A q \in DOMAIN w.stream : Meets(w, r, p, q) # {}

(* What p writes: the n cells it takes from each peer, put together.         *)
Taken(w, r, p, q, from) ==
  LET x == CHOOSE y \in Meets(w, r, p, q) : TRUE
  IN  Cells(w.mem[q][x.src], x.so + from, p.n)
Joined(w, r, p, from) ==
  [j \in 1 .. p.n |-> UNION {Taken(w, r, p, q, from)[j] : q \in DOMAIN w.stream}]
Strung(w, r, p, from) ==
  [j \in 1 .. (p.n * Cardinality(DOMAIN w.stream)) |->
     LET q == (j - 1) \div p.n IN Taken(w, r, p, q, from)[((j - 1) % p.n) + 1]]
Result(w, r, p) ==
  CASE p.k = "copy" -> Cells(w.mem[r][p.src], p.so, p.n)
    [] p.k = "recv" -> Taken(w, r, p, p.peer, 0)
    [] p.k = "broadcast" -> Taken(w, r, p, p.peer, 0)
    [] p.k = "allreduce" -> Joined(w, r, p, 0)
    [] p.k = "reduce" /\ p.peer = r -> Joined(w, r, p, 0)
    [] p.k = "reducescatter" -> Joined(w, r, p, r * p.n)
    [] p.k = "allgather" -> Strung(w, r, p, 0)
    [] p.k = "alltoall" -> Strung(w, r, p, r * p.n)
    [] p.k = "gather" /\ p.peer = r -> Strung(w, r, p, 0)
    [] p.k = "scatter" -> Taken(w, r, p, p.peer, r * p.n)
    [] OTHER -> <<>>

(* The streams advance: everything that can run does, and a group that is    *)
(* empty makes way for the next.                                             *)
Running(w, r) == {p \in Group(w, r) : Runs(w, r, p)}
CanAdvance(w) == \E r \in DOMAIN w.stream : Running(w, r) # {}
Advance(w) ==
  LET run == [r \in DOMAIN w.stream |-> Running(w, r)]
      Written(r, b) ==
        [j \in DOMAIN w.mem[r][b] |->
           LET P == {p \in run[r] : p.dst = b /\ j - p.to \in DOMAIN Result(w, r, p)}
           IN  IF P = {} THEN w.mem[r][b][j]
               ELSE LET p == CHOOSE x \in P : TRUE IN Result(w, r, p)[j - p.to]]
      Left(r) == IF w.stream[r] = <<>> THEN <<>>
                 ELSE IF Group(w, r) = run[r] THEN Tail(w.stream[r])
                 ELSE <<Group(w, r) \ run[r]>> \o Tail(w.stream[r])
  IN  [w EXCEPT !.stream = [r \in DOMAIN w.stream |-> Left(r)],
                !.mem = [r \in DOMAIN w.stream |->
                           [b \in DOMAIN w.mem[r] |-> Written(r, b)]],
                !.done = @ \cup UNION {{<<r, p.peer>> : p \in {x \in run[r] : x.k = "mark"}} :
                                       r \in DOMAIN run}]

-----------------------------------------------------------------------------
(* The arguments of a collective: cnt holds the count of a block, or of each *)
(* block; an element of a type the library does not know has two cells.      *)
Width(op) == IF op.dt = "native" THEN 1 ELSE 2
Block(op) == Width(op) * op.cnt[1]
Count(op, q) == Width(op) * op.cnt[q + 1]
Displ(op, q) ==
  LET Sum[k \in 0 .. q] == IF k = 0 THEN 0 ELSE Sum[k - 1] + Count(op, k - 1)
  IN  Sum[q]
(* alltoallv: rank a sends Pair(op, a, b) cells to rank b.                   *)
Pair(op, a, b) == Width(op) * op.cnt[((a + b) % Len(op.cnt)) + 1]
PairAt(op, a, b, Size(_, _)) ==
  LET Sum[k \in 0 .. b] == IF k = 0 THEN 0 ELSE Sum[k - 1] + Size(a, k - 1)
  IN  Sum[b]
Vector(op) == op.type \in {"allgatherv", "gatherv", "scatterv"}
Size(op, q) == IF Vector(op) THEN Count(op, q) ELSE Block(op)
At(op, q) == IF Vector(op) THEN Displ(op, q) ELSE q * Block(op)

Own(len, i, r) == [j \in 1 .. len |-> {<<i, r, j>>}]
Memory(op, len, i, r) ==
  [src |-> Own(len, i, r),
   dst |-> IF op.inplace THEN Own(len, i, r) ELSE [j \in 1 .. len |-> {}],
   tmp |-> [j \in 1 .. (2 * len) |-> {}], bar |-> <<{<<i, r, 1>>}>>]

(* The ranks, with the results of their collectives so far in R, are in step *)
(* up to the i-th: what failed or was refused on one was so on all.  The     *)
(* library pairs the groups of ranks that are not, whatever their            *)
(* collectives.                                                              *)
InStep(R, i) ==
  \A q, p \in DOMAIN R : \A k \in 1 .. i :
    k \in DOMAIN R[q].res /\ R[q].res[k] \in {"failed", "refused"} =>
      k \in DOMAIN R[p].res /\ R[p].res[k] \in {R[q].res[k], "skipped"}

(* What the buffers hold once the collective is complete.                    *)
Sum1(n, i, off, len) == [j \in 1 .. len |-> {<<i, q, off + j>> : q \in Ranks(n)}]
From(i, q, off, len) == [j \in 1 .. len |-> {<<i, q, off + j>>}]
Gathered(buf, n, Len1(_), At1(_), Val(_)) ==
  [j \in DOMAIN buf |->
     LET Q == {q \in Ranks(n) : j > At1(q) /\ j <= At1(q) + Len1(q)}
     IN  IF Q = {} THEN buf[j]
         ELSE LET q == CHOOSE x \in Q : TRUE IN Val(q)[j - At1(q)]]
Expected(op, n, len, i, r) ==
  LET m == Memory(op, len, i, r)
      root == r = op.root
      b == Block(op)
      OwnAt(q) == IF op.inplace /\ (op.type \in {"allgather", "allgatherv"} \/ q = op.root)
                  THEN At(op, q) ELSE 0
      All == Gathered(m.dst, n, LAMBDA q : Size(op, q), LAMBDA q : At(op, q),
                      LAMBDA q : From(i, q, OwnAt(q), Size(op, q)))
  IN  CASE op.type = "allreduce" -> [m EXCEPT !.dst = Put(@, 0, Sum1(n, i, 0, b))]
        [] op.type = "reduce" /\ root -> [m EXCEPT !.dst = Put(@, 0, Sum1(n, i, 0, b))]
        [] op.type = "reducescatter" ->
             [m EXCEPT !.dst = Put(@, IF op.inplace THEN r * b ELSE 0, Sum1(n, i, r * b, b))]
        [] op.type = "bcast" -> [m EXCEPT !.src = Put(@, 0, From(i, op.root, 0, b))]
        [] op.type \in {"allgather", "allgatherv"} -> [m EXCEPT !.dst = All]
        [] op.type \in {"gather", "gatherv"} /\ root -> [m EXCEPT !.dst = All]
        [] op.type \in {"scatter", "scatterv"} /\ ~(root /\ op.inplace) ->
             [m EXCEPT !.dst = Put(@, 0, From(i, op.root, At(op, r), Size(op, r)))]
        [] op.type = "alltoall" ->
             [m EXCEPT !.dst = Gathered(@, n, LAMBDA q : b, LAMBDA q : q * b,
                                        LAMBDA q : From(i, q, r * b, b))]
        [] op.type = "alltoallv" ->
             [m EXCEPT !.dst = Gathered(@, n, LAMBDA q : Pair(op, q, r),
                LAMBDA q : PairAt(op, r, q, LAMBDA a, k : Pair(op, k, a)),
                LAMBDA q : From(i, q, PairAt(op, q, r, LAMBDA a, k : Pair(op, a, k)),
                                Pair(op, q, r)))]
        [] OTHER -> m
=============================================================================
