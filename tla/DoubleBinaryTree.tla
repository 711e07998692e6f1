------------------------- MODULE DoubleBinaryTree -------------------------
(***************************************************************************)
(* coll_patterns/double_binary_tree.h: two binary trees over the same      *)
(* ranks, so that a rank that is a leaf of one is inside the other.        *)
(***************************************************************************)
EXTENDS Knomial

\* get_root
TreeRoot(size) == 2 ^ Max({k \in 0 .. size : 2 ^ k <= size}) - 1

\* get_height: the trailing zeros of rank + 1
Height(rank) == Max({h \in 0 .. rank + 1 : (rank + 1) % 2 ^ h = 0})

\* get_left_child, get_right_child
LeftChild(rank, height) ==
    IF height = 0 THEN NoRank ELSE rank - 2 ^ (height - 1)
RightChild(size, rank, height, root) ==
    LET sub == TreeRoot(size - rank - 1) + 1
    IN  IF rank = size - 1 \/ height = 0 THEN NoRank
        ELSE IF rank = root \/ rank + 2 ^ (height - 1) >= size THEN rank + sub
        ELSE rank + 2 ^ (height - 1)

\* get_parent
Parent(size, rank, height, root) ==
    LET up == 2 ^ height IN
    IF rank = root THEN NoRank
    ELSE IF height = 0
    THEN IF (rank \div 2) % 2 = 0 /\ rank + 1 # size THEN rank + 1 ELSE rank - 1
    ELSE IF ((rank + 1) \div (2 * up)) % 2 = 1 \/ rank + 1 + up > size
    THEN rank - up ELSE rank + up

\* ucc_dbt_build_t1
TreeT1(rank, size) ==
    LET height == Height(rank)
        root   == TreeRoot(size)
    IN  [root |-> root, parent |-> Parent(size, rank, height, root),
         children |-> <<LeftChild(rank, height),
                        RightChild(size, rank, height, root)>>]

\* ucc_dbt_build_t2: the first tree mirrored or, for an odd size, shifted
TreeT2(rank, size) ==
    LET odd    == size % 2 = 1
        t      == TreeT1(IF odd THEN (rank - 1 + size) % size
                         ELSE size - 1 - rank, size)
        Map(x) == IF x = NoRank THEN NoRank
                  ELSE IF odd THEN (x + 1) % size ELSE size - 1 - x
        c      == IF odd THEN t.children ELSE <<t.children[2], t.children[1]>>
    IN  [root |-> Map(t.root), parent |-> Map(t.parent),
         children |-> <<Map(c[1]), Map(c[2])>>]

\* ucc_dbt_build_trees
Trees(rank, size) == <<TreeT1(rank, size), TreeT2(rank, size)>>
=============================================================================
