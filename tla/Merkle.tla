------------------------------- MODULE Merkle -------------------------------
(***************************************************************************)
(* The Merkle trees of core/merkle_tree.go, over transactions and over the *)
(* headers of a batch of blocks, and the walk along a path that            *)
(* types/transaction.go and types/block.go share.                          *)
(*                                                                         *)
(* A hash is what was hashed: <<x>> of data x, <<a, b>> of two hashes one  *)
(* after the other.  Equal hashes thus have equal contents.                *)
(***************************************************************************)
EXTENDS Integers, Sequences, SequencesExt

Hash(x) == <<x>>

Pair(a, b) == <<a, b>>

\* The nodes of the lowest level, for a non-empty sequence of data.  A node stands
\* for the data numbered l to r, from 0 on.
Leaves(dataSeq) ==
    [i \in DOMAIN dataSeq |-> [l |-> i - 1, r |-> i - 1, data |-> Hash(dataSeq[i])]]

\* A level of odd length gets its last node twice.  Both have the same bounds: the
\* code moves those of a copy.
Even(nodes) ==
    IF Len(nodes) % 2 = 1 /\ Len(nodes) # 1 THEN Append(nodes, Last(nodes)) ELSE nodes

\* The level above: one node for two.
NewLevel(nodes) ==
    [j \in 1..Len(nodes) \div 2 |->
        [l |-> nodes[2 * j - 1].l,
         r |-> nodes[2 * j].r,
         data |-> Pair(nodes[2 * j - 1].data, nodes[2 * j].data)]]

\* A tree and the next level above it, until there is one node.
Higher(tree) ==
    IF Len(Last(tree)) = 1 THEN tree ELSE Append(tree, Even(NewLevel(Last(tree))))

\* All levels, from the leaves up to the root.
NewMerkleTree(dataSeq) ==
    LET tree[n \in 0..Len(dataSeq)] ==
            IF n = 0 THEN <<Even(Leaves(dataSeq))>> ELSE Higher(tree[n - 1])
    IN  tree[Len(dataSeq)]

Root(tree) == Last(tree)[1].data

\* The children of the p-th node of level k: a copy has those of its original.
Left(tree, k, p) == 2 * (IF 2 * p > Len(tree[k - 1]) THEN p - 1 ELSE p) - 1

Right(tree, k, p) == Left(tree, k, p) + 1

\* One node further on the way down, unless the last one stands for one piece of data.
Deeper(tree, index, way) ==
    LET k == Len(tree) - Len(way) + 1
        p == Last(way)
        node == tree[k][p]
    IN  IF node.l = node.r THEN way
        ELSE Append(way, IF index < (node.l + node.r) \div 2
                         THEN Left(tree, k, p) ELSE Right(tree, k, p))

\* The nodes visited on the way down, by their positions in their levels.
Visit(tree, index) ==
    LET way[n \in 0..Len(tree)] ==
            IF n = 0 THEN <<1>> ELSE Deeper(tree, index, way[n - 1])
    IN  way[Len(tree)]

\* FindPath: what lies beside the index, from the last node visited back to the root.
FindPath(tree, index) ==
    LET way == Visit(tree, index)
        beside(n) ==
            LET k == Len(tree) - n + 1
                l == tree[k - 1][Left(tree, k, way[n])]
                r == tree[k - 1][Right(tree, k, way[n])]
            IN  (IF index > l.r THEN <<[hash |-> l.data, left |-> TRUE]>> ELSE <<>>)
                \o (IF index < r.l THEN <<[hash |-> r.data, left |-> FALSE]>> ELSE <<>>)
    IN  FlattenSeq(Reverse([n \in 1..Len(way) - 1 |-> beside(n)]))

Step(h, p) == IF p.left THEN Pair(p.hash, h) ELSE Pair(h, p.hash)

\* The hash at the end of a path that starts at a leaf's hash.
Walk(hash, path) ==
    LET h[n \in 0..Len(path)] == IF n = 0 THEN hash ELSE Step(h[n - 1], path[n])
    IN  h[Len(path)]

=============================================================================
