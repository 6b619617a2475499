----------------------------- MODULE MerklePath -----------------------------
(***************************************************************************)
(* The incremental Merkle tree of the membership contracts, node by node:  *)
(* _updateLeaf() and _nodeAt() of contracts/PaidAccessSet.sol, which are   *)
(* also those of StakedReputationSet.sol.  A node is written only along    *)
(* the path of an updated leaf; a node that holds the word 0 stands for    *)
(* the root of an empty subtree.  That is so of nodes that were never      *)
(* written, and of a leaf that was set to 0.  A hash is the pair of what   *)
(* is hashed, and never 0.                                                 *)
(***************************************************************************)
EXTENDS RateCommitments

CONSTANT Depth      \* TREE_DEPTH

Hash(left, right) == <<left, right>>

\* The roots of the empty subtrees.
Zeroes[level \in 0..Depth] ==
    IF level = 0 THEN Zero ELSE Hash(Zeroes[level - 1], Zeroes[level - 1])

EmptyTree == [node |-> [x \in {} |-> Zero], root |-> Zeroes[Depth]]

Written(t, level, index) ==
    /\ <<level, index>> \in DOMAIN t.node
    /\ level = 0 => t.node[<<level, index>>] # Blank

\* A node of the tree t, as its sibling sees it.
NodeAt(t, level, index) ==
    IF Written(t, level, index) THEN t.node[<<level, index>>] ELSE Zeroes[level]

\* One turn of the loop: from the node p of the level to the one above it.
Above(t, level, p) ==
    [idx |-> p.idx \div 2,
     node |-> IF p.idx % 2 = 0 THEN Hash(p.node, NodeAt(t, level, p.idx + 1))
                               ELSE Hash(NodeAt(t, level, p.idx - 1), p.node)]

\* The nodes from a leaf with the given value up to the root.
PathFrom(t, index, value) ==
    LET Path[level \in 0..Depth] ==
            IF level = 0 THEN [idx |-> index, node |-> value]
                         ELSE Above(t, level - 1, Path[level - 1])
    IN  Path

\* The tree t with another value for one leaf.  Nothing refuses an index that
\* does not fit the depth.
UpdateLeaf(t, index, value) ==
    LET path    == PathFrom(t, index, value)
        written == {<<level, path[level].idx>> : level \in 0..(Depth - 1)}
    IN  [node |-> [x \in DOMAIN t.node \cup written |->
                      IF x \in written THEN path[x[1]].node ELSE t.node[x]],
         root |-> path[Depth].node]

\* The number of leaves under a node of the given level.
Width[level \in 0..Depth] == IF level = 0 THEN 1 ELSE 2 * Width[level - 1]

\* For reference, the root of a full tree with the given leaves.
Subtrees(leaf) ==
    LET Subtree[level \in 0..Depth] ==
            [i \in 0..(Width[Depth - level] - 1) |->
                IF level = 0 THEN leaf[i]
                ELSE Hash(Subtree[level - 1][2 * i], Subtree[level - 1][2 * i + 1])]
    IN  Subtree

RootOf(leaf) == Subtrees(leaf)[Depth][0]
=============================================================================
