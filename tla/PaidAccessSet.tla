---------------------------- MODULE PaidAccessSet ----------------------------
(***************************************************************************)
(* contracts/PaidAccessSet.sol: the operator inserts a leaf for each paid  *)
(* order, whoever knows a secret may zero its leaf, and the role of the    *)
(* operator is handed over in two steps.  No function calls out, so a      *)
(* transaction is a step: a function from the storage S to the storage.    *)
(***************************************************************************)
EXTENDS MerklePath, SequencesExt

CONSTANTS
    Addresses,      \* accounts; the deployer names the operator
    NoAddress       \* address(0)

\* What the deployment guarantees of the constants.
PaidConstants ==
    /\ CommitmentFacts
    /\ Depth \in Nat \ {0}
    /\ Tiers \subseteq Nat \ {0}
    /\ NoAddress \notin Addresses

NoLeaf == [index |-> 0, limit |-> 0]

Deployed(operator) ==
    [leaves |-> [c \in Commitments |-> NoLeaf],
     nextIndex |-> 0,
     liveCount |-> 0,
     tree |-> EmptyTree,
     operator |-> operator,
     pendingOperator |-> NoAddress]

LimitOf(S, c) == S.leaves[c].limit

Live(S, c) == LimitOf(S, c) # 0

LiveSet(S) == {c \in Commitments : Live(S, c)}

-----------------------------------------------------------------------------
(* insert(), insertBatch() and slash().                                    *)

CanInsert(S, sender, c, l) == sender = S.operator /\ l \in Tiers /\ ~Live(S, c)

\* Mutant: a commitment that was slashed gets its old leaf back.
InsertedInPlace(S, c, l) ==
    LET old == {i \in 0..(S.nextIndex - 1) : NodeAt(S.tree, 0, i) = Zero}
        at  == IF old = {} THEN S.nextIndex ELSE CHOOSE i \in old : TRUE
    IN  [S EXCEPT !.leaves[c] = [index |-> at, limit |-> l],
                  !.nextIndex = IF old = {} THEN @ + 1 ELSE @,
                  !.liveCount = @ + 1,
                  !.tree = UpdateLeaf(@, at, c)]

Inserted(S, c, l) ==
    [S EXCEPT !.leaves[c] = [index |-> S.nextIndex, limit |-> l],
              !.nextIndex = @ + 1,
              !.liveCount = @ + 1,
              !.tree = UpdateLeaf(@, S.nextIndex, c)]

\* An issuance round is all or nothing: each leaf must be insertable after the
\* ones before it.
CanInsertBatch(S, sender, batch) ==
    /\ batch # << >>
    /\ \A i \in DOMAIN batch : CanInsert(S, sender, batch[i].c, batch[i].limit)
    /\ \A i, j \in DOMAIN batch : batch[i].c = batch[j].c => i = j

InsertedBatch(S, batch) == FoldLeft(LAMBDA T, b : Inserted(T, b.c, b.limit), S, batch)

\* The secret proves the leaf only at the tier the leaf was derived with.
CanSlash(S, c, l) == Live(S, c) /\ LimitOf(S, c) = l /\ TierOf[c] = l

\* Mutant: the leaf stays in the tree.
SlashedLeafKept(S, c) == [S EXCEPT !.leaves[c] = NoLeaf, !.liveCount = @ - 1]

Slashed(S, c) ==
    [S EXCEPT !.leaves[c] = NoLeaf,
              !.liveCount = @ - 1,
              !.tree = UpdateLeaf(@, S.leaves[c].index, Zero)]

-----------------------------------------------------------------------------
(* setOperator() and acceptOperator().                                     *)

Nominated(S, to) == [S EXCEPT !.pendingOperator = to]

Accepted(S) == [S EXCEPT !.operator = S.pendingOperator, !.pendingOperator = NoAddress]
=============================================================================
