----------------------------- MODULE PaidAccess -----------------------------
(***************************************************************************)
(* The paid set as a state machine: any account may call any function of   *)
(* the contract in PaidAccessSet.                                          *)
(***************************************************************************)
EXTENDS PaidAccessSet

CONSTANTS
    PaidCapacity,   \* bound: leaves ever inserted, which the tree has room for
    Batches         \* the batches that may be inserted

ASSUME PaidAssumption ==
    /\ PaidConstants
    /\ PaidCapacity \in 0..Width[Depth]
    /\ Batches \subseteq Seq([c : Commitments, limit : Nat])

VARIABLE paid       \* the storage of the contract

PaidInit == \E a \in Addresses : paid = Deployed(a)

Insert(sender, c, l) ==
    /\ paid.nextIndex < PaidCapacity
    /\ CanInsert(paid, sender, c, l)
    /\ paid' = Inserted(paid, c, l)

InsertBatch(sender, batch) ==
    /\ paid.nextIndex + Len(batch) <= PaidCapacity
    /\ CanInsertBatch(paid, sender, batch)
    /\ paid' = InsertedBatch(paid, batch)

SlashLeaf(c, l) ==
    /\ CanSlash(paid, c, l)
    /\ paid' = Slashed(paid, c)

SetOperator(sender, to) ==
    /\ sender = paid.operator
    /\ paid' = Nominated(paid, to)

AcceptOperator(sender) ==
    /\ sender = paid.pendingOperator
    /\ paid' = Accepted(paid)

PaidNext ==
    \/ \E a \in Addresses :
          \/ \E c \in Commitments, l \in Tiers : Insert(a, c, l)
          \/ \E b \in Batches : InsertBatch(a, b)
          \/ \E to \in Addresses \cup {NoAddress} : SetOperator(a, to)
          \/ AcceptOperator(a)
    \/ \E c \in Commitments, l \in Tiers : SlashLeaf(c, l)

PaidSpec == PaidInit /\ [][PaidNext]_paid

-----------------------------------------------------------------------------
(* Properties.                                                             *)

Leaves == 0..(Width[Depth] - 1)

LeafAt(i) == NodeAt(paid.tree, 0, i)

\* The root that a light client reads from one storage slot commits to exactly
\* the live leaves at their own indices, and liveCount counts them: the nodes
\* kept along earlier paths are never stale when a later path uses them.  The
\* word 0 has no leaf of its own once it is inserted, and may stay in the nodes
\* above its slot.
PaidRootExact ==
    /\ Blank \notin LiveSet(paid) => paid.tree.root = RootOf([i \in Leaves |-> LeafAt(i)])
    /\ \A c \in LiveSet(paid) \ {Blank} : LeafAt(paid.leaves[c].index) = c
    /\ \A i \in Leaves : LeafAt(i) # Zero =>
          LeafAt(i) \in LiveSet(paid) /\ paid.leaves[LeafAt(i)].index = i
    /\ paid.liveCount = Cardinality(LiveSet(paid))

PaidTree == INSTANCE AdmissionTree
    WITH leaf <- [i \in 0..(PaidCapacity - 1) |-> LeafAt(i)], size <- paid.nextIndex,
         Capacity <- PaidCapacity

\* Single inserts, batches and slashes leave an append-only tree whose vacated
\* slots are never used again, as the staked set does.
PaidTreeImplemented == PaidTree!TreeSpec
=============================================================================
