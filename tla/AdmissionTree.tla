---------------------------- MODULE AdmissionTree ----------------------------
(***************************************************************************)
(* What a membership contract promises those who follow its events or its  *)
(* root (lib/root-provider.mjs): leaves are appended, and vacated in place *)
(* for good.  A slot is never reused, so an index read once stays right,   *)
(* and nobody holds two live leaves.  One step is one transaction, which   *)
(* may append and vacate several leaves.                                   *)
(***************************************************************************)
EXTENDS Naturals

CONSTANTS
    Commitments,
    Zero,           \* the value of an empty leaf
    Capacity        \* leaves the tree has room for

VARIABLES
    leaf,       \* leaf[i]: the commitment at index i, or Zero
    size        \* leaves appended so far

Slots == 0..(Capacity - 1)

\* What transactions may make of the leaves `old`, the first n of them in use.
Grows(old, n, new, m) ==
    /\ n <= m
    /\ \A i \in Slots :
          /\ i < n => new[i] \in {old[i], Zero}
          /\ i >= m => new[i] = Zero

NoTwins(l) == \A i, j \in Slots : l[i] = l[j] /\ l[i] # Zero => i = j

TreeInit == size = 0 /\ leaf = [i \in Slots |-> Zero]

TreeNext ==
    /\ size' \in 0..Capacity
    /\ leaf' \in [Slots -> Commitments \cup {Zero}]
    /\ Grows(leaf, size, leaf', size')
    /\ NoTwins(leaf')

TreeSpec == TreeInit /\ [][TreeNext]_<<leaf, size>>
=============================================================================
