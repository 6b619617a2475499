------------------------- MODULE StakedReputationSet -------------------------
(***************************************************************************)
(* contracts/StakedReputationSet.sol: members post the bond of their tier, *)
(* leave the admission tree when they start to exit, and get the bond back *)
(* after UNBONDING unless it was slashed.                                  *)
(*                                                                         *)
(* A transaction is atomic, but withdraw() and slash() end with a call to  *)
(* the payee, who may call the contract again before it returns.  If that  *)
(* call fails, everything since the start of the payout is undone.         *)
(***************************************************************************)
EXTENDS MerklePath, Integers, Sequences, FiniteSets

CONSTANTS
    BondOf,         \* BondOf[l]: the bond of tier l
    Unbonding,      \* UNBONDING
    Capacity,       \* bound: registrations (the tree has 2^20 leaves)
    MaxDepth,       \* bound: nested payouts
    MaxTime         \* bound: end of time

ASSUME SetAssumption ==
    /\ IsFiniteSet(Commitments)
    /\ CommitmentFacts
    /\ Tiers \subseteq Nat \ {0}
    /\ BondOf \in [Tiers -> Nat \ {0}]
    /\ {Unbonding, Capacity, MaxDepth, MaxTime} \subseteq Nat
    /\ Depth \in Nat \ {0} /\ Capacity <= Width[Depth]

VARIABLES
    st,         \* what a revert undoes: storage, balance and events
    tree,       \* so it does the nodes of the tree and its root
    stack,      \* st before each payout that has not returned
    trees,      \* and the tree
    now         \* block.timestamp

vars == <<st, tree, stack, trees, now>>

NoMember == [bond |-> 0, index |-> 0, exitInitiatedAt |-> 0, limit |-> 0]

Slots == 0..(Capacity - 1)

Init ==
    /\ st = [members |-> [c \in Commitments |-> NoMember],
             nextIndex |-> 0,
             activeCount |-> 0,
             leaf |-> [i \in Slots |-> Zero],     \* _treeNode[0]
             balance |-> 0,
             log |-> << >>]
    /\ tree = EmptyTree
    /\ stack = << >> /\ trees = << >>
    /\ now = 1

Exists(c) == st.members[c].bond # 0

Active(s, c) == s.members[c].bond # 0 /\ s.members[c].exitInitiatedAt = 0

\* verify() and commitmentOf() tie the proof or the secret to the leaf only at
\* the recorded limit, and the leaf was derived with one limit.
LeafMatches(c) == st.members[c].limit = TierOf[c]

Emit(what, c) == Append(st.log, [what |-> what, c |-> c])

-----------------------------------------------------------------------------
(* One action per function, called in a transaction or by a payee.         *)

\* Mutant: the index is the number of active members.
RegisterReusing(c, l) ==
    /\ st.nextIndex < Capacity
    /\ ~Exists(c)
    /\ st' = [st EXCEPT
          !.members[c] = [bond |-> BondOf[l], index |-> st.activeCount, exitInitiatedAt |-> 0, limit |-> l],
          !.nextIndex = @ + 1,
          !.activeCount = @ + 1,
          !.leaf[st.activeCount] = c,
          !.balance = @ + BondOf[l],
          !.log = Emit("registered", c)]
    /\ tree' = UpdateLeaf(tree, st.activeCount, c)
    /\ UNCHANGED <<stack, trees, now>>

\* The declared tier need not be the one the leaf was derived with.
Register(c, l) ==
    /\ st.nextIndex < Capacity
    /\ ~Exists(c)
    /\ st' = [st EXCEPT
          !.members[c] = [bond |-> BondOf[l], index |-> st.nextIndex, exitInitiatedAt |-> 0, limit |-> l],
          !.nextIndex = @ + 1,
          !.activeCount = @ + 1,
          !.leaf[st.nextIndex] = c,
          !.balance = @ + BondOf[l],
          !.log = Emit("registered", c)]
    /\ tree' = UpdateLeaf(tree, st.nextIndex, c)
    /\ UNCHANGED <<stack, trees, now>>

\* Mutant: the leaf stays until the withdrawal.
InitiateExitLeafKept(c) ==
    /\ Exists(c) /\ Active(st, c) /\ LeafMatches(c)
    /\ st' = [st EXCEPT
          !.members[c].exitInitiatedAt = now,
          !.activeCount = @ - 1,
          !.log = Emit("exiting", c)]
    /\ UNCHANGED <<tree, stack, trees, now>>

InitiateExit(c) ==
    /\ Exists(c) /\ Active(st, c) /\ LeafMatches(c)
    /\ st' = [st EXCEPT
          !.members[c].exitInitiatedAt = now,
          !.activeCount = @ - 1,
          !.leaf[st.members[c].index] = Zero,
          !.log = Emit("exiting", c)]
    /\ tree' = UpdateLeaf(tree, st.members[c].index, Zero)
    /\ UNCHANGED <<stack, trees, now>>

\* The payee is called with the bond; this is where a failure returns to.
Pay == stack' = Append(stack, st) /\ trees' = Append(trees, tree)

Withdraw(c) ==
    /\ Len(stack) < MaxDepth
    /\ Exists(c) /\ ~Active(st, c) /\ LeafMatches(c)
    /\ now >= st.members[c].exitInitiatedAt + Unbonding
    /\ st' = [st EXCEPT
          !.members[c] = NoMember,
          !.balance = @ - st.members[c].bond,
          !.log = Emit("withdrawn", c)]
    /\ Pay
    /\ UNCHANGED <<tree, now>>

\* By whoever knows the secret: its owner at any time, and anybody once an
\* over-spend has revealed it.
Slash(c) ==
    /\ Len(stack) < MaxDepth
    /\ Exists(c) /\ LeafMatches(c)
    /\ st' = [st EXCEPT
          !.members[c] = NoMember,
          !.activeCount = IF Active(st, c) THEN @ - 1 ELSE @,
          !.leaf = IF Active(st, c) THEN [@ EXCEPT ![st.members[c].index] = Zero] ELSE @,
          !.balance = @ - st.members[c].bond,
          !.log = Emit("slashed", c)]
    /\ tree' = IF Active(st, c) THEN UpdateLeaf(tree, st.members[c].index, Zero) ELSE tree
    /\ Pay
    /\ UNCHANGED now

\* The last of a stack of payouts is over.
Popped(s) == SubSeq(s, 1, Len(s) - 1)

Pop == stack' = Popped(stack) /\ trees' = Popped(trees)

PayoutReturns ==
    /\ stack # << >>
    /\ Pop
    /\ UNCHANGED <<st, tree, now>>

\* Mutant: `ok` is not tested, and the money stays.
PayoutRevertsKept ==
    /\ stack # << >>
    /\ st' = [st EXCEPT !.balance = stack[Len(stack)].balance]
    /\ Pop
    /\ UNCHANGED <<tree, now>>

\* PayoutFailed.
PayoutReverts ==
    /\ stack # << >>
    /\ st' = stack[Len(stack)] /\ tree' = trees[Len(trees)]
    /\ Pop
    /\ UNCHANGED now

Tick ==
    /\ stack = << >>
    /\ now < MaxTime
    /\ now' = now + 1
    /\ UNCHANGED <<st, tree, stack, trees>>

Next ==
    \/ \E c \in Commitments :
          \/ \E l \in Tiers : Register(c, l)
          \/ InitiateExit(c) \/ Withdraw(c) \/ Slash(c)
    \/ PayoutReturns \/ PayoutReverts \/ Tick

Spec == Init /\ [][Next]_vars

-----------------------------------------------------------------------------
(* Properties.                                                             *)

Member == [bond : Nat, index : Nat, exitInitiatedAt : Nat, limit : Nat]

Event == [what : {"registered", "exiting", "withdrawn", "slashed"}, c : Commitments]

State == [members : [Commitments -> Member], nextIndex : 0..Capacity, activeCount : Nat,
          leaf : [Slots -> Commitments \cup {Zero}], balance : Int, log : Seq(Event)]

\* Types of the storage and of what every pending payout would return to; the
\* unsigned activeCount never falls below zero.
TypeOK ==
    /\ st \in State
    /\ stack \in Seq(State)
    /\ now \in Nat

TreeExact(s) ==
    /\ \A c \in Commitments : Active(s, c) => s.leaf[s.members[c].index] = c
    /\ \A i \in Slots : s.leaf[i] # Zero =>
          Active(s, s.leaf[i]) /\ s.members[s.leaf[i]].index = i

\* The tree holds the active members, each at its own index and nowhere else,
\* whatever payees did before they returned or failed.
AdmissionExact == TreeExact(st)

ActiveSet(s) == {c \in Commitments : Active(s, c)}

\* activeCount is the number of active members: no exit, slash, nested call or
\* revert is counted twice.
CountExact == st.activeCount = Cardinality(ActiveSet(st))

\* What is in the tree after each transaction.
Committed == IF stack = << >> THEN st ELSE stack[1]

Tree == INSTANCE AdmissionTree WITH leaf <- Committed.leaf, size <- Committed.nextIndex

\* Transaction by transaction the contract is an append-only tree whose
\* vacated slots are never used again.
TreeImplemented == Tree!TreeSpec
=============================================================================
