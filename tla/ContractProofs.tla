--------------------------- MODULE ContractProofs ---------------------------
(***************************************************************************)
(* Proofs about the three contracts and what follows them, for every set   *)
(* of commitments and operators, every tier table, every depth of nested   *)
(* payouts and every depth of the tree.                                    *)
(*                                                                         *)
(* StakedReputationSet: a revert brings an earlier state back, so the      *)
(* invariant is about st and every state on the stack alike (Good), and    *)
(* orders them: each grows into the later ones and into st (Grown).  The   *)
(* replay of the events and the sum of the bonds are then carried along    *)
(* as functions of each of those states (Booked).                          *)
(* PaidAccessSet: every stored node is the hash of the two below it        *)
(* (TreeSound), which the path of an updated leaf preserves.               *)
(* GatewayRegistry: a payee that fails brings the storage before its       *)
(* payout back, so the books are exact in every storage on the stack of    *)
(* calls (BooksGood).  A command that waits for its payout tells the old   *)
(* stake from a new one by the index, which is never given twice (Fresh).  *)
(***************************************************************************)
EXTENDS GroupReplay, PaidAccess, GatewayStaking, FiniteSetTheorems, SequenceTheorems, TLAPS

IndexUsed(s) ==
    /\ \A c \in Commitments : s.members[c].bond # 0 => s.members[c].index < s.nextIndex
    /\ \A i \in Slots : i >= s.nextIndex => s.leaf[i] = Zero

Counted(s) == s.activeCount = Cardinality(ActiveSet(s))

Good(s) == s \in State /\ TreeExact(s) /\ IndexUsed(s) /\ Counted(s)

Grown(s, t) ==
    /\ s.nextIndex <= t.nextIndex
    /\ \A i \in Slots :
          /\ i < s.nextIndex => t.leaf[i] \in {s.leaf[i], Zero}
          /\ i >= t.nextIndex => t.leaf[i] = Zero

IInv ==
    /\ Good(st)
    /\ now \in Nat \ {0}
    /\ stack \in Seq(State)
    /\ \A i \in 1..Len(stack) : Good(stack[i]) /\ Grown(stack[i], st)
    /\ \A i, j \in 1..Len(stack) : i <= j => Grown(stack[i], stack[j])

-----------------------------------------------------------------------------
(* Growth.                                                                 *)

\* Growth does not skip a transaction: it composes.
LEMMA GrownTransitive ==
    ASSUME NEW s \in State, NEW t \in State, NEW u \in State, Grown(s, t), Grown(t, u)
    PROVE  Grown(s, u)
<1> USE SetAssumption DEF Slots
<1>1. s.nextIndex \in Nat /\ t.nextIndex \in Nat /\ u.nextIndex \in Nat
  BY DEF State
<1>2. s.nextIndex <= u.nextIndex
  BY <1>1 DEF Grown
<1>3. ASSUME NEW i \in Slots
      PROVE  /\ i < s.nextIndex => u.leaf[i] \in {s.leaf[i], Zero}
             /\ i >= u.nextIndex => u.leaf[i] = Zero
  BY <1>1 DEF Grown
<1> QED
  BY <1>2, <1>3 DEF Grown

\* A good state grows into itself: a failed payout changes nothing.
LEMMA GrownReflexive ==
    ASSUME NEW s, Good(s)
    PROVE  Grown(s, s)
BY SetAssumption DEF Good, IndexUsed, Grown, State, Slots

-----------------------------------------------------------------------------
(* The functions of the contract.                                          *)

\* The active members are finitely many, so they can be counted.
LEMMA ActiveFinite ==
    ASSUME NEW s
    PROVE  IsFiniteSet(ActiveSet(s)) /\ Cardinality(ActiveSet(s)) \in Nat
<1>1. ActiveSet(s) \in SUBSET Commitments
  BY DEF ActiveSet
<1>2. IsFiniteSet(ActiveSet(s))
  BY <1>1, SetAssumption, FS_Subset
<1> QED
  BY <1>2, FS_CardinalityType

\* What the storage looks like after a removal, before it is known that
\* activeCount did not go below zero.
Unchecked == [members : [Commitments -> Member], nextIndex : 0..Capacity, activeCount : Int,
              leaf : [Slots -> Commitments \cup {Zero}], balance : Int, log : Seq(Event)]

\* What vacating c's leaf, or leaving it, does to a good state: shared by
\* initiateExit(), withdraw() and slash().
LEMMA Removal ==
    ASSUME NEW s, Good(s), NEW t \in Unchecked,
           NEW c \in Commitments, s.members[c].bond # 0,
           ~Active(t, c),
           \A d \in Commitments \ {c} : t.members[d] = s.members[d],
           t.members[c].bond # 0 => t.members[c].index = s.members[c].index,
           t.nextIndex = s.nextIndex,
           t.activeCount = IF Active(s, c) THEN s.activeCount - 1 ELSE s.activeCount,
           t.leaf = IF Active(s, c) THEN [s.leaf EXCEPT ![s.members[c].index] = Zero] ELSE s.leaf
    PROVE  Good(t) /\ Grown(s, t)
<1> USE SetAssumption DEF Slots
<1>1. /\ s.nextIndex \in 0..Capacity
      /\ s.members[c].index \in 0..(Capacity - 1)
      /\ s.leaf \in [Slots -> Commitments \cup {Zero}]
      /\ s.activeCount \in Nat
  <2>1. /\ s.nextIndex \in 0..Capacity
        /\ s.members \in [Commitments -> Member]
        /\ s.leaf \in [Slots -> Commitments \cup {Zero}]
        /\ s.activeCount \in Nat
    BY DEF Good, State
  <2>2. s.members[c].index \in Nat
    BY <2>1 DEF Member
  <2>3. s.members[c].index < s.nextIndex
    BY DEF Good, IndexUsed
  <2> QED
    BY <2>1, <2>2, <2>3
<1>2. \A d \in Commitments \ {c} : Active(t, d) <=> Active(s, d)
  BY DEF Active
<1>3. \A i \in Slots : t.leaf[i] = IF Active(s, c) /\ i = s.members[c].index THEN Zero ELSE s.leaf[i]
  BY <1>1
<1>4. TreeExact(t)
  <2>1. ASSUME NEW d \in Commitments, Active(t, d)
        PROVE  t.leaf[t.members[d].index] = d
    <3>1. d # c /\ Active(s, d) /\ t.members[d] = s.members[d]
      BY <2>1, <1>2
    <3>2. s.leaf[s.members[d].index] = d /\ s.members[d].index \in Slots
      <4>1. s.leaf[s.members[d].index] = d
        BY <3>1 DEF Good, TreeExact
      <4>2. s.members[d].index \in Nat
        BY DEF Good, State, Member
      <4>3. s.members[d].index < s.nextIndex
        BY <3>1 DEF Good, IndexUsed, Active
      <4> QED
        BY <4>1, <4>2, <4>3, <1>1
    <3>3. Active(s, c) => s.leaf[s.members[c].index] = c
      BY DEF Good, TreeExact
    <3> QED
      BY <3>1, <3>2, <3>3, <1>3
  <2>2. ASSUME NEW i \in Slots, t.leaf[i] # Zero
        PROVE  Active(t, t.leaf[i]) /\ t.members[t.leaf[i]].index = i
    <3>1. t.leaf[i] = s.leaf[i] /\ ~(Active(s, c) /\ i = s.members[c].index)
      BY <2>2, <1>3
    <3>2. Active(s, s.leaf[i]) /\ s.members[s.leaf[i]].index = i /\ s.leaf[i] \in Commitments
      BY <2>2, <3>1, <1>1 DEF Good, TreeExact
    <3>3. s.leaf[i] # c
      BY <3>1, <3>2
    <3> QED
      BY <3>1, <3>2, <3>3, <1>2
  <2> QED
    BY <2>1, <2>2 DEF TreeExact
<1>5. IndexUsed(t)
  BY <1>1, <1>3 DEF Good, IndexUsed
<1>6. ActiveSet(t) = ActiveSet(s) \ {c}
  BY <1>2 DEF ActiveSet
<1>7. Cardinality(ActiveSet(t)) = IF Active(s, c) THEN s.activeCount - 1 ELSE s.activeCount
  <2>1. IsFiniteSet(ActiveSet(s)) /\ s.activeCount = Cardinality(ActiveSet(s))
    BY ActiveFinite DEF Good, Counted
  <2>2. c \in ActiveSet(s) <=> Active(s, c)
    BY DEF ActiveSet
  <2>3. Cardinality(ActiveSet(s) \ {c}) =
           IF c \in ActiveSet(s) THEN Cardinality(ActiveSet(s)) - 1 ELSE Cardinality(ActiveSet(s))
    BY <2>1, FS_RemoveElement
  <2> QED
    BY <2>1, <2>2, <2>3, <1>6
<1>8. Counted(t) /\ t.activeCount \in Nat
  BY <1>7, ActiveFinite DEF Counted
<1>9. Grown(s, t)
  BY <1>1, <1>3, <1>5 DEF Grown, IndexUsed
<1> QED
  BY <1>4, <1>5, <1>8, <1>9 DEF Good, State, Unchecked

\* register() appends one leaf, of a commitment that had none, and counts it.
LEMMA RegisterGood ==
    ASSUME Good(st), NEW c \in Commitments, NEW l \in Tiers, Register(c, l)
    PROVE  Good(st') /\ Grown(st, st')
<1> DEFINE n == st.nextIndex
           m == [bond |-> BondOf[l], index |-> n, exitInitiatedAt |-> 0, limit |-> l]
<1>1. /\ n \in 0..Capacity /\ n < Capacity /\ Capacity \in Nat
      /\ st.members \in [Commitments -> Member]
      /\ st.activeCount \in Nat
      /\ st.leaf \in [Slots -> Commitments \cup {Zero}]
      /\ st.balance \in Int
      /\ st.log \in Seq(Event)
  BY SetAssumption DEF Good, State, Register
<1>2. n \in Slots /\ n + 1 \in 0..Capacity
  BY <1>1 DEF Slots
<1>3. BondOf[l] \in Nat \ {0} /\ l \in Nat /\ m \in Member
  BY <1>1, SetAssumption DEF Member
<1>4. /\ st'.members = [st.members EXCEPT ![c] = m]
      /\ st'.nextIndex = n + 1
      /\ st'.activeCount = st.activeCount + 1
      /\ st'.leaf = [st.leaf EXCEPT ![n] = c]
      /\ st'.balance = st.balance + BondOf[l]
      /\ st'.log = Append(st.log, [what |-> "registered", c |-> c])
  BY DEF Register, Emit, Good, State
<1>5. st' \in State
  <2>1. Append(st.log, [what |-> "registered", c |-> c]) \in Seq(Event)
    BY <1>1 DEF Event
  <2>2. st' = [members |-> st'.members, nextIndex |-> st'.nextIndex, activeCount |-> st'.activeCount,
               leaf |-> st'.leaf, balance |-> st'.balance, log |-> st'.log]
    BY DEF Register, Good, State
  <2>3. /\ st'.members \in [Commitments -> Member]
        /\ st'.leaf \in [Slots -> Commitments \cup {Zero}]
    BY <1>1, <1>2, <1>3, <1>4
  <2>4. st'.activeCount \in Nat /\ st'.balance \in Int
    BY <1>1, <1>3, <1>4
  <2> QED
    BY <1>2, <1>4, <2>1, <2>2, <2>3, <2>4 DEF State
<1>6. /\ st'.members[c] = m
      /\ \A d \in Commitments \ {c} : st'.members[d] = st.members[d]
      /\ st'.leaf[n] = c
      /\ \A i \in Slots \ {n} : st'.leaf[i] = st.leaf[i]
  BY <1>1, <1>2, <1>4
<1>7. /\ Active(st', c) /\ ~Active(st, c)
      /\ \A d \in Commitments \ {c} : Active(st', d) <=> Active(st, d)
  BY <1>3, <1>6 DEF Active, Register, Exists
<1>8. TreeExact(st')
  <2>1. ASSUME NEW d \in Commitments, Active(st', d)
        PROVE  st'.leaf[st'.members[d].index] = d
    <3>1. CASE d = c
      BY <3>1, <1>6
    <3>2. CASE d # c
      <4>1. Active(st, d) /\ st'.members[d] = st.members[d]
        BY <3>2, <2>1, <1>6, <1>7
      <4>2. st.leaf[st.members[d].index] = d
        BY <4>1 DEF Good, TreeExact
      <4>3. st.members[d].index \in Nat
        BY <1>1 DEF Member
      <4>4. st.members[d].index < n
        BY <4>1 DEF Good, IndexUsed, Active
      <4>5. st.members[d].index \in Slots \ {n}
        BY <4>3, <4>4, <1>1 DEF Slots
      <4> QED
        BY <4>1, <4>2, <4>5, <1>6
    <3> QED
      BY <3>1, <3>2
  <2>2. ASSUME NEW i \in Slots, st'.leaf[i] # Zero
        PROVE  Active(st', st'.leaf[i]) /\ st'.members[st'.leaf[i]].index = i
    <3>1. CASE i = n
      BY <3>1, <1>6, <1>7
    <3>2. CASE i # n
      <4>1. st'.leaf[i] = st.leaf[i] /\ st.leaf[i] \in Commitments
        BY <3>2, <2>2, <1>6, <1>1
      <4>2. Active(st, st.leaf[i]) /\ st.members[st.leaf[i]].index = i
        BY <4>1, <2>2 DEF Good, TreeExact
      <4> QED
        BY <4>1, <4>2, <1>6, <1>7
    <3> QED
      BY <3>1, <3>2
  <2> QED
    BY <2>1, <2>2 DEF TreeExact
<1>9. IndexUsed(st')
  <2>1. ASSUME NEW d \in Commitments, st'.members[d].bond # 0
        PROVE  st'.members[d].index < n + 1
    <3>1. CASE d = c
      BY <3>1, <1>1, <1>6
    <3>2. CASE d # c
      <4>1. st.members[d].index \in Nat /\ st'.members[d] = st.members[d]
        BY <3>2, <1>1, <1>6 DEF Member
      <4>2. st.members[d].index < n
        BY <4>1, <2>1 DEF Good, IndexUsed
      <4> QED
        BY <4>1, <4>2, <1>1
    <3> QED
      BY <3>1, <3>2
  <2>2. ASSUME NEW i \in Slots, i >= n + 1
        PROVE  st'.leaf[i] = Zero
    <3>1. i \in Slots \ {n} /\ i >= n
      BY <2>2, <1>1 DEF Slots
    <3> QED
      BY <3>1, <1>6 DEF Good, IndexUsed
  <2> QED
    BY <2>1, <2>2, <1>4 DEF IndexUsed
<1>10. Counted(st')
  <2>1. ActiveSet(st') = ActiveSet(st) \cup {c} /\ c \notin ActiveSet(st)
    BY <1>7 DEF ActiveSet
  <2>2. Cardinality(ActiveSet(st) \cup {c}) =
           IF c \in ActiveSet(st) THEN Cardinality(ActiveSet(st)) ELSE Cardinality(ActiveSet(st)) + 1
    BY ActiveFinite, FS_AddElement
  <2> QED
    BY <2>1, <2>2, <1>4 DEF Counted, Good
<1>11. Grown(st, st')
  <2>1. n <= n + 1
    BY <1>1
  <2>2. \A i \in Slots : i < n => st'.leaf[i] \in {st.leaf[i], Zero}
    BY <1>1, <1>6 DEF Slots
  <2> QED
    BY <2>1, <2>2, <1>4, <1>9 DEF Grown, IndexUsed
<1> QED
  BY <1>5, <1>8, <1>9, <1>10, <1>11 DEF Good

\* initiateExit() vacates the leaf of an active member.
LEMMA InitiateExitGood ==
    ASSUME Good(st), now \in Nat \ {0}, NEW c \in Commitments, InitiateExit(c)
    PROVE  Good(st') /\ Grown(st, st')
<1>1. /\ st.members \in [Commitments -> Member]
      /\ st.nextIndex \in 0..Capacity
      /\ st.activeCount \in Nat
      /\ st.leaf \in [Slots -> Commitments \cup {Zero}]
      /\ st.balance \in Int
      /\ st.log \in Seq(Event)
  BY DEF Good, State
<1>2. /\ st'.members = [st.members EXCEPT ![c] = [@ EXCEPT !.exitInitiatedAt = now]]
      /\ st'.nextIndex = st.nextIndex
      /\ st'.activeCount = st.activeCount - 1
      /\ st'.leaf = [st.leaf EXCEPT ![st.members[c].index] = Zero]
      /\ st'.balance = st.balance
      /\ st'.log = Append(st.log, [what |-> "exiting", c |-> c])
  BY DEF InitiateExit, Emit, Good, State
<1>3. /\ st'.members \in [Commitments -> Member]
      /\ st'.members[c] = [st.members[c] EXCEPT !.exitInitiatedAt = now]
      /\ \A d \in Commitments \ {c} : st'.members[d] = st.members[d]
  BY <1>1, <1>2 DEF Member
<1>4. st' \in Unchecked
  <2>1. st'.log \in Seq(Event)
    BY <1>1, <1>2 DEF Event
  <2>2. st'.leaf \in [Slots -> Commitments \cup {Zero}]
    BY <1>1, <1>2
  <2>3. st' = [members |-> st'.members, nextIndex |-> st'.nextIndex, activeCount |-> st'.activeCount,
               leaf |-> st'.leaf, balance |-> st'.balance, log |-> st'.log]
    BY DEF InitiateExit, Good, State
  <2>4. st'.nextIndex \in 0..Capacity /\ st'.activeCount \in Int /\ st'.balance \in Int
    BY <1>1, <1>2
  <2> QED
    BY <1>3, <2>1, <2>2, <2>3, <2>4 DEF Unchecked
<1>5. ~Active(st', c) /\ st'.members[c].index = st.members[c].index
  BY <1>1, <1>3 DEF Active, Member
<1>6. Active(st, c) /\ st.members[c].bond # 0
  BY DEF InitiateExit, Active
<1> QED
  BY <1>2, <1>3, <1>4, <1>5, <1>6, Removal

\* withdraw() and slash() delete the member; slash() vacates the leaf of one
\* that was still active, and withdraw() finds it vacated.
LEMMA DeletionGood ==
    ASSUME Good(st), NEW c \in Commitments, Withdraw(c) \/ Slash(c)
    PROVE  Good(st') /\ Grown(st, st')
<1>1. /\ st.members \in [Commitments -> Member]
      /\ st.nextIndex \in 0..Capacity
      /\ st.activeCount \in Nat
      /\ st.leaf \in [Slots -> Commitments \cup {Zero}]
      /\ st.balance \in Int
      /\ st.log \in Seq(Event)
      /\ st.members[c].bond \in Nat
      /\ st.members[c].bond # 0
  BY DEF Good, State, Member, Withdraw, Slash, Exists
<1>2. /\ st'.members = [st.members EXCEPT ![c] = NoMember]
      /\ st'.nextIndex = st.nextIndex
      /\ st'.activeCount = IF Active(st, c) THEN st.activeCount - 1 ELSE st.activeCount
      /\ st'.leaf = IF Active(st, c) THEN [st.leaf EXCEPT ![st.members[c].index] = Zero] ELSE st.leaf
      /\ st'.balance = st.balance - st.members[c].bond
  BY DEF Withdraw, Slash, Good, State
<1>3. st'.log \in Seq(Event)
  <2>1. CASE Withdraw(c)
    <3>1. st'.log = Append(st.log, [what |-> "withdrawn", c |-> c])
      BY <2>1 DEF Withdraw, Emit, Good, State
    <3> QED
      BY <3>1, <1>1 DEF Event
  <2>2. CASE Slash(c)
    <3>1. st'.log = Append(st.log, [what |-> "slashed", c |-> c])
      BY <2>2 DEF Slash, Emit, Good, State
    <3> QED
      BY <3>1, <1>1 DEF Event
  <2> QED
    BY <2>1, <2>2
<1>4. NoMember \in Member /\ NoMember.bond = 0
  BY DEF NoMember, Member
<1>5. /\ st'.members \in [Commitments -> Member]
      /\ st'.members[c] = NoMember
      /\ \A d \in Commitments \ {c} : st'.members[d] = st.members[d]
  BY <1>1, <1>2, <1>4
<1>6. st' \in Unchecked
  <2>1. st'.leaf \in [Slots -> Commitments \cup {Zero}]
    BY <1>1, <1>2
  <2>2. st' = [members |-> st'.members, nextIndex |-> st'.nextIndex, activeCount |-> st'.activeCount,
               leaf |-> st'.leaf, balance |-> st'.balance, log |-> st'.log]
    BY DEF Withdraw, Slash, Good, State
  <2>3. st'.nextIndex \in 0..Capacity /\ st'.activeCount \in Int /\ st'.balance \in Int
    BY <1>1, <1>2
  <2> QED
    BY <1>3, <1>5, <2>1, <2>2, <2>3 DEF Unchecked
<1>7. ~Active(st', c)
  BY <1>4, <1>5 DEF Active
<1> QED
  BY <1>1, <1>2, <1>4, <1>5, <1>6, <1>7, Removal

-----------------------------------------------------------------------------
(* The invariant.                                                          *)

\* The constructor's state is good.
LEMMA InitGood ==
    ASSUME Init
    PROVE  IInv
<1> DEFINE s0 == [members |-> [c \in Commitments |-> NoMember], nextIndex |-> 0, activeCount |-> 0,
                  leaf |-> [i \in Slots |-> Zero], balance |-> 0, log |-> << >>]
<1>1. st = s0 /\ stack = << >> /\ now = 1
  BY DEF Init
<1>2. NoMember \in Member /\ NoMember.bond = 0 /\ Capacity \in Nat
  BY SetAssumption DEF NoMember, Member
<1>3. s0 \in State
  <2>1. /\ [c \in Commitments |-> NoMember] \in [Commitments -> Member]
        /\ [i \in Slots |-> Zero] \in [Slots -> Commitments \cup {Zero}]
        /\ << >> \in Seq(Event)
        /\ 0 \in 0..Capacity
    BY <1>2
  <2> QED
    BY <2>1 DEF State
<1>4. /\ \A c \in Commitments : s0.members[c].bond = 0
      /\ \A i \in Slots : s0.leaf[i] = Zero
      /\ s0.activeCount = 0
  BY <1>2
<1>5. TreeExact(s0) /\ IndexUsed(s0)
  BY <1>4 DEF TreeExact, IndexUsed, Active
<1>6. Counted(s0)
  <2>1. ActiveSet(s0) = {}
    BY <1>4 DEF ActiveSet, Active
  <2> QED
    BY <2>1, <1>4, FS_EmptySet DEF Counted
<1>7. Good(st)
  BY <1>1, <1>3, <1>5, <1>6 DEF Good
<1>8. stack \in Seq(State) /\ Len(stack) = 0
  BY <1>1
<1> QED
  BY <1>1, <1>7, <1>8 DEF IInv

\* A function that changes the storage without a payout.
LEMMA PlainStep ==
    ASSUME IInv, Good(st'), Grown(st, st'), UNCHANGED <<stack, now>>
    PROVE  IInv'
<1>1. ASSUME NEW i \in 1..Len(stack)
      PROVE  Good(stack[i]) /\ Grown(stack[i], st')
  <2>1. Good(stack[i]) /\ Grown(stack[i], st) /\ stack[i] \in State
    BY DEF IInv
  <2>2. st \in State /\ st' \in State
    BY DEF IInv, Good
  <2> QED
    BY <2>1, <2>2, GrownTransitive
<1> QED
  BY <1>1 DEF IInv

\* A function that ends with a payout: the state before it goes on the stack.
LEMMA PayoutStep ==
    ASSUME IInv, Good(st'), Grown(st, st'), Pay, UNCHANGED now
    PROVE  IInv'
<1> DEFINE L == Len(stack)
<1>1. stack \in Seq(State) /\ st \in State /\ st' \in State /\ L \in Nat
  BY DEF IInv, Good
<1>2. /\ stack' = Append(stack, st)
      /\ stack' \in Seq(State)
      /\ Len(stack') = L + 1
      /\ stack'[L + 1] = st
      /\ \A i \in 1..L : stack'[i] = stack[i]
  BY <1>1 DEF Pay
<1>3. ASSUME NEW i \in 1..(L + 1)
      PROVE  Good(stack'[i]) /\ Grown(stack'[i], st) /\ Grown(stack'[i], st')
  <2>1. CASE i = L + 1
    BY <2>1, <1>2, GrownReflexive DEF IInv
  <2>2. CASE i # L + 1
    <3>1. i \in 1..L /\ stack'[i] = stack[i]
      BY <2>2, <1>1, <1>2
    <3>2. Good(stack[i]) /\ Grown(stack[i], st) /\ stack[i] \in State
      BY <3>1, <1>1 DEF IInv
    <3> QED
      BY <3>1, <3>2, <1>1, GrownTransitive
  <2> QED
    BY <2>1, <2>2
<1>4. ASSUME NEW i \in 1..(L + 1), NEW j \in 1..(L + 1), i <= j
      PROVE  Grown(stack'[i], stack'[j])
  <2>1. CASE j = L + 1
    BY <2>1, <1>2, <1>3
  <2>2. CASE j # L + 1
    <3>1. i \in 1..L /\ j \in 1..L
      BY <2>2, <1>1, <1>4
    <3> QED
      BY <3>1, <1>2, <1>4 DEF IInv
  <2> QED
    BY <2>1, <2>2
<1> QED
  BY <1>2, <1>3, <1>4 DEF IInv

\* The first elements of a sequence, as SubSeq gives them.
LEMMA PrefixOf ==
    ASSUME NEW S, NEW s \in Seq(S), NEW n \in Nat, Len(s) = n + 1
    PROVE  /\ SubSeq(s, 1, n) \in Seq(S)
           /\ Len(SubSeq(s, 1, n)) = n
           /\ \A i \in 1..n : SubSeq(s, 1, n)[i] = s[i]
<1>1. \A i \in 1..n : s[i] \in S
  OBVIOUS
<1>2. /\ SubSeq(s, 1, n) \in Seq(S)
      /\ Len(SubSeq(s, 1, n)) = IF 1 <= n THEN n - 1 + 1 ELSE 0
      /\ \A i \in 1..(n - 1 + 1) : SubSeq(s, 1, n)[i] = s[1 + i - 1]
  BY <1>1, SubSeqProperties
<1>3. \A i \in 1..n : i \in 1..(n - 1 + 1) /\ 1 + i - 1 = i
  OBVIOUS
<1> QED
  BY <1>2, <1>3

\* A payout that returns, or fails and brings the state before it back.
LEMMA PopStep ==
    ASSUME IInv, PayoutReturns \/ PayoutReverts
    PROVE  IInv'
<1> DEFINE L == Len(stack)
<1>1. stack \in Seq(State) /\ L \in Nat \ {0} /\ stack # << >>
  BY DEF IInv, PayoutReturns, PayoutReverts
<1>2. stack' = SubSeq(stack, 1, L - 1) /\ now' = now
  BY DEF PayoutReturns, PayoutReverts, Pop, Popped
<1>3. /\ stack' \in Seq(State)
      /\ Len(stack') = L - 1
      /\ \A i \in 1..(L - 1) : stack'[i] = stack[i]
  <2>1. L - 1 \in Nat /\ L = (L - 1) + 1
    BY <1>1
  <2> QED
    BY <1>1, <1>2, <2>1, PrefixOf
<1>4. st' = st \/ st' = stack[L]
  BY DEF PayoutReturns, PayoutReverts
<1>5. Good(st')
  BY <1>1, <1>4 DEF IInv
<1>6. ASSUME NEW i \in 1..(L - 1)
      PROVE  Good(stack'[i]) /\ Grown(stack'[i], st')
  <2>1. i \in 1..L /\ L \in 1..L /\ i <= L /\ stack'[i] = stack[i]
    BY <1>1, <1>3
  <2> QED
    BY <2>1, <1>4 DEF IInv
<1>7. ASSUME NEW i \in 1..(L - 1), NEW j \in 1..(L - 1), i <= j
      PROVE  Grown(stack'[i], stack'[j])
  <2>1. i \in 1..L /\ j \in 1..L /\ stack'[i] = stack[i] /\ stack'[j] = stack[j]
    BY <1>1, <1>3
  <2> QED
    BY <2>1, <1>7 DEF IInv
<1> QED
  BY <1>2, <1>3, <1>5, <1>6, <1>7 DEF IInv

\* Every step preserves the invariant.
LEMMA NextGood ==
    ASSUME IInv, [Next]_vars
    PROVE  IInv'
<1>1. CASE \E c \in Commitments : \E l \in Tiers : Register(c, l)
  BY <1>1, RegisterGood, PlainStep DEF Register, IInv
<1>2. CASE \E c \in Commitments : InitiateExit(c)
  BY <1>2, InitiateExitGood, PlainStep DEF InitiateExit, IInv
<1>3. CASE \E c \in Commitments : Withdraw(c) \/ Slash(c)
  <2>1. PICK c \in Commitments : Withdraw(c) \/ Slash(c)
    BY <1>3
  <2>2. Pay /\ UNCHANGED now
    BY <2>1 DEF Withdraw, Slash
  <2> QED
    BY <2>1, <2>2, DeletionGood, PayoutStep DEF IInv
<1>4. CASE PayoutReturns \/ PayoutReverts
  BY <1>4, PopStep
<1>5. CASE Tick
  BY <1>5 DEF Tick, IInv
<1>6. CASE UNCHANGED vars
  BY <1>6 DEF vars, IInv
<1> QED
  BY <1>1, <1>2, <1>3, <1>4, <1>5, <1>6 DEF Next

\* Whatever payees do before they return or fail, the storage and every state
\* that a failed payout would bring back are good.
THEOREM Invariant == Spec => []IInv
<1>1. Init => IInv
  BY InitGood
<1>2. IInv /\ [Next]_vars => IInv'
  BY NextGood
<1> QED
  BY <1>1, <1>2, PTL DEF Spec

\* The contract's storage keeps its types; activeCount, decremented by
\* initiateExit() and by slash(), does not underflow.
THEOREM TypeCorrect == Spec => []TypeOK
<1>1. IInv => TypeOK
  BY DEF IInv, Good, TypeOK
<1> QED
  BY <1>1, Invariant, PTL

\* The tree holds exactly the active members (register(), initiateExit() and
\* slash(), with any nesting of payouts).
THEOREM TreeIsExact == Spec => []AdmissionExact
<1>1. IInv => AdmissionExact
  BY DEF IInv, Good, AdmissionExact
<1> QED
  BY <1>1, Invariant, PTL

\* activeCount is the number of active members.
THEOREM CountIsExact == Spec => []CountExact
<1>1. IInv => CountExact
  BY DEF IInv, Good, Counted, CountExact
<1> QED
  BY <1>1, Invariant, PTL

-----------------------------------------------------------------------------
(* Refinement.                                                             *)

\* A good state is a tree of the abstract specification.
LEMMA GoodIsTree ==
    ASSUME NEW s, Good(s)
    PROVE  /\ s.nextIndex \in 0..Capacity
           /\ s.leaf \in [Slots -> Commitments \cup {Zero}]
           /\ Tree!NoTwins(s.leaf)
<1>1. ASSUME NEW i \in Slots, NEW j \in Slots, s.leaf[i] = s.leaf[j], s.leaf[i] # Zero
      PROVE  i = j
  BY <1>1 DEF Good, TreeExact
<1> QED
  BY <1>1 DEF Good, State, Tree!NoTwins, Tree!Slots, Slots

\* What a step commits grows out of what was committed before it.
LEMMA CommittedGrows ==
    ASSUME IInv, [Next]_vars
    PROVE  Good(Committed') /\ Grown(Committed, Committed')
<1>1. stack \in Seq(State) /\ Len(stack) \in Nat /\ Good(st) /\ IInv'
  BY NextGood DEF IInv
<1>2. \A i \in 1..Len(stack) : Good(stack[i]) /\ Grown(stack[i], st) /\ Grown(stack[i], stack[i])
  BY <1>1 DEF IInv
<1>3. stack # << >> => 1 \in 1..Len(stack)
  BY <1>1
<1>4. Good(Committed) /\ Grown(Committed, Committed)
  BY <1>1, <1>2, <1>3, GrownReflexive DEF Committed
<1>5. CASE \E c \in Commitments : \E l \in Tiers : Register(c, l)
  <2>1. Good(st') /\ Grown(st, st') /\ stack' = stack
    BY <1>1, <1>5, RegisterGood DEF Register
  <2> QED
    BY <2>1, <1>4 DEF Committed
<1>6. CASE \E c \in Commitments : InitiateExit(c)
  <2>1. Good(st') /\ Grown(st, st') /\ stack' = stack
    BY <1>1, <1>6, InitiateExitGood DEF InitiateExit, IInv
  <2> QED
    BY <2>1, <1>4 DEF Committed
<1>7. CASE \E c \in Commitments : Withdraw(c) \/ Slash(c)
  <2>1. stack' = Append(stack, st)
    BY <1>7 DEF Withdraw, Slash, Pay
  <2>2. stack' # << >> /\ stack'[1] = IF stack = << >> THEN st ELSE stack[1]
    BY <2>1, <1>1
  <2> QED
    BY <2>2, <1>4 DEF Committed
<1>8. CASE PayoutReturns \/ PayoutReverts
  <2> DEFINE n == Len(stack) - 1
  <2>1. stack # << >> /\ n \in Nat /\ Len(stack) = n + 1 /\ stack' = SubSeq(stack, 1, n)
    BY <1>1, <1>8 DEF PayoutReturns, PayoutReverts, Pop, Popped
  <2>2. Len(stack') = n /\ \A i \in 1..n : stack'[i] = stack[i]
    BY <2>1, <1>1, PrefixOf
  <2>3. CASE n = 0
    <3>1. stack' = << >> /\ (st' = st \/ st' = stack[1])
      BY <2>1, <2>2, <2>3, <1>1, <1>8 DEF PayoutReturns, PayoutReverts, IInv
    <3> QED
      BY <3>1, <2>1, <1>1, <1>2, <1>3 DEF Committed
  <2>4. CASE n # 0
    <3>1. stack' # << >> /\ stack'[1] = stack[1]
      <4>1. 1 \in 1..n
        BY <2>1, <2>4
      <4>2. Len(stack') # 0 /\ stack' \in Seq(State)
        BY <2>2, <2>4, <1>1 DEF IInv
      <4> QED
        BY <4>1, <4>2, <2>2
    <3> QED
      BY <3>1, <2>1, <1>4 DEF Committed
  <2> QED
    BY <2>3, <2>4
<1>9. CASE Tick \/ UNCHANGED vars
  BY <1>4, <1>9 DEF Tick, vars, Committed
<1> QED
  BY <1>5, <1>6, <1>7, <1>8, <1>9 DEF Next

\* Transaction by transaction the contract is the append-only tree of
\* AdmissionTree: register() never reuses a slot, initiateExit() and slash()
\* vacate in place, and a failed payout shows nothing.
THEOREM ImplementsTree == Spec => TreeImplemented
<1>1. Init => Tree!TreeInit
  BY DEF Init, Tree!TreeInit, Committed, Slots, Tree!Slots
<1>2. IInv /\ [Next]_vars => [Tree!TreeNext]_<<Committed.leaf, Committed.nextIndex>>
  <2> SUFFICES ASSUME IInv, [Next]_vars
               PROVE  Tree!TreeNext
    OBVIOUS
  <2>1. Good(Committed') /\ Grown(Committed, Committed')
    BY CommittedGrows
  <2>2. /\ Committed'.nextIndex \in 0..Capacity
        /\ Committed'.leaf \in [Slots -> Commitments \cup {Zero}]
        /\ Tree!NoTwins(Committed'.leaf)
    BY <2>1, GoodIsTree
  <2>3. Tree!Grows(Committed.leaf, Committed.nextIndex, Committed'.leaf, Committed'.nextIndex)
    BY <2>1 DEF Grown, Tree!Grows, Tree!Slots, Slots
  <2> QED
    BY <2>2, <2>3 DEF Tree!TreeNext, Tree!Slots, Slots
<1> QED
  BY <1>1, <1>2, Invariant, PTL DEF Spec, TreeImplemented, Tree!TreeSpec

-----------------------------------------------------------------------------
(* The group that a gateway rebuilds from the events.                      *)

ApplyEvent(e, g) == Apply(g, e)

Replay == INSTANCE FoldTheory WITH op <- ApplyEvent, base <- Empty, choose <- Max

\* What a gateway has rebuilt once it has replayed the events of s.
Image(s) ==
    [leaf |-> s.leaf, size |-> s.nextIndex,
     liveIndex |-> [c \in ActiveSet(s) |-> s.members[c].index], active |-> s.activeCount]

Replayed(s) == reconstructGroup(s.log) = Image(s)

\* A gateway that has seen no event has an empty group.
LEMMA ReplayNone == reconstructGroup(<< >>) = Empty
<1>1. Replay!ChoosesLast
  BY DEF Replay!ChoosesLast, Replay!Max, Max
<1>2. reconstructGroup(<< >>) = Replay!Fold(<< >>, DOMAIN << >>)
  BY DEF reconstructGroup, FoldLeft, MapThenFoldSet, Replay!Fold, Replay!MapThenFoldSet, ApplyEvent
<1> QED
  BY <1>1, <1>2, Replay!FoldNone

\* One more event is applied to what the earlier ones rebuilt.
LEMMA ReplayOne ==
    ASSUME NEW log \in Seq(Event), NEW e \in Event
    PROVE  reconstructGroup(Append(log, e)) = Apply(reconstructGroup(log), e)
<1>1. Replay!ChoosesLast
  BY DEF Replay!ChoosesLast, Replay!Max, Max
<1>2. \A s : reconstructGroup(s) = Replay!Fold(s, DOMAIN s)
  BY DEF reconstructGroup, FoldLeft, MapThenFoldSet, Replay!Fold, Replay!MapThenFoldSet, ApplyEvent
<1>3. Replay!Fold(Append(log, e), DOMAIN Append(log, e)) = ApplyEvent(e, Replay!Fold(log, DOMAIN log))
  BY <1>1, Replay!FoldAppend
<1> QED
  BY <1>2, <1>3 DEF ApplyEvent

\* Each function of the contract logs what the replay needs to follow it.
LEMMA RegisterReplayed ==
    ASSUME Good(st), Replayed(st), NEW c \in Commitments, NEW l \in Tiers, Register(c, l)
    PROVE  Replayed(st')
<1> DEFINE e == [what |-> "registered", c |-> c]
<1>0. st.log \in Seq(Event) /\ e \in Event /\ st.members \in [Commitments -> Member]
  BY DEF Good, State, Event
<1>1. /\ st'.members = [st.members EXCEPT ![c] = [bond |-> BondOf[l], index |-> st.nextIndex, exitInitiatedAt |-> 0, limit |-> l]]
      /\ st'.nextIndex = st.nextIndex + 1
      /\ st'.activeCount = st.activeCount + 1
      /\ st'.leaf = [st.leaf EXCEPT ![st.nextIndex] = c]
      /\ st'.log = Append(st.log, e)
  BY DEF Register, Emit, Good, State
<1>2. c \notin ActiveSet(st) /\ ActiveSet(st') = ActiveSet(st) \cup {c}
  <2>1. BondOf[l] # 0
    BY SetAssumption
  <2> QED
    BY <1>0, <1>1, <2>1 DEF ActiveSet, Active, Register, Exists
<1>3. \A d \in ActiveSet(st') : st'.members[d].index = IF d = c THEN st.nextIndex ELSE st.members[d].index
  BY <1>0, <1>1 DEF ActiveSet
<1>4. Apply(Image(st), e) = Image(st')
  <2>1. With(Image(st).liveIndex, c, st.nextIndex) = [d \in ActiveSet(st') |-> st'.members[d].index]
    BY <1>2, <1>3 DEF With, Image
  <2> QED
    BY <1>1, <1>2, <2>1 DEF Apply, Image
<1>5. reconstructGroup(st'.log) = Apply(Image(st), e)
  BY <1>0, <1>1, ReplayOne DEF Replayed
<1> QED
  BY <1>4, <1>5 DEF Replayed

\* A removal that the log tells of.
LEMMA RemovalReplayed ==
    ASSUME Good(st), Replayed(st), NEW c \in Commitments,
           NEW what \in {"exiting", "withdrawn", "slashed"},
           st'.log = Append(st.log, [what |-> what, c |-> c]),
           ~Active(st', c),
           \A d \in Commitments \ {c} : st'.members[d] = st.members[d],
           st'.nextIndex = st.nextIndex,
           st'.activeCount = IF Active(st, c) THEN st.activeCount - 1 ELSE st.activeCount,
           st'.leaf = IF Active(st, c) THEN [st.leaf EXCEPT ![st.members[c].index] = Zero] ELSE st.leaf
    PROVE  Replayed(st')
<1> DEFINE e == [what |-> what, c |-> c]
<1>0. st.log \in Seq(Event) /\ e \in Event /\ what # "registered"
  BY DEF Good, State, Event
<1>1. ActiveSet(st') = ActiveSet(st) \ {c}
  BY DEF ActiveSet, Active
<1>2. \A d \in ActiveSet(st') : st'.members[d].index = st.members[d].index
  BY <1>1 DEF ActiveSet
<1>3. Apply(Image(st), e) = Image(st')
  <2>1. CASE Active(st, c)
    <3>1. c \in ActiveSet(st)
      BY <2>1 DEF ActiveSet
    <3>2. Without(Image(st).liveIndex, c) = [d \in ActiveSet(st') |-> st'.members[d].index]
      BY <1>1, <1>2 DEF Without, Image
    <3> QED
      BY <1>0, <2>1, <3>1, <3>2 DEF Apply, Image
  <2>2. CASE ~Active(st, c)
    <3>1. c \notin ActiveSet(st) /\ ActiveSet(st') = ActiveSet(st)
      BY <1>1, <2>2 DEF ActiveSet
    <3>2. Image(st') = Image(st)
      BY <1>2, <2>2, <3>1 DEF Image
    <3> QED
      BY <1>0, <3>1, <3>2 DEF Apply, Image
  <2> QED
    BY <2>1, <2>2
<1>4. reconstructGroup(st'.log) = Apply(Image(st), e)
  BY <1>0, ReplayOne DEF Replayed
<1> QED
  BY <1>3, <1>4 DEF Replayed

-----------------------------------------------------------------------------
(* Solvency.                                                               *)

Plus(a, b) == a + b

AnyOf(S) == CHOOSE x \in S : TRUE

Bonds == INSTANCE FoldTheory WITH op <- Plus, base <- 0, choose <- AnyOf

BondsOf(s) == [c \in Commitments |-> s.members[c].bond]

Covered(s) == s.balance = FoldFunction(+, 0, BondsOf(s))

\* What Solvent adds up is a sum in the sense of FoldTheory.
LEMMA BondsAreSum ==
    ASSUME NEW s PROVE FoldFunction(+, 0, BondsOf(s)) = Bonds!Fold(BondsOf(s), Commitments)
<1>1. DOMAIN BondsOf(s) = Commitments
  BY DEF BondsOf
<1>2. \A f : FoldFunction(+, 0, f) = Bonds!Fold(f, DOMAIN f)
  BY DEF FoldFunction, FoldFunctionOnSet, MapThenFoldSet, Bonds!Fold, Bonds!MapThenFoldSet, AnyOf, Plus
<1> QED
  BY <1>1, <1>2

\* It adds, and picks an element of every set.
LEMMA SumFacts == Bonds!Adds /\ \A S : Bonds!Chooses(S)
  BY DEF Bonds!Adds, Bonds!Chooses, AnyOf, Plus

\* The sum of the bonds follows the bond of the one member that changes.
LEMMA BondChanged ==
    ASSUME NEW s \in State, NEW t \in State, Covered(s), NEW c \in Commitments,
           \A d \in Commitments \ {c} : t.members[d].bond = s.members[d].bond,
           t.balance = s.balance - s.members[c].bond + t.members[c].bond
    PROVE  Covered(t)
<1>1. \A d \in Commitments : BondsOf(s)[d] = s.members[d].bond /\ BondsOf(t)[d] = t.members[d].bond
  BY DEF BondsOf
<1>2. \A d \in Commitments : BondsOf(s)[d] \in Int /\ BondsOf(t)[d] \in Int
  <2>1. s.members \in [Commitments -> Member] /\ t.members \in [Commitments -> Member]
    BY DEF State
  <2>2. \A d \in Commitments : s.members[d] \in Member /\ t.members[d] \in Member
    BY <2>1
  <2>3. \A d \in Commitments : s.members[d].bond \in Int /\ t.members[d].bond \in Int
    <3>1. \A m \in Member : m.bond \in Int
      BY DEF Member
    <3> QED
      BY <2>2, <3>1
  <2> QED
    BY <1>1, <2>3
<1>3. \A d \in Commitments \ {c} : BondsOf(t)[d] = BondsOf(s)[d]
  BY <1>1
<1>4. Bonds!Fold(BondsOf(t), Commitments)
        = Bonds!Fold(BondsOf(s), Commitments) - BondsOf(s)[c] + BondsOf(t)[c]
  <2>1. Bonds!IsFiniteSet(Commitments)
    BY SetAssumption DEF IsFiniteSet, Bonds!IsFiniteSet
  <2>2. Bonds!Adds /\ Bonds!Chooses(Commitments)
    BY SumFacts
  <2> QED
    BY <1>2, <1>3, <2>1, <2>2, Bonds!SumUpdate
<1> QED
  BY <1>1, <1>4, BondsAreSum DEF Covered

\* An empty contract covers its bonds.
LEMMA NoBonds ==
    ASSUME NEW s, s.balance = 0, s.members = [c \in Commitments |-> NoMember]
    PROVE  Covered(s)
<1>1. \A c \in Commitments : BondsOf(s)[c] = 0
  <2>1. \A c \in Commitments : s.members[c] = NoMember
    OBVIOUS
  <2>2. NoMember.bond = 0
    BY DEF NoMember
  <2> QED
    BY <2>1, <2>2 DEF BondsOf
<1>2. Bonds!IsFiniteSet(Commitments) /\ Bonds!Adds /\ Bonds!Chooses(Commitments)
  BY SetAssumption, SumFacts DEF IsFiniteSet, Bonds!IsFiniteSet
<1>3. Bonds!Fold(BondsOf(s), Commitments) = 0
  BY <1>1, <1>2, Bonds!SumZero
<1> QED
  BY <1>3, BondsAreSum DEF Covered

-----------------------------------------------------------------------------
(* Both, for the storage and for what every pending payout would bring     *)
(* back.                                                                   *)

Booked(s) == Replayed(s) /\ Covered(s)

BookedInv ==
    /\ Booked(st)
    /\ \A i \in 1..Len(stack) : Booked(stack[i])

\* register() takes the bond it books.
LEMMA RegisterBooked ==
    ASSUME IInv, Booked(st), NEW c \in Commitments, NEW l \in Tiers, Register(c, l)
    PROVE  Booked(st')
<1>1. Good(st) /\ Good(st') /\ st \in State /\ st' \in State
  BY RegisterGood DEF IInv, Good
<1>2. Replayed(st')
  BY <1>1, RegisterReplayed DEF Booked
<1>3. /\ st'.members = [st.members EXCEPT ![c] = [bond |-> BondOf[l], index |-> st.nextIndex, exitInitiatedAt |-> 0, limit |-> l]]
      /\ st'.balance = st.balance + BondOf[l]
      /\ st.members \in [Commitments -> Member]
      /\ st.balance \in Int
      /\ BondOf[l] \in Int
  BY <1>1, SetAssumption DEF Register, State
<1>4. st.members[c].bond = 0 /\ st'.members[c].bond = BondOf[l]
  BY <1>3 DEF Register, Exists
<1>5. st'.balance = st.balance - st.members[c].bond + st'.members[c].bond
  BY <1>3, <1>4
<1>6. \A d \in Commitments \ {c} : st'.members[d].bond = st.members[d].bond
  BY <1>3
<1> QED
  BY <1>1, <1>2, <1>5, <1>6, BondChanged DEF Booked

\* initiateExit() moves no money and logs the departure.
LEMMA ExitBooked ==
    ASSUME IInv, Booked(st), NEW c \in Commitments, InitiateExit(c)
    PROVE  Booked(st')
<1>1. Good(st) /\ Good(st') /\ st \in State /\ st' \in State /\ now \in Nat \ {0}
  BY InitiateExitGood DEF IInv, Good
<1>2. /\ st'.members = [st.members EXCEPT ![c] = [@ EXCEPT !.exitInitiatedAt = now]]
      /\ st'.nextIndex = st.nextIndex
      /\ st'.activeCount = st.activeCount - 1
      /\ st'.leaf = [st.leaf EXCEPT ![st.members[c].index] = Zero]
      /\ st'.balance = st.balance
      /\ st'.log = Append(st.log, [what |-> "exiting", c |-> c])
      /\ st.members \in [Commitments -> Member]
      /\ st.balance \in Int
  BY <1>1 DEF InitiateExit, Emit, State
<1>3. /\ \A d \in Commitments \ {c} : st'.members[d] = st.members[d]
      /\ st'.members[c] = [st.members[c] EXCEPT !.exitInitiatedAt = now]
      /\ st.members[c] \in Member
  BY <1>2
<1>4. st'.members[c].exitInitiatedAt # 0 /\ st'.members[c].bond = st.members[c].bond
  BY <1>1, <1>3 DEF Member
<1>5. Active(st, c) /\ ~Active(st', c)
  BY <1>4 DEF InitiateExit, Active
<1>6. Replayed(st')
  BY <1>1, <1>2, <1>3, <1>5, RemovalReplayed DEF Booked
<1>7. st'.balance = st.balance - st.members[c].bond + st'.members[c].bond
  BY <1>2, <1>3, <1>4 DEF Member
<1> QED
  BY <1>1, <1>3, <1>6, <1>7, BondChanged DEF Booked

\* withdraw() and slash() pay out the bond they delete.
LEMMA DeletionBooked ==
    ASSUME IInv, Booked(st), NEW c \in Commitments, Withdraw(c) \/ Slash(c)
    PROVE  Booked(st')
<1>1. Good(st) /\ Good(st') /\ st \in State /\ st' \in State
  BY DeletionGood DEF IInv, Good
<1>2. /\ st'.members = [st.members EXCEPT ![c] = NoMember]
      /\ st'.nextIndex = st.nextIndex
      /\ st'.activeCount = IF Active(st, c) THEN st.activeCount - 1 ELSE st.activeCount
      /\ st'.leaf = IF Active(st, c) THEN [st.leaf EXCEPT ![st.members[c].index] = Zero] ELSE st.leaf
      /\ st'.balance = st.balance - st.members[c].bond
      /\ st.members \in [Commitments -> Member]
      /\ st.balance \in Int
  BY <1>1 DEF Withdraw, Slash, State
<1>3. /\ \A d \in Commitments \ {c} : st'.members[d] = st.members[d]
      /\ st'.members[c] = NoMember
      /\ st.members[c] \in Member
  BY <1>2
<1>4. ~Active(st', c) /\ st'.members[c].bond = 0
  BY <1>3 DEF Active, NoMember
<1>5. \E what \in {"exiting", "withdrawn", "slashed"} :
          st'.log = Append(st.log, [what |-> what, c |-> c])
  BY <1>1 DEF Withdraw, Slash, Emit, State
<1>6. Replayed(st')
  BY <1>1, <1>2, <1>3, <1>4, <1>5, RemovalReplayed DEF Booked
<1>7. st'.balance = st.balance - st.members[c].bond + st'.members[c].bond
  BY <1>2, <1>3, <1>4 DEF Member
<1> QED
  BY <1>1, <1>3, <1>6, <1>7, BondChanged DEF Booked

\* The books are right at deployment.
LEMMA InitBooked == Init => BookedInv
<1> SUFFICES ASSUME Init PROVE BookedInv
  OBVIOUS
<1>1. Len(stack) = 0
  BY DEF Init
<1>2. Covered(st)
  BY NoBonds DEF Init
<1>3. ActiveSet(st) = {}
  BY DEF Init, ActiveSet, Active, NoMember
<1>4. Image(st) = Empty
  BY <1>3 DEF Init, Image, Empty
<1>5. Replayed(st)
  BY <1>4, ReplayNone DEF Init, Replayed
<1> QED
  BY <1>1, <1>2, <1>5 DEF BookedInv, Booked

\* No step breaks the books: a payout that reverts brings back right ones.
LEMMA NextBooked ==
    ASSUME IInv, BookedInv, [Next]_vars
    PROVE  BookedInv'
<1> DEFINE L == Len(stack)
<1>0. stack \in Seq(State) /\ L \in Nat /\ st \in State
  BY DEF IInv, Good
<1>1. CASE \E c \in Commitments : \E l \in Tiers : Register(c, l)
  BY <1>1, RegisterBooked DEF Register, BookedInv
<1>2. CASE \E c \in Commitments : InitiateExit(c)
  BY <1>2, ExitBooked DEF InitiateExit, BookedInv
<1>3. CASE \E c \in Commitments : Withdraw(c) \/ Slash(c)
  <2>1. Booked(st')
    BY <1>3, DeletionBooked DEF BookedInv
  <2>2. stack' = Append(stack, st)
    BY <1>3 DEF Withdraw, Slash, Pay
  <2>3. Len(stack') = L + 1 /\ \A i \in 1..(L + 1) : stack'[i] = IF i = L + 1 THEN st ELSE stack[i]
    BY <1>0, <2>2
  <2>4. ASSUME NEW i \in 1..(L + 1) PROVE Booked(stack'[i])
    BY <1>0, <2>3 DEF BookedInv
  <2> QED
    BY <2>1, <2>3, <2>4 DEF BookedInv
<1>4. CASE PayoutReturns \/ PayoutReverts
  <2>1. L \in Nat \ {0} /\ L - 1 \in Nat /\ L = (L - 1) + 1
    BY <1>0, <1>4 DEF PayoutReturns, PayoutReverts
  <2>2. stack' = SubSeq(stack, 1, L - 1)
    BY <1>4 DEF PayoutReturns, PayoutReverts, Pop, Popped
  <2>3. Len(stack') = L - 1 /\ \A i \in 1..(L - 1) : stack'[i] = stack[i]
    BY <1>0, <2>1, <2>2, PrefixOf
  <2>4. Booked(st')
    BY <1>4, <2>1 DEF PayoutReturns, PayoutReverts, BookedInv
  <2> QED
    BY <2>1, <2>3, <2>4 DEF BookedInv
<1>5. CASE Tick \/ UNCHANGED vars
  BY <1>5 DEF Tick, vars, BookedInv
<1> QED
  BY <1>1, <1>2, <1>3, <1>4, <1>5 DEF Next

\* BookedInv holds in every reachable state.
THEOREM BookedInvariant == Spec => []BookedInv
<1>1. Init => BookedInv
  BY InitBooked
<1>2. IInv /\ BookedInv /\ [Next]_vars => BookedInv'
  BY NextBooked
<1> QED
  BY <1>1, <1>2, Invariant, PTL DEF Spec

\* The contract always holds exactly the bonds of its members, also while a payout
\* that may reenter or revert is pending.
THEOREM AlwaysSolvent == Spec => []Solvent
<1>1. BookedInv => Solvent
  BY DEF BookedInv, Booked, Covered, BondsOf, Solvent
<1> QED
  BY <1>1, BookedInvariant, PTL

-----------------------------------------------------------------------------
(* The tree of both contracts, node by node.                               *)

Doubled(n, x) == 2 * x

Doubling == INSTANCE FoldTheory WITH op <- Doubled, base <- 1, choose <- Max

Paired(n, x) == Hash(x, x)

Pairing == INSTANCE FoldTheory WITH op <- Paired, base <- Zero, choose <- Max

\* A tree has levels.
LEMMA DepthPositive == Depth \in Nat /\ Depth # 0
  BY PaidAssumption DEF PaidConstants

\* Width is what its definition says, for every depth.
LEMMA WidthDef ==
    Width = [level \in 0..Depth |-> IF level = 0 THEN 1 ELSE 2 * Width[level - 1]]
<1>1. \E f : Doubling!Recurs(f, Depth)
  BY DepthPositive, Doubling!RecursionExists
<1>2. \E f : f = [level \in 0..Depth |-> IF level = 0 THEN 1 ELSE 2 * f[level - 1]]
  BY <1>1 DEF Doubling!Recurs, Doubled
<1> QED
  BY <1>2 DEF Width

\* So are the roots of the empty subtrees.
LEMMA ZeroesDef ==
    Zeroes = [level \in 0..Depth |-> IF level = 0 THEN Zero ELSE Hash(Zeroes[level - 1], Zeroes[level - 1])]
<1>1. \E f : Pairing!Recurs(f, Depth)
  BY DepthPositive, Pairing!RecursionExists
<1>2. \E f : f = [level \in 0..Depth |-> IF level = 0 THEN Zero ELSE Hash(f[level - 1], f[level - 1])]
  BY <1>1 DEF Pairing!Recurs, Paired
<1> QED
  BY <1>2 DEF Zeroes

\* Induction over the levels of the tree.
LEMMA LevelInduction ==
    ASSUME NEW T, 0 \in T, \A l \in 0..(Depth - 1) : l \in T => l + 1 \in T
    PROVE  \A l \in 0..Depth : l \in T
<1> DEFINE P == {n \in Nat : n <= Depth => n \in T}
<1>1. 0 \in P
  BY DepthPositive
<1>2. \A n \in Nat : n \in P => n + 1 \in P
  <2> SUFFICES ASSUME NEW n \in Nat, n \in P, n + 1 <= Depth PROVE n + 1 \in T
    OBVIOUS
  <2>1. n \in 0..(Depth - 1) /\ n \in T
    BY DepthPositive
  <2> QED
    BY <2>1
<1>3. Nat \subseteq P
  <2> HIDE DEF P
  <2> QED BY <1>1, <1>2, Doubling!Induction
<1> QED
  BY <1>3, DepthPositive

\* Every subtree has leaves.
LEMMA WidthType ==
    \A l \in 0..Depth : Width[l] \in Nat \ {0}
<1> DEFINE T == {l \in 0..Depth : Width[l] \in Nat \ {0}}
<1>1. 0 \in T
  BY WidthDef, DepthPositive
<1>2. ASSUME NEW l \in 0..(Depth - 1), l \in T PROVE l + 1 \in T
  <2>1. l + 1 \in 0..Depth /\ l + 1 # 0 /\ (l + 1) - 1 = l
    BY DepthPositive
  <2>2. Width[l + 1] = 2 * Width[l]
    BY <2>1, WidthDef
  <2> QED
    BY <1>2, <2>1, <2>2
<1>3. \A l \in 0..Depth : l \in T
  <2> HIDE DEF T
  <2> QED BY <1>1, <1>2, LevelInduction
<1> QED
  BY <1>3

Climbs(p, t, index, value, n) ==
    p = [level \in 0..n |-> IF level = 0 THEN [idx |-> index, node |-> value]
                                         ELSE Above(t, level - 1, p[level - 1])]

\* The loop of _updateLeaf() computes a path for every tree.
LEMMA PathDef ==
    ASSUME NEW t, NEW index, NEW value
    PROVE  Climbs(PathFrom(t, index, value), t, index, value, Depth)
<1> DEFINE T == {n \in Nat : \E p : Climbs(p, t, index, value, n)}
<1>1. 0 \in T
  <2> DEFINE p == [level \in 0..0 |-> [idx |-> index, node |-> value]]
  <2>1. Climbs(p, t, index, value, 0)
    BY DEF Climbs
  <2> QED
    BY <2>1
<1>2. ASSUME NEW n \in Nat, n \in T PROVE n + 1 \in T
  <2>1. PICK p : Climbs(p, t, index, value, n)
    BY <1>2
  <2> DEFINE q == [level \in 0..(n + 1) |-> IF level = 0 THEN [idx |-> index, node |-> value]
                                            ELSE Above(t, level - 1, p[level - 1])]
  <2>2. \A k \in 0..n : q[k] = p[k]
    BY <2>1 DEF Climbs
  <2>3. \A k \in 0..(n + 1) : k # 0 => k - 1 \in 0..n
    OBVIOUS
  <2>4. \A k \in 0..(n + 1) : k # 0 => q[k - 1] = p[k - 1]
    BY <2>2, <2>3
  <2>5. q = [level \in 0..(n + 1) |-> IF level = 0 THEN [idx |-> index, node |-> value]
                                      ELSE Above(t, level - 1, q[level - 1])]
    BY <2>4, Zenon
  <2>6. Climbs(q, t, index, value, n + 1)
    BY <2>5 DEF Climbs
  <2> QED
    BY <2>6
<1>3. Nat \subseteq T
  <2> HIDE DEF T
  <2> QED BY <1>1, <1>2, Doubling!Induction
<1>4. \E p : Climbs(p, t, index, value, Depth)
  BY <1>3, DepthPositive
<1>5. PathFrom(t, index, value) = CHOOSE p : Climbs(p, t, index, value, Depth)
  BY DEF PathFrom, Climbs
<1> QED
  BY <1>4, <1>5

Layers(s, leaf, n) ==
    s = [level \in 0..n |->
            [i \in 0..(Width[Depth - level] - 1) |->
                IF level = 0 THEN leaf[i]
                ELSE Hash(s[level - 1][2 * i], s[level - 1][2 * i + 1])]]

\* The reference tree exists for every depth and all leaves.
LEMMA SubtreesDef ==
    ASSUME NEW leaf PROVE Layers(Subtrees(leaf), leaf, Depth)
<1> DEFINE T == {n \in Nat : \E s : Layers(s, leaf, n)}
<1>1. 0 \in T
  <2> DEFINE s == [level \in 0..0 |-> [i \in 0..(Width[Depth - level] - 1) |-> leaf[i]]]
  <2>1. Layers(s, leaf, 0)
    BY DEF Layers
  <2> QED
    BY <2>1
<1>2. ASSUME NEW n \in Nat, n \in T PROVE n + 1 \in T
  <2>1. PICK s : Layers(s, leaf, n)
    BY <1>2
  <2> DEFINE r == [level \in 0..(n + 1) |->
                      [i \in 0..(Width[Depth - level] - 1) |->
                          IF level = 0 THEN leaf[i]
                          ELSE Hash(s[level - 1][2 * i], s[level - 1][2 * i + 1])]]
  <2> DEFINE Row(k) == [i \in 0..(Width[Depth - k] - 1) |->
                           IF k = 0 THEN leaf[i] ELSE Hash(s[k - 1][2 * i], s[k - 1][2 * i + 1])]
  <2>2. \A k \in 0..n : r[k] = s[k]
    <3> SUFFICES ASSUME NEW k \in 0..n PROVE r[k] = s[k]
      OBVIOUS
    <3>1. s = [level \in 0..n |-> Row(level)]
      BY <2>1 DEF Layers
    <3>2. r = [level \in 0..(n + 1) |-> Row(level)] /\ k \in 0..(n + 1)
      OBVIOUS
    <3> HIDE DEF r, Row
    <3> QED
      BY <3>1, <3>2
  <2>3. \A k \in 0..(n + 1) : k # 0 => k - 1 \in 0..n
    OBVIOUS
  <2>4. \A k \in 0..(n + 1) : k # 0 => r[k - 1] = s[k - 1]
    BY <2>2, <2>3
  <2>5. r = [level \in 0..(n + 1) |->
                [i \in 0..(Width[Depth - level] - 1) |->
                    IF level = 0 THEN leaf[i]
                    ELSE Hash(r[level - 1][2 * i], r[level - 1][2 * i + 1])]]
    BY <2>4, Zenon
  <2>6. Layers(r, leaf, n + 1)
    BY <2>5 DEF Layers
  <2> QED
    BY <2>6
<1>3. Nat \subseteq T
  <2> HIDE DEF T
  <2> QED BY <1>1, <1>2, Doubling!Induction
<1>4. \E s : Layers(s, leaf, Depth)
  BY <1>3, DepthPositive
<1>5. Subtrees(leaf) = CHOOSE s : Layers(s, leaf, Depth)
  BY DEF Subtrees, Layers
<1> QED
  BY <1>4, <1>5

-----------------------------------------------------------------------------
(* The path of an updated leaf.                                            *)

\* A path starts at the leaf, climbs level by level and stays inside the tree.
LEMMA PathSteps ==
    ASSUME NEW t, NEW index \in Nat, index < Width[Depth], NEW value
    PROVE  LET p == PathFrom(t, index, value) IN
           /\ p[0] = [idx |-> index, node |-> value]
           /\ \A l \in 0..(Depth - 1) : p[l + 1] = Above(t, l, p[l])
           /\ \A l \in 0..Depth : p[l].idx \in Nat /\ p[l].idx < Width[Depth - l]
<1> DEFINE p == PathFrom(t, index, value)
<1>1. p = [level \in 0..Depth |-> IF level = 0 THEN [idx |-> index, node |-> value]
                                               ELSE Above(t, level - 1, p[level - 1])]
  BY PathDef DEF Climbs
<1> HIDE DEF p
<1>2. p[0] = [idx |-> index, node |-> value]
  BY <1>1, DepthPositive
<1>3. ASSUME NEW l \in 0..(Depth - 1) PROVE p[l + 1] = Above(t, l, p[l])
  <2>1. l + 1 \in 0..Depth /\ l + 1 # 0 /\ (l + 1) - 1 = l
    BY DepthPositive
  <2> QED
    BY <1>1, <2>1
<1> DEFINE T == {l \in 0..Depth : p[l].idx \in Nat /\ p[l].idx < Width[Depth - l]}
<1>4. 0 \in T
  BY <1>2, DepthPositive
<1>5. ASSUME NEW l \in 0..(Depth - 1), l \in T PROVE l + 1 \in T
  <2>1. l + 1 \in 0..Depth /\ Depth - l \in 0..Depth /\ Depth - l # 0
        /\ Depth - (l + 1) \in 0..Depth /\ (Depth - l) - 1 = Depth - (l + 1)
    BY DepthPositive
  <2>2. Width[Depth - l] = 2 * Width[Depth - (l + 1)] /\ Width[Depth - (l + 1)] \in Nat
    BY <2>1, WidthDef, WidthType
  <2>3. p[l + 1].idx = p[l].idx \div 2
    <3>1. p[l + 1] = Above(t, l, p[l])
      BY <1>3
    <3>2. Above(t, l, p[l]).idx = p[l].idx \div 2
      BY DEF Above
    <3> QED
      BY <3>1, <3>2
  <2>4. p[l].idx \in Nat /\ p[l].idx < 2 * Width[Depth - (l + 1)]
    BY <1>5, <2>2
  <2>5. p[l].idx \div 2 \in Nat /\ p[l].idx \div 2 < Width[Depth - (l + 1)]
    BY <2>2, <2>4
  <2> QED
    BY <2>1, <2>3, <2>5
<1>6. \A l \in 0..Depth : l \in T
  <2> HIDE DEF T
  <2> QED BY <1>4, <1>5, LevelInduction
<1> QED
  BY <1>2, <1>3, <1>6 DEF p

\* What a sibling sees of a leaf with the given value.
Seen(value) == IF value = Blank THEN Zero ELSE value

\* _updateLeaf() writes the nodes of the path and no other; the word 0 is not seen.
LEMMA NodeUpdated ==
    ASSUME NEW t, NEW index \in Nat, index < Width[Depth], NEW value
    PROVE  LET p == PathFrom(t, index, value)
               u == UpdateLeaf(t, index, value)
           IN  /\ u.root = p[Depth].node
               /\ \A l \in 0..(Depth - 1) : \A i \in Nat :
                     NodeAt(u, l, i) = IF i = p[l].idx
                                       THEN IF l = 0 THEN Seen(value) ELSE p[l].node
                                       ELSE NodeAt(t, l, i)
<1> DEFINE p == PathFrom(t, index, value)
           u == UpdateLeaf(t, index, value)
           W == {<<level, p[level].idx>> : level \in 0..(Depth - 1)}
<1>1. /\ u.root = p[Depth].node
      /\ u.node = [x \in DOMAIN t.node \cup W |-> IF x \in W THEN p[x[1]].node ELSE t.node[x]]
  BY DEF UpdateLeaf
<1>2. p[0].node = value
  <2>1. p[0] = [idx |-> index, node |-> value]
    BY PathSteps
  <2> HIDE DEF p
  <2> QED
    BY <2>1
<1> HIDE DEF p, u
<1>3. Zeroes[0] = Zero
  BY ZeroesDef, DepthPositive
<1>4. ASSUME NEW l \in 0..(Depth - 1), NEW i \in Nat
      PROVE  NodeAt(u, l, i) = IF i = p[l].idx
                               THEN IF l = 0 THEN Seen(value) ELSE p[l].node
                               ELSE NodeAt(t, l, i)
  <2> DEFINE x == <<l, i>>
  <2>1. x \in W <=> i = p[l].idx
    OBVIOUS
  <2>2. x[1] = l
    OBVIOUS
  <2> HIDE DEF W, x
  <2>3. ASSUME x \in W PROVE NodeAt(u, l, i) = IF l = 0 THEN Seen(value) ELSE p[l].node
    <3>1. x \in DOMAIN u.node /\ u.node[x] = p[l].node
      BY <1>1, <2>2, <2>3
    <3> QED
      BY <1>2, <1>3, <3>1 DEF NodeAt, Written, Seen, x
  <2>4. ASSUME x \notin W PROVE NodeAt(u, l, i) = NodeAt(t, l, i)
    <3>1. (x \in DOMAIN u.node <=> x \in DOMAIN t.node) /\ (x \in DOMAIN t.node => u.node[x] = t.node[x])
      BY <1>1, <2>4
    <3> QED
      BY <3>1 DEF NodeAt, Written, x
  <2> QED
    BY <2>1, <2>3, <2>4
<1> QED
  BY <1>1, <1>4 DEF p, u

\* Of the leaves it changes the one.
LEMMA LeafUpdated ==
    ASSUME NEW t, NEW index \in Nat, index < Width[Depth], NEW value
    PROVE  \A i \in Nat : NodeAt(UpdateLeaf(t, index, value), 0, i)
                            = IF i = index THEN Seen(value) ELSE NodeAt(t, 0, i)
<1> DEFINE p == PathFrom(t, index, value)
           u == UpdateLeaf(t, index, value)
<1>1. p[0] = [idx |-> index, node |-> value]
  BY PathSteps
<1>2. \A l \in 0..(Depth - 1) : \A i \in Nat :
         NodeAt(u, l, i) = IF i = p[l].idx THEN IF l = 0 THEN Seen(value) ELSE p[l].node ELSE NodeAt(t, l, i)
  BY NodeUpdated
<1> HIDE DEF p, u
<1>3. p[0].idx = index /\ 0 \in 0..(Depth - 1)
  BY <1>1, DepthPositive
<1> QED
  BY <1>2, <1>3 DEF u

\* Every node is the hash of its children, and the root of the two below it.
TreeSound(t) ==
    /\ \A l \in 1..(Depth - 1) : \A i \in Nat :
          NodeAt(t, l, i) = Hash(NodeAt(t, l - 1, 2 * i), NodeAt(t, l - 1, 2 * i + 1))
    /\ t.root = Hash(NodeAt(t, Depth - 1, 0), NodeAt(t, Depth - 1, 1))

\* The tree of a fresh contract is sound.
LEMMA EmptySound == TreeSound(EmptyTree)
<1>1. \A l, i : NodeAt(EmptyTree, l, i) = Zeroes[l]
  BY DEF NodeAt, Written, EmptyTree
<1>2. ASSUME NEW l \in 1..Depth PROVE Zeroes[l] = Hash(Zeroes[l - 1], Zeroes[l - 1])
  <2>1. l \in 0..Depth /\ l # 0
    BY DepthPositive
  <2> QED
    BY <2>1, ZeroesDef
<1>3. Depth \in 1..Depth /\ 1..(Depth - 1) \subseteq 1..Depth /\ EmptyTree.root = Zeroes[Depth]
  BY DepthPositive DEF EmptyTree
<1> QED
  BY <1>1, <1>2, <1>3 DEF TreeSound

\* A node is the left or the right child of its parent.
LEMMA Halving ==
    ASSUME NEW n \in Nat
    PROVE  /\ n \div 2 \in Nat
           /\ n % 2 = 0 => n = 2 * (n \div 2)
           /\ n % 2 # 0 => n = 2 * (n \div 2) + 1
  OBVIOUS

\* A path that is hashed upwards from a sound tree leaves a sound one: the
\* nodes beside it are the ones earlier paths left, and off it nothing moves.
LEMMA UpdateSound ==
    ASSUME NEW t, TreeSound(t), NEW index \in Nat, index < Width[Depth], NEW value, value # Blank
    PROVE  LET u == UpdateLeaf(t, index, value) IN
           /\ TreeSound(u)
           /\ \A i \in Nat : NodeAt(u, 0, i) = IF i = index THEN value ELSE NodeAt(t, 0, i)
<1> DEFINE p == PathFrom(t, index, value)
           u == UpdateLeaf(t, index, value)
<1>1. /\ p[0] = [idx |-> index, node |-> value]
      /\ \A l \in 0..(Depth - 1) : p[l + 1] = Above(t, l, p[l])
      /\ \A l \in 0..Depth : p[l].idx \in Nat /\ p[l].idx < Width[Depth - l]
  BY PathSteps
<1>2. /\ u.root = p[Depth].node
      /\ \A l \in 0..(Depth - 1) : \A i \in Nat :
            NodeAt(u, l, i) = IF i = p[l].idx THEN p[l].node ELSE NodeAt(t, l, i)
  <2>1. /\ u.root = p[Depth].node
        /\ \A l \in 0..(Depth - 1) : \A i \in Nat :
              NodeAt(u, l, i) = IF i = p[l].idx THEN IF l = 0 THEN Seen(value) ELSE p[l].node ELSE NodeAt(t, l, i)
    BY NodeUpdated
  <2> HIDE DEF p, u
  <2>2. p[0].node = Seen(value)
    BY <1>1 DEF Seen
  <2> QED
    BY <2>1, <2>2
<1> HIDE DEF p, u
<1>3. \A i \in Nat : NodeAt(u, 0, i) = IF i = index THEN value ELSE NodeAt(t, 0, i)
  <2>1. 0 \in 0..(Depth - 1)
    BY DepthPositive
  <2> QED
    BY <1>1, <1>2, <2>1
\* The children of a node on the path, and of one beside it.
<1>4. ASSUME NEW l \in 0..(Depth - 1)
      PROVE  /\ p[l + 1].idx \in Nat
             /\ p[l + 1].node = Hash(NodeAt(u, l, 2 * p[l + 1].idx), NodeAt(u, l, 2 * p[l + 1].idx + 1))
             /\ \A i \in Nat : i # p[l + 1].idx =>
                   /\ NodeAt(u, l, 2 * i) = NodeAt(t, l, 2 * i)
                   /\ NodeAt(u, l, 2 * i + 1) = NodeAt(t, l, 2 * i + 1)
  <2> DEFINE n == p[l].idx
             k == p[l + 1].idx
  <2>1. l \in 0..Depth /\ n \in Nat /\ p[l + 1] = Above(t, l, p[l])
    BY <1>1, DepthPositive
  <2>2. /\ k = n \div 2
        /\ p[l + 1].node = IF n % 2 = 0 THEN Hash(p[l].node, NodeAt(t, l, n + 1))
                                        ELSE Hash(NodeAt(t, l, n - 1), p[l].node)
    BY <2>1 DEF Above
  <2>3. /\ k \in Nat /\ (n % 2 = 0 => n = 2 * k) /\ (n % 2 # 0 => n = 2 * k + 1)
    BY <2>1, <2>2, Halving
  <2>4. \A i \in Nat : NodeAt(u, l, i) = IF i = n THEN p[l].node ELSE NodeAt(t, l, i)
    BY <1>2
  <2> HIDE DEF n, k
  <2>5. CASE n % 2 = 0
    <3>1. n = 2 * k /\ n \in Nat /\ n + 1 \in Nat /\ n + 1 # n /\ 2 * k + 1 = n + 1
      BY <2>1, <2>3, <2>5
    <3>2. NodeAt(u, l, 2 * k) = p[l].node /\ NodeAt(u, l, 2 * k + 1) = NodeAt(t, l, n + 1)
      BY <2>4, <3>1
    <3>3. \A i \in Nat : i # k => 2 * i \in Nat /\ 2 * i + 1 \in Nat /\ 2 * i # n /\ 2 * i + 1 # n
      BY <2>3, <3>1
    <3> QED
      BY <2>2, <2>3, <2>4, <2>5, <3>2, <3>3 DEF k
  <2>6. CASE n % 2 # 0
    <3>1. n = 2 * k + 1 /\ n \in Nat /\ n - 1 \in Nat /\ n - 1 # n /\ 2 * k = n - 1
      BY <2>1, <2>3, <2>6
    <3>2. NodeAt(u, l, 2 * k + 1) = p[l].node /\ NodeAt(u, l, 2 * k) = NodeAt(t, l, n - 1)
      BY <2>4, <3>1
    <3>3. \A i \in Nat : i # k => 2 * i \in Nat /\ 2 * i + 1 \in Nat /\ 2 * i # n /\ 2 * i + 1 # n
      BY <2>3, <3>1
    <3> QED
      BY <2>2, <2>3, <2>4, <2>6, <3>2, <3>3 DEF k
  <2> QED
    BY <2>5, <2>6
<1>5. ASSUME NEW l \in 1..(Depth - 1), NEW i \in Nat
      PROVE  NodeAt(u, l, i) = Hash(NodeAt(u, l - 1, 2 * i), NodeAt(u, l - 1, 2 * i + 1))
  <2>1. l - 1 \in 0..(Depth - 1) /\ l \in 0..(Depth - 1) /\ (l - 1) + 1 = l
    BY DepthPositive
  <2>2. NodeAt(u, l, i) = IF i = p[l].idx THEN p[l].node ELSE NodeAt(t, l, i)
    BY <1>2, <2>1
  <2>3. /\ p[l].node = Hash(NodeAt(u, l - 1, 2 * p[l].idx), NodeAt(u, l - 1, 2 * p[l].idx + 1))
        /\ i # p[l].idx => /\ NodeAt(u, l - 1, 2 * i) = NodeAt(t, l - 1, 2 * i)
                           /\ NodeAt(u, l - 1, 2 * i + 1) = NodeAt(t, l - 1, 2 * i + 1)
    BY <1>4, <2>1
  <2>4. NodeAt(t, l, i) = Hash(NodeAt(t, l - 1, 2 * i), NodeAt(t, l - 1, 2 * i + 1))
    BY DEF TreeSound
  <2> QED
    BY <2>2, <2>3, <2>4
<1>6. u.root = Hash(NodeAt(u, Depth - 1, 0), NodeAt(u, Depth - 1, 1))
  <2>1. Depth - 1 \in 0..(Depth - 1) /\ (Depth - 1) + 1 = Depth /\ Depth \in 0..Depth /\ Depth - Depth = 0
    BY DepthPositive
  <2>2. p[Depth].idx = 0
    <3>1. Width[0] = 1
      BY WidthDef, DepthPositive
    <3>2. p[Depth].idx \in Nat /\ p[Depth].idx < Width[0]
      BY <1>1, <2>1
    <3> QED
      BY <3>1, <3>2
  <2>3. p[Depth].node = Hash(NodeAt(u, Depth - 1, 2 * p[Depth].idx), NodeAt(u, Depth - 1, 2 * p[Depth].idx + 1))
    BY <1>4, <2>1
  <2> QED
    BY <1>2, <2>2, <2>3
<1> QED
  BY <1>3, <1>5, <1>6 DEF TreeSound, u

\* The root of a sound tree is that of the full tree over its leaves.
LEMMA SoundRoot ==
    ASSUME NEW t, TreeSound(t)
    PROVE  t.root = RootOf([i \in 0..(Width[Depth] - 1) |-> NodeAt(t, 0, i)])
<1> DEFINE leaf == [i \in 0..(Width[Depth] - 1) |-> NodeAt(t, 0, i)]
           s == Subtrees(leaf)
<1>1. s = [level \in 0..Depth |->
              [i \in 0..(Width[Depth - level] - 1) |->
                  IF level = 0 THEN leaf[i]
                  ELSE Hash(s[level - 1][2 * i], s[level - 1][2 * i + 1])]]
  BY SubtreesDef DEF Layers
<1> HIDE DEF s
<1>2. ASSUME NEW l \in 0..Depth, NEW i \in 0..(Width[Depth - l] - 1)
      PROVE  s[l][i] = IF l = 0 THEN leaf[i] ELSE Hash(s[l - 1][2 * i], s[l - 1][2 * i + 1])
  <2> DEFINE Row(k) == [j \in 0..(Width[Depth - k] - 1) |->
                           IF k = 0 THEN leaf[j] ELSE Hash(s[k - 1][2 * j], s[k - 1][2 * j + 1])]
  <2>1. s = [level \in 0..Depth |-> Row(level)]
    BY <1>1
  <2>2. Row(l)[i] = IF l = 0 THEN leaf[i] ELSE Hash(s[l - 1][2 * i], s[l - 1][2 * i + 1])
    OBVIOUS
  <2> HIDE DEF Row
  <2>3. s[l] = Row(l)
    BY <2>1
  <2> QED
    BY <2>2, <2>3
<1>3. ASSUME NEW l \in 0..(Depth - 1), NEW i \in 0..(Width[Depth - (l + 1)] - 1)
      PROVE  2 * i \in 0..(Width[Depth - l] - 1) /\ 2 * i + 1 \in 0..(Width[Depth - l] - 1)
  <2>1. Depth - l \in 0..Depth /\ Depth - l # 0 /\ (Depth - l) - 1 = Depth - (l + 1)
        /\ Depth - (l + 1) \in 0..Depth
    BY DepthPositive
  <2>2. Width[Depth - l] = 2 * Width[Depth - (l + 1)] /\ Width[Depth - (l + 1)] \in Nat
    BY <2>1, WidthDef, WidthType
  <2> QED
    BY <2>2
<1> DEFINE T == {l \in 0..Depth : l < Depth =>
                    \A i \in 0..(Width[Depth - l] - 1) : s[l][i] = NodeAt(t, l, i)}
<1>4. 0 \in T
  <2>1. 0 \in 0..Depth /\ Depth - 0 = Depth
    BY DepthPositive
  <2>2. \A i \in 0..(Width[Depth - 0] - 1) : s[0][i] = NodeAt(t, 0, i)
    BY <1>2, <2>1
  <2> QED
    BY <2>1, <2>2
<1>5. ASSUME NEW l \in 0..(Depth - 1), l \in T PROVE l + 1 \in T
  <2>1. l + 1 \in 0..Depth /\ l < Depth /\ l + 1 # 0 /\ (l + 1) - 1 = l
    BY DepthPositive
  <2>2. ASSUME l + 1 < Depth, NEW i \in 0..(Width[Depth - (l + 1)] - 1)
        PROVE  s[l + 1][i] = NodeAt(t, l + 1, i)
    <3>1. s[l + 1][i] = Hash(s[l][2 * i], s[l][2 * i + 1])
      BY <1>2, <2>1
    <3>2. s[l][2 * i] = NodeAt(t, l, 2 * i) /\ s[l][2 * i + 1] = NodeAt(t, l, 2 * i + 1)
      BY <1>3, <1>5, <2>1
    <3>3. l + 1 \in 1..(Depth - 1) /\ i \in Nat
      BY <2>1, <2>2, DepthPositive
    <3>4. NodeAt(t, l + 1, i) = Hash(NodeAt(t, (l + 1) - 1, 2 * i), NodeAt(t, (l + 1) - 1, 2 * i + 1))
      BY <3>3 DEF TreeSound
    <3> QED
      BY <2>1, <3>1, <3>2, <3>4
  <2> QED
    BY <2>1, <2>2
<1>6. \A l \in 0..Depth : l \in T
  <2> HIDE DEF T
  <2> QED BY <1>4, <1>5, LevelInduction
<1>7. /\ Depth - 1 \in 0..(Depth - 1) /\ (Depth - 1) + 1 = Depth /\ Depth \in 0..Depth /\ Depth - Depth = 0
      /\ Depth - 1 \in 0..Depth /\ Depth - 1 < Depth /\ Depth # 0
  BY DepthPositive
<1>8. 0 \in 0..(Width[Depth - Depth] - 1)
  BY <1>7, WidthDef
<1>9. s[Depth][0] = Hash(s[Depth - 1][2 * 0], s[Depth - 1][2 * 0 + 1])
  BY <1>2, <1>7, <1>8
<1>10. 2 * 0 \in 0..(Width[Depth - (Depth - 1)] - 1) /\ 2 * 0 + 1 \in 0..(Width[Depth - (Depth - 1)] - 1)
  BY <1>3, <1>7, <1>8
<1>11. s[Depth - 1][0] = NodeAt(t, Depth - 1, 0) /\ s[Depth - 1][1] = NodeAt(t, Depth - 1, 1)
  BY <1>6, <1>7, <1>10
<1> QED
  BY <1>9, <1>11 DEF RootOf, TreeSound, s

-----------------------------------------------------------------------------
(* The tree of StakedReputationSet.                                        *)

\* Members have a tier of the table; as long as the word 0 is no member the tree
\* t is sound and its leaves are those of the storage s.
Rooted(s, t) ==
    /\ \A c \in Commitments : s.members[c].bond # 0 => s.members[c].limit \in Tiers
    /\ (\A c \in Commitments : s.members[c].bond # 0 => c # Blank) =>
          /\ TreeSound(t)
          /\ \A i \in Nat : NodeAt(t, 0, i) = IF i \in Slots THEN s.leaf[i] ELSE Zero

RootedInv ==
    /\ \E T : trees \in Seq(T) /\ tree \in T
    /\ Len(trees) = Len(stack)
    /\ Rooted(st, tree)
    /\ \A i \in 1..Len(stack) : Rooted(stack[i], trees[i])

\* The constants of the tree.
LEMMA TreeFacts ==
    /\ Blank # Zero /\ Tiers \subseteq Nat \ {0} /\ TierOf \in [Commitments -> Nat]
    /\ \A c \in Commitments : TierOf[c] \in Tiers => c # Blank
    /\ Capacity \in Nat /\ Width[Depth] \in Nat /\ Capacity <= Width[Depth]
<1>1. Width[Depth] \in Nat
  BY WidthType, DepthPositive
<1>2. Capacity \in Nat /\ Capacity <= Width[Depth] /\ CommitmentFacts /\ Tiers \subseteq Nat \ {0}
  BY SetAssumption
<1> QED
  BY <1>1, <1>2 DEF CommitmentFacts

\* A leaf that is given a value, in the storage and in the tree.
LEMMA LeafRooted ==
    ASSUME NEW s \in State, NEW t, TreeSound(t),
           \A i \in Nat : NodeAt(t, 0, i) = IF i \in Slots THEN s.leaf[i] ELSE Zero,
           NEW n \in Slots, NEW value, value # Blank
    PROVE  LET u == UpdateLeaf(t, n, value) IN
           /\ TreeSound(u)
           /\ \A i \in Nat : NodeAt(u, 0, i) = IF i \in Slots THEN [s.leaf EXCEPT ![n] = value][i] ELSE Zero
<1>1. n \in Nat /\ n < Width[Depth]
  BY TreeFacts DEF Slots
<1>2. s.leaf \in [Slots -> Commitments \cup {Zero}]
  BY DEF State
<1>3. /\ TreeSound(UpdateLeaf(t, n, value))
      /\ \A i \in Nat : NodeAt(UpdateLeaf(t, n, value), 0, i) = IF i = n THEN value ELSE NodeAt(t, 0, i)
  BY <1>1, UpdateSound
<1> QED
  BY <1>1, <1>2, <1>3

\* register() appends to both.
LEMMA RegisterRooted ==
    ASSUME IInv, Rooted(st, tree), NEW c \in Commitments, NEW l \in Tiers, Register(c, l)
    PROVE  Rooted(st', tree')
<1>1. /\ st \in State /\ st.members \in [Commitments -> Member] /\ st.leaf \in [Slots -> Commitments \cup {Zero}]
      /\ st.nextIndex \in Nat /\ st.nextIndex \in Slots
  BY TreeFacts DEF IInv, Good, State, Register, Slots
<1>2. /\ st'.members = [st.members EXCEPT ![c] = [bond |-> BondOf[l], index |-> st.nextIndex, exitInitiatedAt |-> 0, limit |-> l]]
      /\ st'.leaf = [st.leaf EXCEPT ![st.nextIndex] = c]
      /\ tree' = UpdateLeaf(tree, st.nextIndex, c)
      /\ BondOf[l] # 0
  BY <1>1, SetAssumption DEF Register, State
<1>3. /\ st'.members[c].bond # 0 /\ st'.members[c].limit = l
      /\ \A d \in Commitments \ {c} : st'.members[d] = st.members[d]
  BY <1>1, <1>2
<1>4. \A d \in Commitments : st'.members[d].bond # 0 => st'.members[d].limit \in Tiers
  BY <1>3 DEF Rooted
<1>5. ASSUME \A d \in Commitments : st'.members[d].bond # 0 => d # Blank
      PROVE  /\ TreeSound(tree')
             /\ \A i \in Nat : NodeAt(tree', 0, i) = IF i \in Slots THEN st'.leaf[i] ELSE Zero
  <2>1. c # Blank /\ \A d \in Commitments : st.members[d].bond # 0 => d # Blank
    BY <1>3, <1>5
  <2> QED
    BY <1>1, <1>2, <2>1, LeafRooted DEF Rooted
<1> QED
  BY <1>4, <1>5 DEF Rooted

\* A member that leaves the tree, or leaves for good.
LEMMA LeavingRooted ==
    ASSUME IInv, Rooted(st, tree), NEW c \in Commitments, NEW m \in Member,
           Exists(c), LeafMatches(c),
           st'.members = [st.members EXCEPT ![c] = m], m.limit = st.members[c].limit \/ m.bond = 0,
           \/ UNCHANGED tree /\ st'.leaf = st.leaf
           \/ /\ tree' = UpdateLeaf(tree, st.members[c].index, Zero)
              /\ st'.leaf = [st.leaf EXCEPT ![st.members[c].index] = Zero]
    PROVE  Rooted(st', tree')
<1>1. /\ st \in State /\ st.members \in [Commitments -> Member] /\ st.leaf \in [Slots -> Commitments \cup {Zero}]
      /\ st.nextIndex \in Nat /\ st.nextIndex <= Capacity
      /\ st.members[c].index < st.nextIndex
  BY TreeFacts DEF IInv, Good, State, IndexUsed, Exists
<1>2. st.members[c].index \in Slots
  <2>1. st.members[c] \in Member
    BY <1>1
  <2>2. st.members[c].index \in Nat
    BY <2>1 DEF Member
  <2> QED
    BY <1>1, <2>2, TreeFacts DEF Slots
<1>3. c # Blank /\ st.members[c].limit \in Tiers
  BY TreeFacts DEF Rooted, Exists, LeafMatches
<1>4. st'.members[c] = m /\ \A d \in Commitments \ {c} : st'.members[d] = st.members[d]
  BY <1>1
<1>5. \A d \in Commitments : st'.members[d].bond # 0 => st'.members[d].limit \in Tiers
  BY <1>3, <1>4 DEF Rooted
<1>6. ASSUME \A d \in Commitments : st'.members[d].bond # 0 => d # Blank
      PROVE  /\ TreeSound(tree')
             /\ \A i \in Nat : NodeAt(tree', 0, i) = IF i \in Slots THEN st'.leaf[i] ELSE Zero
  <2>1. \A d \in Commitments : st.members[d].bond # 0 => d # Blank
    BY <1>3, <1>4, <1>6
  <2>2. /\ TreeSound(tree)
        /\ \A i \in Nat : NodeAt(tree, 0, i) = IF i \in Slots THEN st.leaf[i] ELSE Zero
    BY <2>1 DEF Rooted
  <2>3. CASE UNCHANGED tree /\ st'.leaf = st.leaf
    BY <2>2, <2>3
  <2>4. CASE /\ tree' = UpdateLeaf(tree, st.members[c].index, Zero)
             /\ st'.leaf = [st.leaf EXCEPT ![st.members[c].index] = Zero]
    BY <1>1, <1>2, <2>2, <2>4, LeafRooted, TreeFacts
  <2> QED
    BY <2>3, <2>4
<1> QED
  BY <1>5, <1>6 DEF Rooted

\* The tree is sound at deployment.
LEMMA InitRooted == Init => RootedInv
<1> SUFFICES ASSUME Init PROVE RootedInv
  OBVIOUS
<1>1. tree = EmptyTree /\ stack = << >> /\ trees = << >>
  BY DEF Init
<1>2. trees \in Seq({tree}) /\ Len(trees) = 0 /\ Len(stack) = 0
  BY <1>1
<1>3. \A c \in Commitments : st.members[c].bond = 0
  <2> SUFFICES ASSUME NEW c \in Commitments PROVE st.members[c].bond = 0
    OBVIOUS
  <2>1. st.members[c] = NoMember
    BY DEF Init
  <2> QED
    BY <2>1 DEF NoMember
<1>4. \A i \in Nat : NodeAt(tree, 0, i) = Zero
  <2>1. Zeroes[0] = Zero
    BY ZeroesDef, DepthPositive
  <2> QED
    BY <1>1, <2>1 DEF NodeAt, Written, EmptyTree
<1>5. \A i \in Slots : st.leaf[i] = Zero
  BY DEF Init
<1>6. Rooted(st, tree)
  BY <1>1, <1>3, <1>4, <1>5, EmptySound DEF Rooted
<1>7. \E T : trees \in Seq(T) /\ tree \in T
  <2>1. tree \in {tree}
    OBVIOUS
  <2> QED
    BY <1>2, <2>1, Zenon
<1>8. \A i \in 1..Len(stack) : Rooted(stack[i], trees[i])
  BY <1>2
<1> QED
  BY <1>2, <1>6, <1>7, <1>8 DEF RootedInv

\* No step leaves a stale node: a payout that reverts brings back the tree that
\* went with the storage.
LEMMA NextRooted ==
    ASSUME IInv, RootedInv, [Next]_vars
    PROVE  RootedInv'
<1> DEFINE L == Len(stack)
<1>1. PICK T : trees \in Seq(T) /\ tree \in T
  BY DEF RootedInv
<1>2. /\ stack \in Seq(State) /\ L \in Nat /\ Len(trees) = L /\ Rooted(st, tree)
      /\ \A i \in 1..L : Rooted(stack[i], trees[i])
      /\ st.members \in [Commitments -> Member] /\ st \in State
  BY DEF IInv, Good, RootedInv, State
<1>3. trees \in Seq(T \cup {tree'}) /\ tree \in T \cup {tree'} /\ tree' \in T \cup {tree'}
  <2>1. \A i \in 1..Len(trees) : trees[i] \in T \cup {tree'}
    BY <1>1
  <2>2. trees = [i \in 1..Len(trees) |-> trees[i]]
    BY <1>1
  <2> QED
    BY <1>1, <1>2, <2>1, <2>2
<1>4. CASE UNCHANGED <<stack, trees>> /\ Rooted(st', tree')
  BY <1>2, <1>3, <1>4 DEF RootedInv
<1>5. CASE Pay /\ Rooted(st', tree')
  <2>1. stack' = Append(stack, st) /\ trees' = Append(trees, tree)
    BY <1>5 DEF Pay
  <2>2. /\ Len(stack') = L + 1 /\ \A i \in 1..(L + 1) : stack'[i] = IF i = L + 1 THEN st ELSE stack[i]
    BY <1>2, <2>1
  <2>3. /\ Len(trees') = L + 1 /\ \A i \in 1..(L + 1) : trees'[i] = IF i = L + 1 THEN tree ELSE trees[i]
        /\ trees' \in Seq(T \cup {tree'})
    BY <1>2, <1>3, <2>1
  <2>4. ASSUME NEW i \in 1..(L + 1) PROVE Rooted(stack'[i], trees'[i])
    BY <1>2, <2>2, <2>3
  <2> QED
    BY <1>3, <1>5, <2>2, <2>3, <2>4 DEF RootedInv
<1>6. CASE PayoutReturns \/ PayoutReverts
  <2>1. L \in Nat \ {0} /\ L - 1 \in Nat /\ L = (L - 1) + 1
    BY <1>2, <1>6 DEF PayoutReturns, PayoutReverts
  <2>2. stack' = SubSeq(stack, 1, L - 1) /\ trees' = SubSeq(trees, 1, L - 1)
    BY <1>2, <1>6 DEF PayoutReturns, PayoutReverts, Pop, Popped
  <2>3. Len(stack') = L - 1 /\ \A i \in 1..(L - 1) : stack'[i] = stack[i]
    BY <1>2, <2>1, <2>2, PrefixOf
  <2>4. /\ Len(trees') = L - 1 /\ \A i \in 1..(L - 1) : trees'[i] = trees[i]
        /\ trees' \in Seq(T)
    BY <1>1, <1>2, <2>1, <2>2
  <2>5. Rooted(st', tree') /\ tree' \in T
    <3>1. trees[L] \in T
      BY <1>1, <1>2, <2>1
    <3> QED
      BY <1>1, <1>2, <1>6, <2>1, <3>1 DEF PayoutReturns, PayoutReverts
  <2> QED
    BY <1>2, <2>1, <2>3, <2>4, <2>5 DEF RootedInv
<1>7. ASSUME NEW c \in Commitments, NEW l \in Tiers, Register(c, l) PROVE RootedInv'
  <2>1. Rooted(st', tree')
    BY <1>2, <1>7, RegisterRooted
  <2>2. UNCHANGED <<stack, trees>>
    BY <1>7 DEF Register
  <2> QED
    BY <1>4, <2>1, <2>2
<1>8. ASSUME NEW c \in Commitments, InitiateExit(c) PROVE RootedInv'
  <2> DEFINE m == [st.members[c] EXCEPT !.exitInitiatedAt = now]
  <2>1. m \in Member /\ m.limit = st.members[c].limit
    BY <1>2 DEF Member, IInv
  <2>2. /\ st'.members = [st.members EXCEPT ![c] = m]
        /\ st'.leaf = [st.leaf EXCEPT ![st.members[c].index] = Zero]
        /\ tree' = UpdateLeaf(tree, st.members[c].index, Zero)
        /\ Exists(c) /\ LeafMatches(c) /\ UNCHANGED <<stack, trees>>
    BY <1>2, <1>8 DEF InitiateExit, State
  <2> HIDE DEF m
  <2> QED
    BY <1>2, <1>4, <2>1, <2>2, LeavingRooted
<1>9. ASSUME NEW c \in Commitments, Withdraw(c) \/ Slash(c) PROVE RootedInv'
  <2>1. NoMember \in Member /\ NoMember.bond = 0
    BY DEF NoMember, Member
  <2>2. /\ st'.members = [st.members EXCEPT ![c] = NoMember]
        /\ Exists(c) /\ LeafMatches(c) /\ Pay
        /\ \/ UNCHANGED tree /\ st'.leaf = st.leaf
           \/ /\ tree' = UpdateLeaf(tree, st.members[c].index, Zero)
              /\ st'.leaf = [st.leaf EXCEPT ![st.members[c].index] = Zero]
    BY <1>2, <1>9 DEF Withdraw, Slash, State
  <2> QED
    BY <1>2, <1>5, <2>1, <2>2, LeavingRooted
<1>10. CASE Tick \/ UNCHANGED vars
  BY <1>2, <1>4, <1>10 DEF Tick, vars
<1> QED
  BY <1>6, <1>7, <1>8, <1>9, <1>10 DEF Next

\* RootedInv holds in every reachable state.
THEOREM RootedInvariant == Spec => []RootedInv
<1>1. Init => RootedInv
  BY InitRooted
<1>2. IInv /\ RootedInv /\ [Next]_vars => RootedInv'
  BY NextRooted
<1> QED
  BY <1>1, <1>2, Invariant, PTL DEF Spec

\* However payouts reenter and revert, a gateway that replays the logged events with
\* reconstructGroup() has the leaves, the size and the live members of the contract;
\* and its root is the one the contract keeps in storage, unless the word 0 is a member.
THEOREM ReplayIsExact == Spec => []TreeIsReplay
<1>1. ASSUME BookedInv, RootedInv PROVE TreeIsReplay
  <2> DEFINE g == reconstructGroup(st.log)
  <2>1. g.leaf = st.leaf /\ g.size = st.nextIndex /\ g.active = st.activeCount
    BY <1>1 DEF BookedInv, Booked, Replayed, Image
  <2> HIDE DEF g
  <2>2. ASSUME \A c \in Commitments : Exists(c) => c # Blank PROVE tree.root = RootOfGroup(g)
    <3>1. TreeSound(tree) /\ \A i \in Nat : NodeAt(tree, 0, i) = IF i \in Slots THEN g.leaf[i] ELSE Zero
      BY <1>1, <2>1, <2>2 DEF RootedInv, Rooted, Exists
    <3>2. [i \in 0..(Width[Depth] - 1) |-> NodeAt(tree, 0, i)]
            = [i \in 0..(Width[Depth] - 1) |-> IF i \in Slots THEN g.leaf[i] ELSE Zero]
      BY <3>1, TreeFacts
    <3> QED
      BY <3>1, <3>2, SoundRoot DEF RootOfGroup
  <2> QED
    BY <2>1, <2>2 DEF TreeIsReplay, g
<1> QED
  BY <1>1, BookedInvariant, RootedInvariant, PTL

-----------------------------------------------------------------------------
(* The contract of the paid set.                                           *)

LeafOf(S, i) == NodeAt(S.tree, 0, i)

\* The leaves of the tree in the storage S are the live commitments, each at its own
\* index below nextIndex, and liveCount of them; the tree is sound as long as the
\* word 0 is none of them, whose slot a sibling takes for an empty one.
PaidGood(S) ==
    /\ DOMAIN S = {"leaves", "nextIndex", "liveCount", "tree", "operator", "pendingOperator"}
    /\ S.leaves \in [Commitments -> [index : Nat, limit : Nat]]
    /\ S.nextIndex \in 0..PaidCapacity
    /\ Blank \notin LiveSet(S) => TreeSound(S.tree)
    /\ \A i \in Nat : i >= S.nextIndex => LeafOf(S, i) = Zero
    /\ \A c \in LiveSet(S) :
          /\ S.leaves[c].index < S.nextIndex
          /\ c # Blank => LeafOf(S, S.leaves[c].index) = c
    /\ \A i \in Nat : LeafOf(S, i) # Zero =>
          LeafOf(S, i) \in LiveSet(S) /\ S.leaves[LeafOf(S, i)].index = i
    /\ IsFiniteSet(LiveSet(S)) /\ S.liveCount = Cardinality(LiveSet(S))

\* What a transaction may make of the tree: no slot is reused.
PaidGrown(S, T) ==
    /\ S.nextIndex <= T.nextIndex
    /\ \A i \in Nat : i < S.nextIndex => LeafOf(T, i) \in {LeafOf(S, i), Zero}

\* Growth composes.
LEMMA PaidGrownTransitive ==
    ASSUME NEW S, NEW T, NEW U, S.nextIndex \in Nat, T.nextIndex \in Nat, U.nextIndex \in Nat,
           PaidGrown(S, T), PaidGrown(T, U)
    PROVE  PaidGrown(S, U)
<1>1. S.nextIndex <= U.nextIndex
  BY DEF PaidGrown
<1>2. ASSUME NEW i \in Nat, i < S.nextIndex PROVE LeafOf(U, i) \in {LeafOf(S, i), Zero}
  <2>1. i < T.nextIndex
    BY <1>2 DEF PaidGrown
  <2>2. LeafOf(T, i) \in {LeafOf(S, i), Zero} /\ LeafOf(U, i) \in {LeafOf(T, i), Zero}
    BY <1>2, <2>1 DEF PaidGrown
  <2> QED
    BY <2>2
<1> QED
  BY <1>1, <1>2 DEF PaidGrown

\* The constants of the paid set.
LEMMA PaidFacts ==
    /\ Blank # Zero /\ Tiers \subseteq Nat \ {0}
    /\ \A c \in Commitments : TierOf[c] \in Tiers => c # Blank
    /\ PaidCapacity \in Nat /\ Width[Depth] \in Nat /\ PaidCapacity <= Width[Depth]
    /\ Batches \subseteq Seq([c : Commitments, limit : Nat])
<1>1. Width[Depth] \in Nat
  BY WidthType, DepthPositive
<1>2. PaidCapacity \in 0..Width[Depth]
  BY PaidAssumption
<1>3. PaidCapacity \in Nat /\ PaidCapacity <= Width[Depth]
  <2> HIDE DEF Width
  <2> QED
    BY <1>1, <1>2
<1>4. Blank # Zero /\ Tiers \subseteq Nat \ {0} /\ \A c \in Commitments : TierOf[c] \in Tiers => c # Blank
  BY PaidAssumption DEF PaidConstants, CommitmentFacts
<1>5. Batches \subseteq Seq([c : Commitments, limit : Nat])
  BY PaidAssumption
<1> QED
  BY <1>1, <1>3, <1>4, <1>5

\* insert() puts a leaf at the next index.
LEMMA InsertedGood ==
    ASSUME NEW S, PaidGood(S), NEW c \in Commitments, NEW l \in Tiers, ~Live(S, c),
           S.nextIndex < PaidCapacity
    PROVE  LET T == Inserted(S, c, l) IN
           /\ PaidGood(T) /\ PaidGrown(S, T)
           /\ T.nextIndex = S.nextIndex + 1 /\ T.operator = S.operator
           /\ \A d \in Commitments : Live(T, d) <=> d = c \/ Live(S, d)
<1> DEFINE T == Inserted(S, c, l)
           n == S.nextIndex
<1>0. n \in Nat /\ l \in Nat /\ l # 0 /\ n < Width[Depth] /\ n + 1 \in 0..PaidCapacity
  BY PaidFacts DEF PaidGood
<1>1. /\ DOMAIN T = DOMAIN S
      /\ T.leaves = [S.leaves EXCEPT ![c] = [index |-> n, limit |-> l]]
      /\ T.nextIndex = n + 1 /\ T.liveCount = S.liveCount + 1
      /\ T.tree = UpdateLeaf(S.tree, n, c)
      /\ T.operator = S.operator
  BY DEF Inserted, PaidGood
<1> HIDE DEF T
<1>2. \A i \in Nat : LeafOf(T, i) = IF i = n THEN Seen(c) ELSE LeafOf(S, i)
  BY <1>0, <1>1, LeafUpdated DEF LeafOf
<1>3. /\ T.leaves \in [Commitments -> [index : Nat, limit : Nat]]
      /\ T.leaves[c] = [index |-> n, limit |-> l]
      /\ \A d \in Commitments : d # c => T.leaves[d] = S.leaves[d]
  BY <1>0, <1>1 DEF PaidGood
<1>4. \A d \in Commitments : Live(T, d) <=> d = c \/ Live(S, d)
  <2>1. LimitOf(T, c) = l
    BY <1>3 DEF LimitOf
  <2>2. \A d \in Commitments : d # c => LimitOf(T, d) = LimitOf(S, d)
    BY <1>3 DEF LimitOf
  <2>3. Live(T, c)
    BY <1>0, <2>1 DEF Live
  <2> QED
    BY <2>2, <2>3, Zenon DEF Live
<1>5. LiveSet(T) = LiveSet(S) \cup {c} /\ c \notin LiveSet(S)
  BY <1>4 DEF LiveSet
<1>6. IsFiniteSet(LiveSet(T)) /\ T.liveCount = Cardinality(LiveSet(T))
  BY <1>1, <1>5, FS_AddElement DEF PaidGood
<1>7. Blank \notin LiveSet(T) => TreeSound(T.tree)
  BY <1>0, <1>1, <1>5, UpdateSound DEF PaidGood
<1>8. ASSUME NEW i \in Nat, i >= T.nextIndex PROVE LeafOf(T, i) = Zero
  <2>1. i # n /\ i >= n
    BY <1>0, <1>1, <1>8
  <2> QED
    BY <1>2, <2>1 DEF PaidGood
<1>9. ASSUME NEW d \in LiveSet(T)
      PROVE  T.leaves[d].index < T.nextIndex /\ (d # Blank => LeafOf(T, T.leaves[d].index) = d)
  <2>1. CASE d = c
    BY <1>0, <1>1, <1>2, <1>3, <2>1 DEF Seen
  <2>2. CASE d # c
    <3>1. d \in LiveSet(S) /\ T.leaves[d] = S.leaves[d] /\ S.leaves[d].index \in Nat
      BY <1>3, <1>5, <2>2 DEF PaidGood, LiveSet
    <3>2. S.leaves[d].index < n /\ (d # Blank => LeafOf(S, S.leaves[d].index) = d)
      BY <3>1 DEF PaidGood
    <3> QED
      BY <1>0, <1>1, <1>2, <3>1, <3>2
  <2> QED
    BY <2>1, <2>2
<1>10. ASSUME NEW i \in Nat, LeafOf(T, i) # Zero
       PROVE  LeafOf(T, i) \in LiveSet(T) /\ T.leaves[LeafOf(T, i)].index = i
  <2>1. CASE i = n
    <3>1. LeafOf(T, i) = c
      BY <1>2, <1>10, <2>1 DEF Seen
    <3> QED
      BY <1>3, <1>5, <2>1, <3>1
  <2>2. CASE i # n
    <3>1. LeafOf(T, i) = LeafOf(S, i)
      BY <1>2, <2>2
    <3>2. LeafOf(S, i) \in LiveSet(S) /\ S.leaves[LeafOf(S, i)].index = i
      BY <1>10, <3>1 DEF PaidGood
    <3>3. LeafOf(S, i) # c /\ LeafOf(S, i) \in Commitments
      BY <1>5, <3>2 DEF LiveSet
    <3> QED
      BY <1>3, <1>5, <3>1, <3>2, <3>3
  <2> QED
    BY <2>1, <2>2
<1>11. PaidGood(T)
  BY <1>0, <1>1, <1>3, <1>6, <1>7, <1>8, <1>9, <1>10 DEF PaidGood
<1>12. PaidGrown(S, T)
  BY <1>0, <1>1, <1>2 DEF PaidGrown
<1> QED
  BY <1>1, <1>4, <1>11, <1>12 DEF T

\* slash() empties the slot of the leaf and reuses nothing.
LEMMA SlashedGood ==
    ASSUME NEW S, PaidGood(S), NEW c \in LiveSet(S), c # Blank
    PROVE  PaidGood(Slashed(S, c)) /\ PaidGrown(S, Slashed(S, c))
<1> DEFINE T == Slashed(S, c)
           n == S.leaves[c].index
<1>0. /\ c \in Commitments /\ n \in Nat /\ n < Width[Depth]
      /\ S.nextIndex \in Nat /\ LeafOf(S, n) = c /\ n < S.nextIndex
  BY PaidFacts DEF PaidGood, LiveSet
<1>1. /\ DOMAIN T = DOMAIN S
      /\ T.leaves = [S.leaves EXCEPT ![c] = NoLeaf]
      /\ T.nextIndex = S.nextIndex /\ T.liveCount = S.liveCount - 1
      /\ T.tree = UpdateLeaf(S.tree, n, Zero)
  BY DEF Slashed, PaidGood
<1> HIDE DEF T, n
<1>2. \A i \in Nat : LeafOf(T, i) = IF i = n THEN Zero ELSE LeafOf(S, i)
  BY <1>0, <1>1, LeafUpdated, PaidFacts DEF LeafOf, Seen
<1>3. /\ T.leaves \in [Commitments -> [index : Nat, limit : Nat]]
      /\ T.leaves[c] = NoLeaf
      /\ \A d \in Commitments : d # c => T.leaves[d] = S.leaves[d]
  BY <1>0, <1>1 DEF PaidGood, NoLeaf
<1>4. \A d \in Commitments : Live(T, d) <=> d # c /\ Live(S, d)
  <2>1. LimitOf(T, c) = 0
    BY <1>3 DEF LimitOf, NoLeaf
  <2>2. \A d \in Commitments : d # c => LimitOf(T, d) = LimitOf(S, d)
    BY <1>3 DEF LimitOf
  <2> QED
    BY <2>1, <2>2, Zenon DEF Live
<1>5. LiveSet(T) = LiveSet(S) \ {c} /\ c \in LiveSet(S)
  BY <1>4 DEF LiveSet
<1>6. IsFiniteSet(LiveSet(T)) /\ T.liveCount = Cardinality(LiveSet(T))
  BY <1>1, <1>5, FS_RemoveElement DEF PaidGood
<1>7. Blank \notin LiveSet(T) => TreeSound(T.tree)
  BY <1>0, <1>1, <1>5, UpdateSound, PaidFacts DEF PaidGood
<1>8. \A i \in Nat : i >= T.nextIndex => LeafOf(T, i) = Zero
  BY <1>1, <1>2 DEF PaidGood
<1>9. ASSUME NEW d \in LiveSet(T)
      PROVE  T.leaves[d].index < T.nextIndex /\ (d # Blank => LeafOf(T, T.leaves[d].index) = d)
  <2>1. d # c /\ d \in LiveSet(S) /\ T.leaves[d] = S.leaves[d] /\ S.leaves[d].index \in Nat
    BY <1>3, <1>5 DEF PaidGood, LiveSet
  <2>2. S.leaves[d].index < S.nextIndex /\ (d # Blank => LeafOf(S, S.leaves[d].index) = d)
    BY <2>1 DEF PaidGood
  <2> QED
    BY <1>0, <1>1, <1>2, <2>1, <2>2
<1>10. ASSUME NEW i \in Nat, LeafOf(T, i) # Zero
       PROVE  LeafOf(T, i) \in LiveSet(T) /\ T.leaves[LeafOf(T, i)].index = i
  <2>1. i # n /\ LeafOf(T, i) = LeafOf(S, i)
    BY <1>2, <1>10
  <2>2. LeafOf(S, i) \in LiveSet(S) /\ S.leaves[LeafOf(S, i)].index = i
    BY <1>10, <2>1 DEF PaidGood
  <2>3. LeafOf(S, i) # c /\ LeafOf(S, i) \in Commitments
    BY <2>1, <2>2 DEF n, LiveSet
  <2> QED
    BY <1>3, <1>5, <2>1, <2>2, <2>3
<1>11. PaidGood(T)
  BY <1>1, <1>3, <1>6, <1>7, <1>8, <1>9, <1>10 DEF PaidGood
<1>12. PaidGrown(S, T)
  BY <1>0, <1>1, <1>2 DEF PaidGrown
<1> QED
  BY <1>11, <1>12 DEF T

\* insertBatch(), leaf by leaf.
InsertOne(b, T) == Inserted(T, b.c, b.limit)

Round == INSTANCE FoldTheory WITH op <- InsertOne, base <- paid, choose <- Max

\* insertBatch() is as good as its inserts one by one, for batches of any length.
LEMMA BatchGood ==
    ASSUME PaidGood(paid), NEW a, NEW batch \in Batches, CanInsertBatch(paid, a, batch),
           paid.nextIndex + Len(batch) <= PaidCapacity
    PROVE  PaidGood(InsertedBatch(paid, batch)) /\ PaidGrown(paid, InsertedBatch(paid, batch))
<1> DEFINE E == [c : Commitments, limit : Nat]
           n == Len(batch)
           Some(k) == [i \in 1..k |-> batch[i]]
           After(k) == Round!Fold(Some(k), DOMAIN Some(k))
           Fine(k) == /\ PaidGood(After(k)) /\ PaidGrown(paid, After(k))
                      /\ After(k).nextIndex = paid.nextIndex + k
                      /\ \A i \in 1..n : Live(After(k), batch[i].c) <=> i <= k
<1>1. /\ batch \in Seq(E) /\ n \in Nat /\ DOMAIN batch = 1..n /\ paid.nextIndex \in Nat
      /\ \A i \in 1..n : batch[i].c \in Commitments /\ batch[i].limit \in Tiers /\ ~Live(paid, batch[i].c)
      /\ \A i, j \in 1..n : batch[i].c = batch[j].c => i = j
  <2>1. batch \in Seq(E)
    BY PaidFacts
  <2>2. n \in Nat /\ DOMAIN batch = 1..n /\ \A i \in 1..n : batch[i] \in E
    <3> HIDE DEF E
    <3> QED
      BY <2>1
  <2>3. \A i \in 1..n : batch[i].c \in Commitments
    BY <2>2
  <2>4. \A i \in 1..n : batch[i].limit \in Tiers /\ ~Live(paid, batch[i].c)
    <3> HIDE DEF E, n
    <3> QED
      BY <2>2 DEF CanInsertBatch, CanInsert
  <2>5. \A i, j \in 1..n : batch[i].c = batch[j].c => i = j
    <3> HIDE DEF E, n
    <3> QED
      BY <2>2 DEF CanInsertBatch
  <2>6. paid.nextIndex \in Nat
    BY PaidFacts DEF PaidGood
  <2> HIDE DEF E, n
  <2> QED
    BY <2>1, <2>2, <2>3, <2>4, <2>5, <2>6
<1>2. Round!ChoosesLast
  BY DEF Round!ChoosesLast, Round!Max, Max
<1>3. InsertedBatch(paid, batch) = Round!Fold(batch, DOMAIN batch)
  BY DEF InsertedBatch, FoldLeft, MapThenFoldSet, Round!Fold, Round!MapThenFoldSet, InsertOne
<1>4. Some(n) = batch
  BY <1>1
<1> DEFINE T == {k \in Nat : k <= n => Fine(k)}
<1>5. 0 \in T
  <2>1. Some(0) = << >>
    OBVIOUS
  <2>2. After(0) = paid
    BY <1>2, <2>1, Round!FoldNone
  <2>3. PaidGrown(paid, paid)
    BY <1>1 DEF PaidGrown
  <2>4. paid.nextIndex + 0 = paid.nextIndex /\ \A i \in 1..n : ~(i <= 0)
    BY <1>1
  <2> HIDE DEF After
  <2> QED
    BY <1>1, <2>2, <2>3, <2>4
<1>6. ASSUME NEW k \in Nat, k \in T PROVE k + 1 \in T
  <2> SUFFICES ASSUME k + 1 <= n PROVE Fine(k + 1)
    OBVIOUS
  <2> DEFINE b == batch[k + 1]
             S == After(k)
             R == After(k + 1)
  <2>1. k + 1 \in 1..n /\ k <= n /\ Some(k) \in Seq(E) /\ b \in E /\ Some(k + 1) = Append(Some(k), b)
    <3>1. k + 1 \in 1..n /\ k <= n
      BY <1>1
    <3>2. Some(k) \in Seq(E) /\ b \in E /\ Len(Some(k)) = k
      <4> HIDE DEF E
      <4>1. \A i \in 1..n : batch[i] \in E
        BY <1>1
      <4>2. \A i \in 1..k : batch[i] \in E
        BY <1>1, <3>1, <4>1
      <4>3. Some(k) \in Seq(E) /\ Len(Some(k)) = k
        BY <4>2
      <4> QED
        BY <3>1, <4>1, <4>3
    <3>3. Some(k + 1) = Append(Some(k), b)
      BY <3>1, <3>2
    <3> QED
      BY <3>1, <3>2, <3>3
  <2>2. R = Inserted(S, b.c, b.limit)
    <3> HIDE DEF Some, b, E
    <3>1. Round!Fold(Append(Some(k), b), DOMAIN Append(Some(k), b)) = InsertOne(b, Round!Fold(Some(k), DOMAIN Some(k)))
      BY <1>2, <2>1, Round!FoldAppend
    <3> QED
      BY <2>1, <3>1 DEF InsertOne
  <2>3. Fine(k)
    BY <1>6, <2>1
  <2> HIDE DEF After, Some
  <2>4. S.nextIndex < PaidCapacity /\ ~Live(S, b.c) /\ b.c \in Commitments /\ b.limit \in Tiers
    <3>1. S.nextIndex = paid.nextIndex + k /\ (Live(S, b.c) <=> k + 1 <= k)
      BY <2>1, <2>3
    <3>2. paid.nextIndex \in Nat /\ n \in Nat /\ PaidCapacity \in Nat /\ k + 1 <= n
          /\ paid.nextIndex + n <= PaidCapacity
      BY <1>1, PaidFacts
    <3>3. b.c \in Commitments /\ b.limit \in Tiers
      BY <1>1, <2>1
    <3>4. S.nextIndex < PaidCapacity
      <4> HIDE DEF n, S
      <4> QED
        BY <3>1, <3>2
    <3> QED
      BY <3>1, <3>3, <3>4
  <2>5. /\ PaidGood(R) /\ PaidGrown(S, R) /\ R.nextIndex = S.nextIndex + 1
        /\ \A d \in Commitments : Live(R, d) <=> d = b.c \/ Live(S, d)
    BY <2>2, <2>3, <2>4, InsertedGood
  <2>6. PaidGrown(paid, R)
    <3>1. PaidGrown(paid, S) /\ PaidGrown(S, R)
      BY <2>3, <2>5
    <3>2. paid.nextIndex \in Nat /\ S.nextIndex \in Nat /\ R.nextIndex \in Nat
      BY <1>1, <2>3, <2>5
    <3> QED
      BY <3>1, <3>2, PaidGrownTransitive
  <2>7. R.nextIndex = paid.nextIndex + (k + 1)
    BY <1>1, <2>3, <2>5
  <2>8. ASSUME NEW i \in 1..n PROVE Live(R, batch[i].c) <=> i <= k + 1
    <3>1. batch[i].c = b.c <=> i = k + 1
      BY <1>1, <2>1
    <3>2. Live(R, batch[i].c) <=> batch[i].c = b.c \/ i <= k
      BY <1>1, <2>3, <2>5
    <3>3. i <= k + 1 <=> i = k + 1 \/ i <= k
      BY <1>1
    <3> QED
      BY <3>1, <3>2, <3>3
  <2> QED
    BY <2>5, <2>6, <2>7, <2>8
<1>7. Nat \subseteq T
  <2> HIDE DEF T
  <2> QED BY <1>5, <1>6, Round!Induction
<1>8. Fine(n)
  BY <1>1, <1>7
<1> QED
  BY <1>3, <1>4, <1>8

\* The other functions leave the leaves alone.
LEMMA OperatorGood ==
    ASSUME NEW S, PaidGood(S), NEW to
    PROVE  /\ PaidGood(Nominated(S, to)) /\ PaidGrown(S, Nominated(S, to))
           /\ PaidGood(Accepted(S)) /\ PaidGrown(S, Accepted(S))
<1> SUFFICES ASSUME NEW T, T \in {Nominated(S, to), Accepted(S)} PROVE PaidGood(T) /\ PaidGrown(S, T)
  OBVIOUS
<1>1. /\ DOMAIN T = DOMAIN S /\ T.leaves = S.leaves /\ T.nextIndex = S.nextIndex
      /\ T.liveCount = S.liveCount /\ T.tree = S.tree
  BY DEF Nominated, Accepted, PaidGood
<1>2. /\ \A i : LeafOf(T, i) = LeafOf(S, i) /\ \A c : Live(T, c) <=> Live(S, c)
      /\ LiveSet(T) = LiveSet(S)
  BY <1>1 DEF LeafOf, Live, LimitOf, LiveSet
<1> QED
  BY <1>1, <1>2 DEF PaidGood, PaidGrown

\* A fresh contract is good.
LEMMA PaidInitGood ==
    ASSUME PaidInit PROVE PaidGood(paid)
<1>1. PICK a \in Addresses : paid = Deployed(a)
  BY DEF PaidInit
<1>2. /\ DOMAIN paid = {"leaves", "nextIndex", "liveCount", "tree", "operator", "pendingOperator"}
      /\ paid.leaves = [c \in Commitments |-> NoLeaf] /\ paid.nextIndex = 0 /\ paid.liveCount = 0
      /\ paid.tree = EmptyTree
  BY <1>1 DEF Deployed
<1>3. \A i : LeafOf(paid, i) = Zero
  <2>1. Zeroes[0] = Zero
    BY ZeroesDef, DepthPositive
  <2> QED
    BY <1>2, <2>1 DEF LeafOf, NodeAt, Written, EmptyTree
<1>4. \A c \in Commitments : ~Live(paid, c)
  <2> SUFFICES ASSUME NEW c \in Commitments PROVE ~Live(paid, c)
    OBVIOUS
  <2>1. paid.leaves[c] = NoLeaf
    BY <1>2
  <2> QED
    BY <2>1 DEF Live, LimitOf, NoLeaf
<1>5. LiveSet(paid) = {}
  BY <1>4 DEF LiveSet
<1>6. IsFiniteSet(LiveSet(paid)) /\ paid.liveCount = Cardinality(LiveSet(paid))
  BY <1>2, <1>5, FS_EmptySet
<1>7. paid.leaves \in [Commitments -> [index : Nat, limit : Nat]]
  BY <1>2 DEF NoLeaf
<1>8. paid.nextIndex \in 0..PaidCapacity
  BY <1>2, PaidFacts
<1>9. TreeSound(paid.tree)
  BY <1>2, EmptySound
<1>10. \A i \in Nat : LeafOf(paid, i) = Zero
  BY <1>3
<1> QED
  BY <1>2, <1>5, <1>6, <1>7, <1>8, <1>9, <1>10 DEF PaidGood

\* Every transaction keeps the storage good and lets the tree grow.
LEMMA PaidStepGood ==
    ASSUME PaidGood(paid), PaidNext PROVE PaidGood(paid') /\ PaidGrown(paid, paid')
<1>1. ASSUME NEW a, NEW c \in Commitments, NEW l \in Tiers, Insert(a, c, l)
      PROVE  PaidGood(paid') /\ PaidGrown(paid, paid')
  BY <1>1, InsertedGood DEF Insert, CanInsert
<1>2. ASSUME NEW a, NEW b \in Batches, InsertBatch(a, b)
      PROVE  PaidGood(paid') /\ PaidGrown(paid, paid')
  BY <1>2, BatchGood DEF InsertBatch
<1>3. ASSUME NEW c \in Commitments, NEW l \in Tiers, SlashLeaf(c, l)
      PROVE  PaidGood(paid') /\ PaidGrown(paid, paid')
  <2>1. c \in LiveSet(paid) /\ c # Blank /\ paid' = Slashed(paid, c)
    BY <1>3, PaidFacts DEF SlashLeaf, CanSlash, LiveSet
  <2> QED
    BY <2>1, SlashedGood
<1>4. ASSUME NEW a, NEW to, SetOperator(a, to)
      PROVE  PaidGood(paid') /\ PaidGrown(paid, paid')
  BY <1>4, OperatorGood DEF SetOperator
<1>5. ASSUME NEW a, AcceptOperator(a)
      PROVE  PaidGood(paid') /\ PaidGrown(paid, paid')
  BY <1>5, OperatorGood DEF AcceptOperator
<1> QED
  BY <1>1, <1>2, <1>3, <1>4, <1>5 DEF PaidNext

\* PaidGood holds in every reachable state.
THEOREM PaidInvariant == PaidSpec => []PaidGood(paid)
<1>1. PaidInit => PaidGood(paid)
  BY PaidInitGood
<1>2. PaidGood(paid) /\ [PaidNext]_paid => PaidGood(paid)'
  BY PaidStepGood
<1> QED
  BY <1>1, <1>2, PTL DEF PaidSpec

\* For trees of every depth, the leaves of PaidAccessSet are exactly the live ones, each
\* at its own index, liveCount counts them, and the root in its storage is that of the
\* full tree over them.  The word 0 is the exception: it has no leaf of its own, and
\* once it was inserted the stored root need not be that of the leaves.
THEOREM PaidRootIsExact == PaidSpec => []PaidRootExact
<1>1. PaidGood(paid) => PaidRootExact
  <2> SUFFICES ASSUME PaidGood(paid) PROVE PaidRootExact
    OBVIOUS
  <2>1. \A i : LeafAt(i) = LeafOf(paid, i)
    BY DEF LeafAt, LeafOf
  <2>2. Blank \notin LiveSet(paid) => paid.tree.root = RootOf([i \in Leaves |-> LeafAt(i)])
    BY SoundRoot DEF PaidGood, Leaves, LeafAt
  <2>3. \A c \in LiveSet(paid) \ {Blank} : LeafAt(paid.leaves[c].index) = c
    BY <2>1 DEF PaidGood
  <2>4. \A i \in Leaves : LeafAt(i) # Zero =>
           LeafAt(i) \in LiveSet(paid) /\ paid.leaves[LeafAt(i)].index = i
    BY <2>1, PaidFacts DEF PaidGood, Leaves
  <2> QED
    BY <2>2, <2>3, <2>4 DEF PaidRootExact, PaidGood
<1> QED
  BY <1>1, PaidInvariant, PTL

\* PaidAccessSet implements the append-only admission tree: single inserts, batches
\* and slashes never use a slot twice.
THEOREM PaidImplementsTree == PaidSpec => PaidTreeImplemented
<1> DEFINE lf == [i \in 0..(PaidCapacity - 1) |-> LeafAt(i)]
<1>0. ASSUME PaidGood(paid)
      PROVE  /\ lf \in [0..(PaidCapacity - 1) -> Commitments \cup {Zero}]
             /\ PaidTree!NoTwins(lf)
             /\ \A i \in 0..(PaidCapacity - 1) : i \in Nat /\ lf[i] = LeafOf(paid, i)
  <2>1. \A i \in 0..(PaidCapacity - 1) : i \in Nat /\ lf[i] = LeafOf(paid, i)
    BY PaidFacts DEF LeafAt, LeafOf
  <2>2. lf \in [0..(PaidCapacity - 1) -> Commitments \cup {Zero}]
    BY <1>0, <2>1 DEF PaidGood, LiveSet
  <2> HIDE DEF lf
  <2>3. ASSUME NEW i \in 0..(PaidCapacity - 1), NEW j \in 0..(PaidCapacity - 1), lf[i] = lf[j], lf[i] # Zero
        PROVE  i = j
    BY <1>0, <2>1, <2>3 DEF PaidGood
  <2> QED
    BY <2>1, <2>2, <2>3 DEF PaidTree!NoTwins, PaidTree!Slots
<1>1. PaidInit => PaidTree!TreeInit
  <2> SUFFICES ASSUME PaidInit PROVE PaidTree!TreeInit
    OBVIOUS
  <2>1. PaidGood(paid) /\ paid.nextIndex = 0
    <3>1. PICK a \in Addresses : paid = Deployed(a)
      BY DEF PaidInit
    <3> QED
      BY <3>1, PaidInitGood DEF Deployed
  <2>2. \A i \in 0..(PaidCapacity - 1) : lf[i] = Zero
    BY <1>0, <2>1 DEF PaidGood
  <2> QED
    BY <2>1, <2>2 DEF PaidTree!TreeInit, PaidTree!Slots
<1>2. PaidGood(paid) /\ [PaidNext]_paid => [PaidTree!TreeNext]_<<lf, paid.nextIndex>>
  <2> SUFFICES ASSUME PaidGood(paid), PaidNext PROVE PaidTree!TreeNext
    BY DEF LeafAt
  <2>1. PaidGood(paid') /\ PaidGrown(paid, paid')
    BY PaidStepGood
  <2>2. /\ lf' \in [0..(PaidCapacity - 1) -> Commitments \cup {Zero}]
        /\ PaidTree!NoTwins(lf')
        /\ \A i \in 0..(PaidCapacity - 1) : i \in Nat /\ lf'[i] = LeafOf(paid', i)
    <3>1. \A i \in 0..(PaidCapacity - 1) : i \in Nat /\ lf'[i] = LeafOf(paid', i)
      BY PaidFacts DEF LeafAt, LeafOf
    <3>2. lf' \in [0..(PaidCapacity - 1) -> Commitments \cup {Zero}]
      BY <2>1, <3>1 DEF PaidGood, LiveSet
    <3>3. ASSUME NEW i \in 0..(PaidCapacity - 1), NEW j \in 0..(PaidCapacity - 1), lf'[i] = lf'[j], lf'[i] # Zero
          PROVE  i = j
      BY <2>1, <3>1, <3>3 DEF PaidGood
    <3> QED
      BY <3>1, <3>2, <3>3 DEF PaidTree!NoTwins, PaidTree!Slots
  <2>3. \A i \in 0..(PaidCapacity - 1) : lf[i] = LeafOf(paid, i)
    BY <1>0
  <2>4. PaidTree!Grows(lf, paid.nextIndex, lf', paid'.nextIndex)
    BY <2>1, <2>2, <2>3 DEF PaidGrown, PaidGood, PaidTree!Grows, PaidTree!Slots
  <2>5. paid'.nextIndex \in 0..PaidCapacity
    BY <2>1 DEF PaidGood
  <2> QED
    BY <2>2, <2>4, <2>5 DEF PaidTree!TreeNext, PaidTree!Slots
<1> QED
  BY <1>1, <1>2, PaidInvariant, PTL DEF PaidSpec, PaidTreeImplemented, PaidTree!TreeSpec

-----------------------------------------------------------------------------
(* GatewayRegistry and the staking commands.                               *)

Stake == [bond : {0, Bond}, index : Nat, exitInitiatedAt : Nat]

Registry == [stakes : [Operators -> Stake], nextIndex : Nat, activeCount : Int,
             owner : Operators, balance : Int]

IndexGiven(G) == \A o \in Operators : HasStake(G, o) => G.stakes[o].index < G.nextIndex

BooksGood(G) == G \in Registry /\ IndexGiven(G) /\ Exact(G)

Commands ==
    {Idle} \cup [at : {"sent", "done"}, mode : Modes, o : Operators]
           \cup [at : {"paying"}, mode : {"withdraw"}, o : Operators]

\* The stake of o in G, if any, was made after `old`.
Fresh(old, G, o) ==
    /\ G.nextIndex >= old.nextIndex
    /\ HasStake(G, o) => G.stakes[o].index >= old.nextIndex

Paying ==
    cmd.at = "paying" =>
        /\ Len(calls) > 0 /\ HasStake(calls[1], cmd.o)
        /\ Fresh(calls[1], reg, cmd.o)
        /\ \A i \in 2..Len(calls) : Fresh(calls[1], calls[i], cmd.o)

StakingInv ==
    /\ clock \in Nat \ {0}
    /\ cmd \in Commands
    /\ calls \in Seq(Registry)
    /\ BooksGood(reg) /\ \A i \in 1..Len(calls) : BooksGood(calls[i])
    /\ Paying

-----------------------------------------------------------------------------
(* The functions of the contract.                                          *)

ActiveOperators(G) == {o \in Operators : IsStaked(G, o)}

\* What is assumed of the constants.
LEMMA StakingFacts ==
    ASSUME StakingConstants
    PROVE  /\ IsFiniteSet(Operators) /\ Bond \in Nat \ {0}
           /\ UnbondingTime \in Nat /\ MaxStakes \in Nat /\ MaxCalls \in Nat /\ EndOfTime \in Nat
BY DEF StakingConstants

\* Operators can be counted.
LEMMA Countable ==
    ASSUME StakingConstants, NEW G
    PROVE  /\ IsFiniteSet(Staked(G)) /\ Cardinality(Staked(G)) \in Nat
           /\ IsFiniteSet(ActiveOperators(G)) /\ Cardinality(ActiveOperators(G)) \in Nat
<1>1. Staked(G) \in SUBSET Operators /\ ActiveOperators(G) \in SUBSET Operators
  BY DEF Staked, ActiveOperators
<1> QED
  BY <1>1, StakingFacts, FS_Subset, FS_CardinalityType

\* register(): one more bond, one more operator, an index of its own.
LEMMA RegisteredGood ==
    ASSUME StakingConstants, NEW G, BooksGood(G), NEW o \in Operators, CanRegister(G, o),
           NEW H, H = Registered(G, o)
    PROVE  /\ BooksGood(H) /\ IsStaked(H, o)
           /\ H.nextIndex = G.nextIndex + 1 /\ H.stakes[o].index = G.nextIndex
           /\ \A p \in Operators : p # o => H.stakes[p] = G.stakes[p]
<1> DEFINE s == [bond |-> Bond, index |-> G.nextIndex, exitInitiatedAt |-> 0]
<1>0. /\ G \in Registry /\ G.nextIndex \in Nat /\ G.stakes \in [Operators -> Stake]
      /\ G.activeCount \in Int /\ G.balance \in Int /\ G.owner \in Operators
      /\ Bond \in Nat \ {0} /\ IndexGiven(G) /\ Exact(G)
  BY StakingFacts DEF BooksGood, Registry
<1>1. s \in Stake
  BY <1>0 DEF Stake
<1>2. /\ H.stakes = [G.stakes EXCEPT ![o] = s] /\ H.nextIndex = G.nextIndex + 1
      /\ H.activeCount = G.activeCount + 1 /\ H.balance = G.balance + Bond /\ H.owner = G.owner
  BY <1>0 DEF Registered, Registry
<1>3. H \in Registry
  <2>1. [G.stakes EXCEPT ![o] = s] \in [Operators -> Stake]
    BY <1>0, <1>1
  <2>2. H = [stakes |-> [G.stakes EXCEPT ![o] = s], nextIndex |-> G.nextIndex + 1,
             activeCount |-> G.activeCount + 1, owner |-> G.owner, balance |-> G.balance + Bond]
    BY <1>0 DEF Registered, Registry
  <2> QED
    BY <1>0, <2>1, <2>2 DEF Registry
<1>4. H.stakes[o] = s /\ \A p \in Operators : p # o => H.stakes[p] = G.stakes[p]
  BY <1>0, <1>2
<1>5. IsStaked(H, o) /\ ~HasStake(G, o) /\ ~IsStaked(G, o) /\ HasStake(H, o)
  BY <1>0, <1>4 DEF IsStaked, HasStake, CanRegister
<1>6. Staked(H) = Staked(G) \cup {o} /\ o \notin Staked(G)
      /\ ActiveOperators(H) = ActiveOperators(G) \cup {o} /\ o \notin ActiveOperators(G)
  BY <1>4, <1>5 DEF Staked, ActiveOperators, IsStaked, HasStake
<1>7. Cardinality(Staked(H)) = Cardinality(Staked(G)) + 1
      /\ Cardinality(ActiveOperators(H)) = Cardinality(ActiveOperators(G)) + 1
  BY <1>6, Countable, FS_AddElement
<1>8. \A p \in Operators : G.stakes[p].index \in Nat
  BY <1>0 DEF Stake
<1>9. IndexGiven(H)
  BY <1>0, <1>2, <1>4, <1>8 DEF IndexGiven, HasStake
<1>10. Exact(H)
  <2>1. Bond * (Cardinality(Staked(G)) + 1) = Bond * Cardinality(Staked(G)) + Bond
    BY <1>0, Countable
  <2>2. H.balance = Bond * Cardinality(Staked(H))
    BY <1>0, <1>2, <1>7, <2>1 DEF Exact
  <2>3. H.activeCount = Cardinality(ActiveOperators(H))
    BY <1>0, <1>2, <1>7 DEF Exact, ActiveOperators
  <2>4. \A p, q \in Staked(H) : H.stakes[p].index = H.stakes[q].index => p = q
    BY <1>0, <1>4, <1>6, <1>8 DEF Exact, IndexGiven, Staked
  <2> QED
    BY <2>2, <2>3, <2>4 DEF Exact, ActiveOperators
<1> QED
  BY <1>2, <1>3, <1>4, <1>5, <1>9, <1>10 DEF BooksGood

\* initiateExit(): the stake stays, its operator is not counted any more.
LEMMA ExitingGood ==
    ASSUME StakingConstants, NEW G, BooksGood(G), NEW o \in Operators, CanExit(G, o),
           NEW time \in Nat \ {0}, NEW H, H = Exiting(G, o, time)
    PROVE  /\ BooksGood(H) /\ HasStake(H, o) /\ ~IsStaked(H, o) /\ H.nextIndex = G.nextIndex
           /\ \A p \in Operators : /\ H.stakes[p].index = G.stakes[p].index
                                   /\ HasStake(H, p) <=> HasStake(G, p)
<1> DEFINE s == [G.stakes[o] EXCEPT !.exitInitiatedAt = time]
<1>0. /\ G \in Registry /\ G.nextIndex \in Nat /\ G.stakes \in [Operators -> Stake]
      /\ G.activeCount \in Int /\ G.balance \in Int /\ G.owner \in Operators
      /\ Bond \in Nat \ {0} /\ IndexGiven(G) /\ Exact(G)
  BY StakingFacts DEF BooksGood, Registry
<1>1. s \in Stake /\ s.bond = G.stakes[o].bond /\ s.index = G.stakes[o].index /\ s.exitInitiatedAt = time
  BY <1>0 DEF Stake
<1>2. /\ H.stakes = [G.stakes EXCEPT ![o] = s] /\ H.nextIndex = G.nextIndex
      /\ H.activeCount = G.activeCount - 1 /\ H.balance = G.balance /\ H.owner = G.owner
  BY <1>0 DEF Exiting, Registry
<1>3. H \in Registry
  <2>1. [G.stakes EXCEPT ![o] = s] \in [Operators -> Stake]
    BY <1>0, <1>1
  <2>2. H = [stakes |-> [G.stakes EXCEPT ![o] = s], nextIndex |-> G.nextIndex,
             activeCount |-> G.activeCount - 1, owner |-> G.owner, balance |-> G.balance]
    BY <1>0 DEF Exiting, Registry
  <2> QED
    BY <1>0, <2>1, <2>2 DEF Registry
<1> HIDE DEF s
<1>4. H.stakes[o] = s /\ \A p \in Operators : p # o => H.stakes[p] = G.stakes[p]
  BY <1>0, <1>2
<1>5. /\ \A p \in Operators : H.stakes[p].index = G.stakes[p].index /\ (HasStake(H, p) <=> HasStake(G, p))
      /\ HasStake(G, o) /\ IsStaked(G, o) /\ ~IsStaked(H, o)
  BY <1>1, <1>4 DEF HasStake, CanExit, IsStaked
<1>6. Staked(H) = Staked(G) /\ ActiveOperators(H) = ActiveOperators(G) \ {o} /\ o \in ActiveOperators(G)
  BY <1>4, <1>5 DEF Staked, ActiveOperators, IsStaked
<1>7. Cardinality(ActiveOperators(H)) = Cardinality(ActiveOperators(G)) - 1
  BY <1>6, Countable, FS_RemoveElement
<1>8. IndexGiven(H)
  BY <1>0, <1>2, <1>5 DEF IndexGiven
<1>9. Exact(H)
  BY <1>0, <1>2, <1>5, <1>6, <1>7 DEF Exact, ActiveOperators, Staked
<1> QED
  BY <1>2, <1>3, <1>5, <1>8, <1>9 DEF BooksGood

\* What withdraw() and slash() share: the stake is gone, with its bond.
LEMMA RemovedGood ==
    ASSUME StakingConstants, NEW G, BooksGood(G), NEW o \in Operators, HasStake(G, o), NEW H \in Registry,
           H.stakes = [G.stakes EXCEPT ![o] = NoStake], H.nextIndex = G.nextIndex,
           H.balance = G.balance - G.stakes[o].bond,
           H.activeCount = IF IsStaked(G, o) THEN G.activeCount - 1 ELSE G.activeCount
    PROVE  BooksGood(H) /\ ~HasStake(H, o)
<1>0. /\ G.nextIndex \in Nat /\ G.stakes \in [Operators -> Stake]
      /\ G.activeCount \in Int /\ G.balance \in Int
      /\ Bond \in Nat \ {0} /\ IndexGiven(G) /\ Exact(G)
  BY StakingFacts DEF BooksGood, Registry
<1>1. H.stakes[o] = NoStake /\ \A p \in Operators : p # o => H.stakes[p] = G.stakes[p]
  BY <1>0
<1>2. ~HasStake(H, o) /\ ~IsStaked(H, o) /\ G.stakes[o].bond = Bond
  BY <1>0, <1>1 DEF HasStake, IsStaked, NoStake, Stake
<1>3. Staked(H) = Staked(G) \ {o} /\ o \in Staked(G)
      /\ ActiveOperators(H) = ActiveOperators(G) \ {o} /\ (o \in ActiveOperators(G) <=> IsStaked(G, o))
  BY <1>1, <1>2 DEF Staked, ActiveOperators, IsStaked, HasStake
<1>4. Cardinality(Staked(H)) = Cardinality(Staked(G)) - 1
      /\ Cardinality(ActiveOperators(H)) = IF IsStaked(G, o) THEN Cardinality(ActiveOperators(G)) - 1 ELSE Cardinality(ActiveOperators(G))
  <2>1. IsFiniteSet(Staked(G)) /\ IsFiniteSet(ActiveOperators(G))
    BY Countable
  <2>2. Cardinality(Staked(H)) = Cardinality(Staked(G)) - 1
    BY <1>3, <2>1, FS_RemoveElement
  <2>3. CASE IsStaked(G, o)
    BY <1>3, <2>1, <2>2, <2>3, FS_RemoveElement
  <2>4. CASE ~IsStaked(G, o)
    <3>1. ActiveOperators(H) = ActiveOperators(G)
      BY <1>3, <2>4
    <3> QED
      BY <2>2, <2>4, <3>1
  <2> QED
    BY <2>3, <2>4
<1>5. IndexGiven(H)
  BY <1>0, <1>1, <1>2 DEF IndexGiven, HasStake
<1>6. Exact(H)
  <2>1. Bond * (Cardinality(Staked(G)) - 1) = Bond * Cardinality(Staked(G)) - Bond
    BY <1>0, Countable
  <2>2. H.balance = Bond * Cardinality(Staked(H))
    BY <1>0, <1>2, <1>4, <2>1 DEF Exact
  <2>3. H.activeCount = Cardinality(ActiveOperators(H))
    BY <1>0, <1>4 DEF Exact, ActiveOperators
  <2>4. \A p, q \in Staked(H) : H.stakes[p].index = H.stakes[q].index => p = q
    BY <1>0, <1>1, <1>3 DEF Exact, Staked
  <2> QED
    BY <2>2, <2>3, <2>4 DEF Exact, ActiveOperators
<1> QED
  BY <1>2, <1>5, <1>6 DEF BooksGood

\* withdraw() and slash(), up to the payout; and a new owner.
LEMMA PaidOutGood ==
    ASSUME StakingConstants, NEW G, BooksGood(G), NEW o \in Operators, HasStake(G, o),
           NEW H, H = SlashedGateway(G, o) \/ (H = Withdrawn(G, o) /\ ~IsStaked(G, o))
    PROVE  /\ BooksGood(H) /\ ~HasStake(H, o) /\ H.nextIndex = G.nextIndex
           /\ \A p \in Operators : p # o => H.stakes[p] = G.stakes[p]
<1>0. /\ G \in Registry /\ G.nextIndex \in Nat /\ G.stakes \in [Operators -> Stake]
      /\ G.activeCount \in Int /\ G.balance \in Int /\ G.owner \in Operators
      /\ NoStake \in Stake /\ G.stakes[o].bond \in Int
  BY StakingFacts DEF BooksGood, Registry, Stake, NoStake
<1>1. H = [stakes |-> [G.stakes EXCEPT ![o] = NoStake], nextIndex |-> G.nextIndex,
           activeCount |-> IF IsStaked(G, o) THEN G.activeCount - 1 ELSE G.activeCount,
           owner |-> G.owner, balance |-> G.balance - G.stakes[o].bond]
  <2>1. CASE H = SlashedGateway(G, o)
    BY <1>0, <2>1 DEF SlashedGateway, Registry
  <2>2. CASE H = Withdrawn(G, o) /\ ~IsStaked(G, o)
    BY <1>0, <2>2 DEF Withdrawn, Registry
  <2> QED
    BY <2>1, <2>2
<1>2. H \in Registry
  BY <1>0, <1>1 DEF Registry
<1>3. \A p \in Operators : p # o => H.stakes[p] = G.stakes[p]
  BY <1>0, <1>1
<1> QED
  BY <1>1, <1>2, <1>3, RemovedGood

\* transferOwnership() touches no stake.
LEMMA OwnedGood ==
    ASSUME StakingConstants, NEW G, BooksGood(G), NEW to \in Operators
    PROVE  /\ BooksGood(OwnedBy(G, to)) /\ OwnedBy(G, to).nextIndex = G.nextIndex
           /\ OwnedBy(G, to).stakes = G.stakes
<1>0. /\ G \in Registry /\ G.nextIndex \in Nat /\ G.stakes \in [Operators -> Stake]
      /\ G.activeCount \in Int /\ G.balance \in Int
  BY DEF BooksGood, Registry
<1>1. OwnedBy(G, to) = [stakes |-> G.stakes, nextIndex |-> G.nextIndex,
                        activeCount |-> G.activeCount, owner |-> to, balance |-> G.balance]
  BY <1>0 DEF OwnedBy, Registry
<1> DEFINE H == OwnedBy(G, to)
<1>2. /\ H.stakes = G.stakes /\ H.nextIndex = G.nextIndex
      /\ H.activeCount = G.activeCount /\ H.balance = G.balance /\ H \in Registry
  BY <1>0, <1>1 DEF Registry
<1> HIDE DEF H
<1>3. Staked(H) = Staked(G) /\ \A o : IsStaked(H, o) <=> IsStaked(G, o)
  BY <1>2 DEF Staked, HasStake, IsStaked
<1>4. Exact(H) /\ IndexGiven(H)
  BY <1>2, <1>3 DEF BooksGood, Exact, IndexGiven, HasStake
<1> QED
  BY <1>2, <1>4 DEF BooksGood, H

-----------------------------------------------------------------------------
(* The invariant.                                                          *)

\* A call of the contract: from storage reg, with the stack it leaves.
Called(o) ==
    \/ RegisterGateway(o) \/ ExitGateway(o) \/ WithdrawGateway(o)
    \/ \E s \in Operators : SlashGateway(s, o) \/ TransferOwnership(s, o)

\* A call of the contract keeps the books, and any stake it makes is new.
LEMMA CalledGood ==
    ASSUME StakingConstants, StakingInv, NEW o \in Operators, Called(o)
    PROVE  /\ BooksGood(reg')
           /\ \A old \in Registry, p \in Operators : Fresh(old, reg, p) => Fresh(old, reg', p)
           /\ UNCHANGED calls \/ calls' = Append(calls, reg)
<1>0. BooksGood(reg) /\ reg.nextIndex \in Nat /\ clock \in Nat \ {0}
      /\ \A old \in Registry : old.nextIndex \in Nat
  BY DEF StakingInv, BooksGood, Registry
<1>1. CASE RegisterGateway(o)
  BY <1>0, <1>1, RegisteredGood DEF RegisterGateway, Fresh, HasStake
<1>2. CASE ExitGateway(o)
  BY <1>0, <1>2, ExitingGood DEF ExitGateway, Fresh
<1>3. CASE WithdrawGateway(o)
  BY <1>0, <1>3, PaidOutGood DEF WithdrawGateway, CanWithdraw, Fresh, HasStake
<1>4. CASE \E s \in Operators : SlashGateway(s, o)
  BY <1>0, <1>4, PaidOutGood DEF SlashGateway, Fresh, HasStake
<1>5. CASE \E s \in Operators : TransferOwnership(s, o)
  BY <1>0, <1>5, OwnedGood DEF TransferOwnership, Fresh, HasStake
<1> QED
  BY <1>1, <1>2, <1>3, <1>4, <1>5 DEF Called

\* Storages that are pushed on the stack, or come back from it, are good.
LEMMA StackGood ==
    ASSUME StakingInv, BooksGood(reg'), UNCHANGED calls \/ calls' = Append(calls, reg)
    PROVE  calls' \in Seq(Registry) /\ \A i \in 1..Len(calls') : BooksGood(calls'[i])
<1>1. calls \in Seq(Registry) /\ reg \in Registry /\ BooksGood(reg) /\ \A i \in 1..Len(calls) : BooksGood(calls[i])
  BY DEF StakingInv, BooksGood
<1>2. CASE UNCHANGED calls
  BY <1>1, <1>2
<1>3. CASE calls' = Append(calls, reg)
  <2>1. Len(calls) \in Nat /\ calls' \in Seq(Registry) /\ Len(calls') = Len(calls) + 1
        /\ \A i \in 1..Len(calls') : calls'[i] = IF i <= Len(calls) THEN calls[i] ELSE reg
    BY <1>1, <1>3
  <2> QED
    BY <1>1, <2>1
<1> QED
  BY <1>2, <1>3

\* What the invariant says, part by part.
LEMMA Parts ==
    ASSUME StakingInv
    PROVE  /\ clock \in Nat \ {0} /\ cmd \in Commands /\ calls \in Seq(Registry) /\ Len(calls) \in Nat
           /\ BooksGood(reg) /\ reg \in Registry /\ reg.nextIndex \in Nat
           /\ \A i \in 1..Len(calls) : calls[i] \in Registry /\ BooksGood(calls[i])
BY DEF StakingInv, BooksGood, Registry

\* A call by anybody: one that waits for its payout still finds its own storage
\* at the bottom of the stack.
LEMMA CallKeepsInv ==
    ASSUME StakingConstants, StakingInv, NEW o \in Operators, Called(o), UNCHANGED <<clock, cmd>>
    PROVE  StakingInv'
<1>0. /\ calls \in Seq(Registry) /\ Len(calls) \in Nat /\ BooksGood(reg)
      /\ \A i \in 1..Len(calls) : calls[i] \in Registry
  BY Parts
<1>1. /\ BooksGood(reg')
      /\ \A old \in Registry, p \in Operators : Fresh(old, reg, p) => Fresh(old, reg', p)
      /\ UNCHANGED calls \/ calls' = Append(calls, reg)
  BY CalledGood
<1>2. calls' \in Seq(Registry) /\ \A i \in 1..Len(calls') : BooksGood(calls'[i])
  BY <1>1, StackGood
<1>3. Paying'
  <2>1. SUFFICES ASSUME cmd.at = "paying"
                 PROVE  /\ Len(calls') > 0 /\ HasStake(calls'[1], cmd.o)
                        /\ Fresh(calls'[1], reg', cmd.o)
                        /\ \A i \in 2..Len(calls') : Fresh(calls'[1], calls'[i], cmd.o)
    BY DEF Paying
  <2>2. cmd.o \in Operators
    BY <2>1 DEF StakingInv, Commands, Idle
  <2>3. /\ Len(calls) > 0 /\ HasStake(calls[1], cmd.o)
        /\ Fresh(calls[1], reg, cmd.o)
        /\ \A i \in 2..Len(calls) : Fresh(calls[1], calls[i], cmd.o)
    BY <2>1 DEF StakingInv, Paying
  <2>4. calls[1] \in Registry
    BY <1>0, <2>3
  <2>5. Fresh(calls[1], reg', cmd.o)
    BY <1>1, <2>2, <2>3, <2>4
  <2>6. /\ Len(calls') > 0 /\ calls'[1] = calls[1]
        /\ \A i \in 2..Len(calls') : calls'[i] = reg \/ (i \in 2..Len(calls) /\ calls'[i] = calls[i])
    <3>1. CASE UNCHANGED calls
      BY <2>3, <3>1
    <3>2. CASE calls' = Append(calls, reg)
      BY <1>0, <2>3, <3>2
    <3> QED
      BY <1>1, <3>1, <3>2
  <2> QED
    BY <2>3, <2>5, <2>6
<1> QED
  BY <1>1, <1>2, <1>3 DEF StakingInv

\* A payee returns, or fails, while no command or a deeper one is the caller.
LEMMA PayoutKeepsInv ==
    ASSUME StakingInv, GatewayPayout, UNCHANGED clock,
           cmd' \in Commands, cmd'.at = "paying" => cmd' = cmd /\ Len(calls) > 1
    PROVE  StakingInv'
<1>0. /\ calls \in Seq(Registry) /\ Len(calls) \in Nat /\ Len(calls) > 0
      /\ BooksGood(reg) /\ \A i \in 1..Len(calls) : BooksGood(calls[i])
  BY Parts DEF GatewayPayout
<1>1. /\ calls' \in Seq(Registry) /\ Len(calls') = Len(calls) - 1
      /\ \A i \in 1..Len(calls') : calls'[i] = calls[i]
  <2>a. PICK k \in Nat : k = Len(calls)
    BY <1>0
  <2>b. k > 0
    BY <1>0, <2>a
  <2>1. PICK n \in Nat : k = n + 1
    BY <2>b
  <2>2. calls' = SubSeq(calls, 1, n)
    BY <2>1, <2>a DEF GatewayPayout, Returned
  <2>3. \A i \in 1..n : calls[i] \in Registry
    BY <1>0, <2>1, <2>a
  <2> QED
    BY <2>1, <2>2, <2>3, <2>a, SubSeqProperties
<1>2. BooksGood(reg') /\ \A i \in 1..Len(calls') : BooksGood(calls'[i])
  BY <1>0, <1>1 DEF GatewayPayout
<1>3. Paying'
  <2>1. SUFFICES ASSUME cmd'.at = "paying"
                 PROVE  /\ Len(calls') > 0 /\ HasStake(calls'[1], cmd'.o)
                        /\ Fresh(calls'[1], reg', cmd'.o)
                        /\ \A i \in 2..Len(calls') : Fresh(calls'[1], calls'[i], cmd'.o)
    BY DEF Paying
  <2>2. /\ HasStake(calls[1], cmd.o) /\ Fresh(calls[1], reg, cmd.o)
        /\ \A i \in 2..Len(calls) : Fresh(calls[1], calls[i], cmd.o)
        /\ cmd' = cmd /\ Len(calls) > 1
    BY <2>1 DEF StakingInv, Paying
  <2>3. Fresh(calls[1], reg', cmd.o)
    BY <1>0, <2>2 DEF GatewayPayout
  <2> QED
    BY <1>0, <1>1, <2>2, <2>3
<1> QED
  BY <1>1, <1>2, <1>3, Parts DEF StakingInv

\* The transaction of the command is mined.
LEMMA MinedKeepsInv ==
    ASSUME StakingConstants, StakingInv, Mined
    PROVE  /\ StakingInv'
           /\ cmd'.at = "done" =>
                 CASE cmd.mode = "register" -> IsStaked(reg', cmd.o)
                   [] cmd.mode = "exit"     -> HasStake(reg', cmd.o) /\ ~IsStaked(reg', cmd.o)
                   [] cmd.mode = "withdraw" -> reg'.stakes[cmd.o] # calls[1].stakes[cmd.o]
<1>0. PICK m \in Modes, o \in Operators : cmd = [at |-> "sent", mode |-> m, o |-> o]
  BY DEF StakingInv, Commands, Mined, Idle
<1>1. /\ cmd.mode = m /\ cmd.o = o /\ cmd.at = "sent" /\ calls = << >> /\ clock' = clock /\ clock \in Nat \ {0}
      /\ m = "register" \/ m = "exit" \/ m = "withdraw"
      /\ BooksGood(reg) /\ reg \in Registry /\ reg.nextIndex \in Nat /\ Len(calls) = 0
  BY <1>0, Parts DEF Mined, Modes
<1>2. [cmd EXCEPT !.at = "done"] = [at |-> "done", mode |-> m, o |-> o]
      /\ [cmd EXCEPT !.at = "paying"] = [at |-> "paying", mode |-> m, o |-> o]
  BY <1>0
<1>3. CASE cmd' = Idle /\ UNCHANGED <<reg, calls>>
  <2>1. cmd' \in Commands /\ cmd'.at = "idle"
    BY <1>3 DEF Commands, Idle
  <2> QED
    BY <1>1, <1>3, <2>1 DEF StakingInv, Paying
<1>4. CASE m = "register" /\ RegisterGateway(o) /\ Succeeds
  <2>1. Called(o)
    BY <1>4 DEF Called
  <2>2. cmd' = [at |-> "done", mode |-> m, o |-> o] /\ cmd' \in Commands /\ cmd'.at = "done"
    BY <1>2, <1>4 DEF Succeeds, Commands
  <2>3. IsStaked(reg', o) /\ calls' = calls
    BY <1>1, <1>4, RegisteredGood DEF RegisterGateway
  <2>4. BooksGood(reg')
    BY <2>1, CalledGood
  <2> QED
    BY <1>1, <1>4, <2>2, <2>3, <2>4 DEF StakingInv, Paying
<1>5. CASE m = "exit" /\ ExitGateway(o) /\ Succeeds
  <2>1. Called(o)
    BY <1>5 DEF Called
  <2>2. cmd' = [at |-> "done", mode |-> m, o |-> o] /\ cmd' \in Commands /\ cmd'.at = "done"
    BY <1>2, <1>5 DEF Succeeds, Commands
  <2>3. HasStake(reg', o) /\ ~IsStaked(reg', o) /\ calls' = calls
    BY <1>1, <1>5, ExitingGood DEF ExitGateway
  <2>4. BooksGood(reg')
    BY <2>1, CalledGood
  <2> QED
    BY <1>1, <1>5, <2>2, <2>3, <2>4 DEF StakingInv, Paying
<1>6. CASE m = "withdraw" /\ WithdrawGateway(o) /\ cmd' = [cmd EXCEPT !.at = "paying"]
  <2>1. Called(o)
    BY <1>6 DEF Called
  <2>2. cmd' = [at |-> "paying", mode |-> m, o |-> o] /\ cmd' \in Commands
        /\ cmd'.at = "paying" /\ cmd'.o = o
    BY <1>2, <1>6 DEF Commands
  <2>3. /\ ~HasStake(reg', o) /\ reg'.nextIndex = reg.nextIndex /\ HasStake(reg, o)
    BY <1>1, <1>6, PaidOutGood DEF WithdrawGateway, CanWithdraw
  <2>4. calls' = <<reg>> /\ Len(calls') = 1 /\ calls'[1] = reg
    BY <1>1, <1>6 DEF WithdrawGateway
  <2>5. BooksGood(reg') /\ calls' \in Seq(Registry) /\ \A i \in 1..Len(calls') : BooksGood(calls'[i])
    BY <2>1, CalledGood, StackGood
  <2>6. Paying'
    BY <1>1, <2>2, <2>3, <2>4 DEF Paying, Fresh
  <2>7. cmd'.at # "done"
    BY <2>2
  <2> QED
    BY <1>1, <2>2, <2>5, <2>6, <2>7 DEF StakingInv
<1> QED
  BY <1>1, <1>3, <1>4, <1>5, <1>6 DEF Mined, Attempt, Fails

\* The payout of the command returns, or fails and the command with it.
LEMMA SettledKeepsInv ==
    ASSUME StakingInv, Settled
    PROVE  /\ StakingInv'
           /\ cmd'.at = "done" => cmd.mode = "withdraw" /\ reg'.stakes[cmd.o] # calls[1].stakes[cmd.o]
<1>0. PICK o \in Operators : cmd = [at |-> "paying", mode |-> "withdraw", o |-> o]
  BY DEF StakingInv, Commands, Settled, PayingCommand, Idle
<1>1. /\ cmd.at = "paying" /\ cmd.o = o /\ cmd.mode = "withdraw" /\ Len(calls) = 1
      /\ (reg' = reg \/ reg' = calls[1])
      /\ calls[1] \in Registry /\ BooksGood(calls[1])
  BY <1>0, Parts DEF Settled, PayingCommand, GatewayPayout
<1>2. cmd' \in Commands /\ (cmd'.at = "done" \/ cmd'.at = "idle") /\ (cmd'.at = "done" => reg' # calls[1])
  <2>1. [cmd EXCEPT !.at = "done"] = [at |-> "done", mode |-> "withdraw", o |-> o]
    BY <1>0
  <2> QED
    BY <2>1 DEF Settled, Succeeds, Fails, Commands, Idle, Modes
<1>3. StakingInv'
  BY <1>2, PayoutKeepsInv DEF Settled
<1>4. ASSUME reg' = reg
      PROVE  reg'.stakes[o] # calls[1].stakes[o]
  <2>1. HasStake(calls[1], o) /\ Fresh(calls[1], reg, o)
    BY <1>1 DEF StakingInv, Paying
  <2>2. calls[1] \in Registry /\ IndexGiven(calls[1])
    BY <1>1, Parts DEF BooksGood
  <2>3. calls[1].stakes[o].index < calls[1].nextIndex
        /\ calls[1].nextIndex \in Nat /\ calls[1].stakes[o].index \in Nat
    BY <2>1, <2>2 DEF IndexGiven, Registry, Stake
  <2>4. reg.stakes[o] = calls[1].stakes[o] => HasStake(reg, o)
    BY <2>1 DEF HasStake
  <2> QED
    BY <1>4, <2>1, <2>3, <2>4 DEF Fresh
<1> QED
  BY <1>1, <1>2, <1>3, <1>4

-----------------------------------------------------------------------------
(* The theorems.                                                           *)

\* No command runs and no payout is pending at first.
LEMMA StakingInitInv ==
    ASSUME StakingConstants, StakingInit
    PROVE  StakingInv
<1>1. PICK owner \in Operators : reg = NewRegistry(owner)
  BY DEF StakingInit
<1>2. reg \in Registry
  BY <1>1 DEF NewRegistry, Registry, NoStake, Stake
<1>3. /\ reg.balance = 0 /\ reg.activeCount = 0 /\ \A o \in Operators : ~HasStake(reg, o)
  BY <1>1 DEF NewRegistry, NoStake, HasStake
<1>4. Staked(reg) = {} /\ {o \in Operators : IsStaked(reg, o)} = {}
  BY <1>3 DEF Staked, IsStaked
<1>5. Cardinality({}) = 0 /\ Bond * 0 = 0
  BY StakingFacts, FS_EmptySet
<1>6. BooksGood(reg)
  BY <1>2, <1>3, <1>4, <1>5 DEF BooksGood, IndexGiven, Exact
<1>7. clock = 1 /\ calls = << >> /\ cmd = Idle /\ cmd.at = "idle"
  BY DEF StakingInit, Idle
<1>8. calls \in Seq(Registry) /\ Len(calls) = 0
  BY <1>7
<1> QED
  BY <1>6, <1>7, <1>8 DEF StakingInv, Paying, Commands

\* Every step preserves StakingInv.
LEMMA StakingNextInv ==
    ASSUME StakingConstants, StakingInv, [StakingNext]_stakingVars
    PROVE  StakingInv'
<1>1. CASE Somebody
  <2>1. CASE \E o \in Operators : Called(o)
    BY <1>1, <2>1, CallKeepsInv DEF Somebody
  <2>2. CASE GatewayPayout /\ ~PayingCommand
    <3>1. cmd' = cmd /\ cmd \in Commands /\ clock' = clock /\ Len(calls) \in Nat
      BY <1>1, Parts DEF Somebody
    <3>2. cmd.at = "paying" => Len(calls) > 0
      BY DEF StakingInv, Paying
    <3>a. PICK n \in Nat : n = Len(calls)
      BY <3>1
    <3>b. n > 0 /\ n # 1 => n > 1
      OBVIOUS
    <3>3. cmd.at = "paying" => Len(calls) > 1
      BY <2>2, <3>2, <3>a, <3>b DEF PayingCommand
    <3> QED
      BY <2>2, <3>1, <3>3, PayoutKeepsInv
  <2> QED
    BY <1>1, <2>1, <2>2 DEF Somebody, Called
<1>2. CASE BlockTime
  BY <1>2 DEF BlockTime, StakingInv, Paying
<1>3. ASSUME NEW o \in Operators, NEW mode \in Modes, Preflight(o, mode)
      PROVE  StakingInv'
  <2>1. cmd' \in Commands /\ cmd'.at = "sent"
    BY <1>3 DEF Preflight, Commands
  <2> QED
    BY <1>3, <2>1 DEF Preflight, StakingInv, Paying
<1>4. CASE Mined
  BY <1>4, MinedKeepsInv
<1>5. CASE Settled
  BY <1>5, SettledKeepsInv
<1>6. CASE WaitTimesOut
  <2>1. cmd' \in Commands /\ cmd'.at = "idle"
    BY <1>6 DEF WaitTimesOut, Fails, Commands, Idle
  <2> QED
    BY <1>6, <2>1 DEF WaitTimesOut, StakingInv, Paying
<1>7. CASE UNCHANGED stakingVars
  BY <1>7 DEF stakingVars, StakingInv, Paying
<1> QED
  BY <1>1, <1>2, <1>3, <1>4, <1>5, <1>6, <1>7 DEF StakingNext

\* A step by which a command reports success did what it reports.
LEMMA StepHonest ==
    ASSUME StakingConstants, StakingInv, StakingNext, cmd.at # "done", cmd'.at = "done"
    PROVE  CASE cmd.mode = "register" -> IsStaked(reg', cmd.o)
             [] cmd.mode = "exit"     -> HasStake(reg', cmd.o) /\ ~IsStaked(reg', cmd.o)
             [] cmd.mode = "withdraw" -> reg'.stakes[cmd.o] # calls[1].stakes[cmd.o]
<1>1. CASE Mined
  BY <1>1, MinedKeepsInv
<1>2. CASE Settled
  BY <1>2, SettledKeepsInv
<1>3. CASE Somebody \/ BlockTime
  BY <1>3 DEF Somebody, BlockTime
<1>4. CASE WaitTimesOut \/ \E o \in Operators, mode \in Modes : Preflight(o, mode)
  BY <1>4 DEF WaitTimesOut, Fails, Idle, Preflight
<1> QED
  BY <1>1, <1>2, <1>3, <1>4 DEF StakingNext

\* The strengthened invariant holds in every reachable state: the books are
\* exact in the storage and in every storage a failing payee would restore, and
\* a stake made since a command's withdrawal carries a newer index.
THEOREM StakingInvariant ==
    ASSUME StakingConstants
    PROVE  StakingSpec => []StakingInv
<1>1. StakingInit => StakingInv
  BY StakingInitInv
<1>2. StakingInv /\ [StakingNext]_stakingVars => StakingInv'
  BY StakingNextInv
<1> QED
  BY <1>1, <1>2, PTL DEF StakingSpec

\* GatewayRegistry.sol never loses or invents a bond, miscounts its active
\* operators or gives two stakes one index, for every set of operators and any
\* depth of payees that call back and fail.
THEOREM BooksExact ==
    ASSUME StakingConstants
    PROVE  StakingSpec => []RegistryExact
<1>1. StakingInv => RegistryExact
  BY DEF StakingInv, BooksGood, RegistryExact
<1> QED
  BY <1>1, StakingInvariant, PTL

\* register-gateway.mjs and exit-gateway.mjs report success only if the stake is
\* in the state they report, whatever others did between preflight and receipt.
THEOREM CommandsHonest ==
    ASSUME StakingConstants
    PROVE  StakingSpec => CommandHonest
<1>1. StakingInv /\ [StakingNext]_stakingVars =>
        [cmd.at # "done" /\ cmd'.at = "done" =>
          CASE cmd.mode = "register" -> IsStaked(reg', cmd.o)
            [] cmd.mode = "exit"     -> HasStake(reg', cmd.o) /\ ~IsStaked(reg', cmd.o)
            [] cmd.mode = "withdraw" -> reg'.stakes[cmd.o] # calls[1].stakes[cmd.o]]_stakingVars
  BY StepHonest
<1> QED
  BY <1>1, StakingInvariant, PTL DEF CommandHonest, StakingSpec
=============================================================================
