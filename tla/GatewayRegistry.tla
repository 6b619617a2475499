--------------------------- MODULE GatewayRegistry ---------------------------
(***************************************************************************)
(* contracts/GatewayRegistry.sol: the bonds of the gateways' operators.    *)
(* Each function is a condition and a function from the storage G to the   *)
(* storage; who may call what, and the payout that ends two of them, are   *)
(* in GatewayStaking.                                                      *)
(***************************************************************************)
EXTENDS Integers, FiniteSets

CONSTANTS
    Operators,      \* addresses that may hold a stake
    Bond,           \* BOND
    UnbondingTime   \* UNBONDING

NoStake == [bond |-> 0, index |-> 0, exitInitiatedAt |-> 0]

NewRegistry(owner) ==
    [stakes |-> [o \in Operators |-> NoStake],
     nextIndex |-> 0,
     activeCount |-> 0,
     owner |-> owner,
     balance |-> 0]

HasStake(G, o) == G.stakes[o].bond # 0

\* isStaked(): what an Elder Tree and its clients ask.
IsStaked(G, o) == HasStake(G, o) /\ G.stakes[o].exitInitiatedAt = 0

WithdrawableAt(G, o) ==
    IF HasStake(G, o) /\ ~IsStaked(G, o) THEN G.stakes[o].exitInitiatedAt + UnbondingTime ELSE 0

CanRegister(G, o) == ~HasStake(G, o)

Registered(G, o) ==
    [G EXCEPT !.stakes[o] = [bond |-> Bond, index |-> G.nextIndex, exitInitiatedAt |-> 0],
              !.nextIndex = @ + 1,
              !.activeCount = @ + 1,
              !.balance = @ + Bond]

CanExit(G, o) == IsStaked(G, o)

Exiting(G, o, time) ==
    [G EXCEPT !.stakes[o].exitInitiatedAt = time, !.activeCount = @ - 1]

CanWithdraw(G, o, time) == HasStake(G, o) /\ ~IsStaked(G, o) /\ time >= WithdrawableAt(G, o)

Withdrawn(G, o) == [G EXCEPT !.stakes[o] = NoStake, !.balance = @ - G.stakes[o].bond]

\* Mutant: an operator that is exiting is counted out a second time.
SlashedTwiceCounted(G, o) ==
    [G EXCEPT !.stakes[o] = NoStake,
              !.activeCount = @ - 1,
              !.balance = @ - G.stakes[o].bond]

SlashedGateway(G, o) ==
    [G EXCEPT !.stakes[o] = NoStake,
              !.activeCount = IF IsStaked(G, o) THEN @ - 1 ELSE @,
              !.balance = @ - G.stakes[o].bond]

OwnedBy(G, to) == [G EXCEPT !.owner = to]
=============================================================================
