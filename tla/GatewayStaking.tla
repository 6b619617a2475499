--------------------------- MODULE GatewayStaking ---------------------------
(***************************************************************************)
(* The gateways' registry as it is used: any account calls it, the payees  *)
(* of withdraw() and slash() call back before they return, and operators   *)
(* run group/register-gateway.mjs and group/exit-gateway.mjs, which read   *)
(* the contract, decide, send a transaction and wait for its receipt.      *)
(***************************************************************************)
EXTENDS GatewayRegistry, Sequences

CONSTANTS
    MaxStakes,      \* bound: registrations
    MaxCalls,       \* bound: payouts that have not returned
    EndOfTime       \* bound: last block timestamp

StakingConstants ==
    /\ IsFiniteSet(Operators) /\ Bond \in Nat \ {0}
    /\ {UnbondingTime, MaxStakes, MaxCalls, EndOfTime} \subseteq Nat

VARIABLES
    reg,        \* storage of the contract
    calls,      \* the storage to which each payout in progress would revert
    clock,      \* block.timestamp
    cmd         \* the command that some operator runs

stakingVars == <<reg, calls, clock, cmd>>

Modes == {"register", "exit", "withdraw"}

Idle == [at |-> "idle"]

StakingInit ==
    /\ \E owner \in Operators : reg = NewRegistry(owner)
    /\ calls = << >>
    /\ clock = 1
    /\ cmd = Idle

-----------------------------------------------------------------------------
(* The functions, called in a transaction or by a payee.                   *)

RegisterGateway(o) ==
    /\ reg.nextIndex < MaxStakes
    /\ CanRegister(reg, o)
    /\ reg' = Registered(reg, o)
    /\ UNCHANGED calls

ExitGateway(o) ==
    /\ CanExit(reg, o)
    /\ reg' = Exiting(reg, o, clock)
    /\ UNCHANGED calls

WithdrawGateway(o) ==
    /\ Len(calls) < MaxCalls
    /\ CanWithdraw(reg, o, clock)
    /\ reg' = Withdrawn(reg, o)
    /\ calls' = Append(calls, reg)

SlashGateway(sender, o) ==
    /\ Len(calls) < MaxCalls
    /\ sender = reg.owner
    /\ HasStake(reg, o)
    /\ reg' = SlashedGateway(reg, o)
    /\ calls' = Append(calls, reg)

TransferOwnership(sender, to) ==
    /\ sender = reg.owner
    /\ reg' = OwnedBy(reg, to)
    /\ UNCHANGED calls

Returned == calls' = SubSeq(calls, 1, Len(calls) - 1)

\* The payee returns, or fails and everything since the payout is undone.
GatewayPayout ==
    /\ calls # << >>
    /\ reg' \in {reg, calls[Len(calls)]}
    /\ Returned

BlockTime ==
    /\ calls = << >>
    /\ clock < EndOfTime
    /\ clock' = clock + 1
    /\ UNCHANGED <<reg, calls, cmd>>

-----------------------------------------------------------------------------
(* An operator's command.                                                  *)

Would(o, mode) ==
    CASE mode = "register" -> CanRegister(reg, o)
      [] mode = "exit"     -> CanExit(reg, o)
      [] mode = "withdraw" -> CanWithdraw(reg, o, clock)

\* The state is read once, and what the contract would revert is refused: the
\* command ends without a transaction.
Preflight(o, mode) ==
    /\ cmd.at \in {"idle", "done"}
    /\ Would(o, mode)
    /\ cmd' = [at |-> "sent", mode |-> mode, o |-> o]
    /\ UNCHANGED <<reg, calls, clock>>

Attempt(o) ==
    CASE cmd.mode = "register" -> RegisterGateway(o)
      [] cmd.mode = "exit"     -> ExitGateway(o)
      [] cmd.mode = "withdraw" -> WithdrawGateway(o)

Succeeds == cmd' = [cmd EXCEPT !.at = "done"]

Fails == cmd' = Idle

\* Mutant: the receipt's status is not looked at.
MinedUnread ==
    /\ calls = << >>
    /\ cmd.at = "sent"
    /\ IF Would(cmd.o, cmd.mode) THEN Attempt(cmd.o) ELSE UNCHANGED <<reg, calls>>
    /\ Succeeds
    /\ UNCHANGED clock

\* The transaction is mined, after whatever others did since the preflight, and
\* the receipt says if it succeeded.  A withdrawal ends with its payout.
Mined ==
    /\ calls = << >>
    /\ cmd.at = "sent"
    /\ \/ /\ Attempt(cmd.o)
          /\ IF cmd.mode = "withdraw" THEN cmd' = [cmd EXCEPT !.at = "paying"] ELSE Succeeds
       \/ ~Would(cmd.o, cmd.mode) /\ UNCHANGED <<reg, calls>> /\ Fails
    /\ UNCHANGED clock

\* The outermost payout is that of the command.
PayingCommand == cmd.at = "paying" /\ Len(calls) = 1

Settled ==
    /\ PayingCommand
    /\ GatewayPayout
    /\ IF reg' = calls[1] THEN Fails ELSE Succeeds
    /\ UNCHANGED clock

\* The wait for the receipt times out: the command fails, and the transaction
\* may still be mined, which is a step of somebody.
WaitTimesOut ==
    /\ cmd.at = "sent"
    /\ Fails
    /\ UNCHANGED <<reg, calls, clock>>

Somebody ==
    /\ \/ \E o \in Operators :
             \/ RegisterGateway(o) \/ ExitGateway(o) \/ WithdrawGateway(o)
             \/ \E s \in Operators : SlashGateway(s, o) \/ TransferOwnership(s, o)
       \/ GatewayPayout /\ ~PayingCommand
    /\ UNCHANGED <<clock, cmd>>

StakingNext ==
    \/ Somebody \/ BlockTime
    \/ \E o \in Operators, mode \in Modes : Preflight(o, mode)
    \/ Mined \/ Settled \/ WaitTimesOut

StakingSpec == StakingInit /\ [][StakingNext]_stakingVars

-----------------------------------------------------------------------------
(* Properties.                                                             *)

Staked(G) == {o \in Operators : HasStake(G, o)}

Exact(G) ==
    /\ G.balance = Bond * Cardinality(Staked(G))
    /\ G.activeCount = Cardinality({o \in Operators : IsStaked(G, o)})
    /\ \A o, p \in Staked(G) : G.stakes[o].index = G.stakes[p].index => o = p

\* The registry holds exactly the bonds of its operators, counts exactly the
\* ones that are not exiting, and gives each stake an index of its own, through
\* nested calls and failing payees.
RegistryExact == Exact(reg)

\* What the command printed is what happened: a command that reported success
\* left the stake in the state it reported, though it had decided on a state
\* read earlier and others had acted since.
CommandHonest ==
    [][cmd.at # "done" /\ cmd'.at = "done" =>
          CASE cmd.mode = "register" -> IsStaked(reg', cmd.o)
            [] cmd.mode = "exit"     -> HasStake(reg', cmd.o) /\ ~IsStaked(reg', cmd.o)
            [] cmd.mode = "withdraw" -> reg'.stakes[cmd.o] # calls[1].stakes[cmd.o]]_stakingVars
=============================================================================
