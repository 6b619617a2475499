----------------------------- MODULE MCContracts -----------------------------
(***************************************************************************)
(* The three contracts for TLC.  They share no state and do not call each  *)
(* other, so a behaviour is one of any single one of them: the choice is   *)
(* made at the start and the others stay as deployed.                      *)
(***************************************************************************)
EXTENDS GroupReplay, PaidAccess, GatewayStaking

CONSTANTS a, b, alice, bob, nobody

MCBondOf == (1 :> 1) @@ (2 :> 3)

MCTierOf == (a :> 1) @@ (b :> 2) @@ (Blank :> 0)

MCBatches == {<<[c |-> a, limit |-> 1], [c |-> b, limit |-> 2]>>,
              <<[c |-> b, limit |-> 1], [c |-> a, limit |-> 1]>>}

ASSUME MCConstants == StakingConstants

VARIABLE part

MCInit ==
    /\ part \in {"staked", "paid", "gateways"}
    /\ Init
    /\ PaidInit /\ paid.operator = alice
    /\ StakingInit /\ reg.owner = alice

MCNext ==
    /\ UNCHANGED part
    /\ \/ part = "staked" /\ Next /\ UNCHANGED <<paid, stakingVars>>
       \/ part = "paid" /\ PaidNext /\ UNCHANGED <<vars, stakingVars>>
       \/ part = "gateways" /\ StakingNext /\ UNCHANGED <<vars, paid>>

MCSpec == MCInit /\ [][MCNext]_<<part, vars, paid, stakingVars>>
=============================================================================
