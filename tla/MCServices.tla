----------------------------- MODULE MCServices -----------------------------
(***************************************************************************)
(* The services for TLC: the payment registrar, the Elder Tree's registry  *)
(* with and without stake, the directory it serves, relay telemetry, and   *)
(* the client's directory and rotation.  They share no state here, so a    *)
(* behaviour is one of any single one of them, and the others stay as they *)
(* began.                                                                  *)
(***************************************************************************)
EXTENDS Bootnode, Canopy, Registrar, TLC

CONSTANTS o1, o2, a1, a2, leaf

VARIABLES part,
          listing, probing, fails, versions, view,
          hour, counter, baseline, post, net, node, contributions, relayed, restarts,
          failures, down, saved, deficit, steady, picks, sessions

served == <<listing, probing, fails, versions, view>>
telemetry == <<hour, counter, baseline, post, net, node, contributions, relayed, restarts>>
rotation == <<failures, down, saved, deficit, steady, picks, sessions>>

\* The gateways of the registry without stake; either may play the part of o1,
\* which is the only one where a stake is required.
Both == {o1, o2}

\* Admission without stake, with a store; the chain is quiet and knows of no stake,
\* but it is asked.
Open == INSTANCE Bootnode WITH
    Onions <- Both, RequireStake <- FALSE, Storing <- TRUE,
    MaxTime <- 2, MaxStakes <- 0

\* Admission by stake with a store, a clock that is ahead in place of a block
\* that is old, and one record.
Stored == INSTANCE Bootnode WITH Storing <- TRUE, Lag <- 0, Ahead <- 1, MaxRecords <- 1

Delta == INSTANCE DirectoryDelta WITH
    Onions <- Both, Weights <- {1}, FailThreshold <- 1, History <- 2

Telemetry == INSTANCE RelayTelemetry WITH
    MaxRate <- 3, MaxInterval <- 3, Retention <- 3, Delay <- 2, Hour <- 1, Transit <- 1,
    MaxTime <- 4, MaxBytes <- 2, MaxBoots <- 2, MaxRestarts <- 1,
    now <- hour

Rotation == INSTANCE GatewayRotation WITH
    Weight <- <<1, 1, 2>>, MaxPicks <- 4, MaxSessions <- 2, fails <- failures

\* The commitment and the tier that every payment is for.
MCFor == [a \in {a1, a2} |-> leaf]

MCTierOf == leaf :> 1

\* The registrar with one authorization only, and one more block and fault.
OnePayment == INSTANCE Registrar WITH
    Auths <- {a1}, For <- a1 :> leaf, MaxBlocks <- MaxBlocks + 1, MaxFaults <- MaxFaults + 1

ASSUME MCConstants == RegistrarConstants /\ OnePayment!RegistrarConstants

-----------------------------------------------------------------------------
MCInit ==
    /\ part \in {"staked", "stored", "open", "served", "telemetry", "canopy", "rotation", "payment", "payments"}
    /\ part = "open" => Open!Init
    /\ part = "stored" => Stored!Init
    /\ part \notin {"open", "stored"} => Init
    /\ Delta!DeltaInit /\ Telemetry!RelayInit /\ CanopyInit
    /\ Rotation!RotationInit /\ (part # "rotation" => down = {})
    /\ IF part = "payment" THEN OnePayment!RegistrarInit ELSE RegistrarInit

MCNext ==
    /\ UNCHANGED part
    /\ \/ part = "staked" /\ Next /\ UNCHANGED <<served, telemetry, canopyVars, rotation, registrarVars>>
       \/ part = "stored" /\ Stored!Next /\ UNCHANGED <<served, telemetry, canopyVars, rotation, registrarVars>>
       \/ part = "open" /\ Open!Next /\ UNCHANGED <<served, telemetry, canopyVars, rotation, registrarVars>>
       \/ part = "served" /\ Delta!DeltaNext /\ UNCHANGED <<vars, telemetry, canopyVars, rotation, registrarVars>>
       \/ part = "telemetry" /\ Telemetry!RelayNext /\ UNCHANGED <<vars, served, canopyVars, rotation, registrarVars>>
       \/ part = "canopy" /\ CanopyNext /\ UNCHANGED <<vars, served, telemetry, rotation, registrarVars>>
       \/ part = "rotation" /\ Rotation!RotationNext /\ UNCHANGED <<vars, served, telemetry, canopyVars, registrarVars>>
       \/ part = "payment" /\ OnePayment!RegistrarNext /\ UNCHANGED <<vars, served, telemetry, canopyVars, rotation>>
       \/ part = "payments" /\ RegistrarNext /\ UNCHANGED <<vars, served, telemetry, canopyVars, rotation>>

MCSpec == MCInit /\ [][MCNext]_<<part, vars, served, telemetry, canopyVars, rotation, registrarVars>>

-----------------------------------------------------------------------------
\* The directory: a delta leads to what was signed.
DeltaRebuilds == Delta!DeltaRebuilds

\* Telemetry: no byte is counted twice.
BytesCountedOnce == part = "telemetry" => Telemetry!BytesCountedOnce

\* Telemetry: what is published does not change.
PublicationStable == Telemetry!PublicationStable

\* The client's rotation: shares are as the weights say, and deficits bounded.
RotationFair == part = "rotation" => Rotation!SharesExact /\ Rotation!DeficitsBounded
=============================================================================
