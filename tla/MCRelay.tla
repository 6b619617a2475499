------------------------------- MODULE MCRelay -------------------------------
(***************************************************************************)
(* A small instance of RelayTelemetry for TLC: two boots of the gateway,   *)
(* two bytes, one restart of the Elder Tree.                               *)
(***************************************************************************)
EXTENDS RelayTelemetry
=============================================================================
