----------------------------- MODULE MCRegistrar -----------------------------
(***************************************************************************)
(* Small instances of Registrar for TLC.                                   *)
(***************************************************************************)
EXTENDS Registrar

CONSTANTS a1, a2, c1, h1, h2

\* Two authorizations for one commitment.
MCFor == [a \in Auths |-> c1]

MCTierOf == c1 :> 1
==============================================================================
