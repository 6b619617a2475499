----------------------------- MODULE MCSpentSet -----------------------------
(***************************************************************************)
(* Small instances of SpentSet for TLC.                                    *)
(***************************************************************************)
EXTENDS SpentSet, TLC

CONSTANTS g1, g2, n1, n2

\* One nullifier of the epoch the clock starts in.
OneEpochOf == (n1 :> 0)

\* Two nullifiers of consecutive epochs.
TwoEpochOf == (n1 :> 0) @@ (n2 :> 1)

NoSkew == [g \in Gateways |-> 0]

\* The second gateway's clock is one tick ahead.
SomeSkew == (g1 :> 0) @@ (g2 :> 1)

-----------------------------------------------------------------------------
(* Gateways without peers and gateways with a tally, in one run.           *)

VARIABLE alone

Alone == INSTANCE SpentSet WITH UseTally <- FALSE

\* What is presented: without peers, three envelopes with either signal under
\* one nullifier at one gateway; in the fleet, two envelopes with one signal.
Presented ==
    /\ ~alone => presented < MaxEnvelopes
    /\ \A c \in Conns : conn[c] # Idle =>
          IF alone THEN conn[c].gw = g1 /\ conn[c].n = n1 ELSE conn[c].x = "x1"

MCInit == alone \in BOOLEAN /\ Init

MCNext ==
    /\ IF alone THEN Alone!Next ELSE Next
    /\ UNCHANGED alone
    /\ Presented'

\* A fleet that is shown any envelopes.
FleetSpec == alone = FALSE /\ Init /\ [][Next /\ UNCHANGED alone]_<<alone, vars>>

MCSpec == MCInit /\ [][MCNext]_<<alone, vars>>
=============================================================================
