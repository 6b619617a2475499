---------------------------- MODULE MCSlotState -----------------------------
(***************************************************************************)
(* The slot allocator for one secret at two tiers.                         *)
(***************************************************************************)
EXTENDS SlotState, TLC

CONSTANTS p1, p2, tier1, tier2

\* The same secret enrolled at two tiers: each process has its own path.
TwoLeafOf == (p1 :> tier1) @@ (p2 :> tier2)
TwoLimit == (tier1 :> 1) @@ (tier2 :> 2)
=============================================================================
