--------------------------- MODULE RateCommitments ---------------------------
(***************************************************************************)
(* What both membership contracts are about: the leaves of their trees,    *)
(* which are rate commitments, and the tiers.  The contracts take any word *)
(* for a commitment, also the word 0 and that of an empty leaf; no secret  *)
(* is known that either is derived from.                                   *)
(***************************************************************************)
EXTENDS Naturals

CONSTANTS
    Commitments,    \* rate commitments, that is, leaves
    Zero,           \* the empty leaf, _zeroes[0]
    Blank,          \* the word 0, which storage holds where nothing was written
    Tiers,          \* the limits of the immutable tier table
    TierOf          \* TierOf[c]: the limit that c was derived with, 0 if nobody knows how

\* What the hash guarantees of the constants.
CommitmentFacts ==
    /\ Blank # Zero
    /\ TierOf \in [Commitments -> Nat]
    /\ \A c \in Commitments \cap {Blank, Zero} : TierOf[c] = 0
=============================================================================
