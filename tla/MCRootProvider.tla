--------------------------- MODULE MCRootProvider ---------------------------
(***************************************************************************)
(* Small instances of RootProvider for TLC: a gateway of one contract, and *)
(* one of two contracts whose roots are united.                            *)
(***************************************************************************)
EXTENDS RootProvider

CONSTANTS s1, s2

VARIABLE deployment

Composite == INSTANCE RootProvider WITH
    Sources <- {s1, s2}, Kinds <- {"node"}, HasStatic <- TRUE,
    F <- 1, Latencies <- {0}, MaxTime <- 6, MaxChanges <- 1

\* Both read their contracts in time, the hypothesis of ClosedWhenUnread.
ASSUME MCPrompt == Prompt /\ Composite!Prompt

\* Slow reads are explored with the provider that replays events.
MCInit ==
    \/ deployment = "single" /\ Init /\ (latency > 0 => kind = "node")
    \/ deployment = "composite" /\ Composite!Init

MCNext ==
    /\ UNCHANGED deployment
    /\ IF deployment = "single" THEN Next ELSE Composite!Next

MCSpec == MCInit /\ [][MCNext]_<<deployment, vars>>

SingleSpec == deployment = "single" /\ Init /\ [][Next /\ UNCHANGED deployment]_<<deployment, vars>>

\* A root that left the chain is not accepted for ever by a gateway of two
\* contracts.
UnionBounded == deployment = "composite" => Composite!AcceptedBounded

\* A source that has not been read for its freshness window admits nobody.
EitherFailsClosed == IF deployment = "single" THEN FailsClosed ELSE Composite!FailsClosed

\* After an outage each gateway soon accepts every current root again.
EitherCatchesUp == IF deployment = "single" THEN CatchesUp ELSE Composite!CatchesUp

\* A recent root is not turned away by the gateway of one contract.
SingleRecentAccepted == deployment = "single" => RecentAccepted
=============================================================================
