-------------------------- MODULE MCGatewayHandler --------------------------
(***************************************************************************)
(* Small instances of GatewayHandler for TLC: with room for everybody, with*)
(* one tunnel per nullifier, and with one connection at a time.            *)
(***************************************************************************)
EXTENDS GatewayHandler

VARIABLE caps

OnePerNullifier == INSTANCE GatewayHandler WITH MaxPerNullifier <- 1

OneAtATime == INSTANCE GatewayHandler WITH MaxConns <- 1

MCInit == caps \in {"roomy", "nullifier", "total"} /\ Init

MCNext ==
    /\ UNCHANGED caps
    /\ \/ caps = "roomy" /\ Next
       \/ caps = "nullifier" /\ OnePerNullifier!Next
       \/ caps = "total" /\ OneAtATime!Next

\* The limits are read when a connection is accepted and when it is admitted;
\* what the fairness is about depends on the second one only.
MCFairness ==
    /\ \A c \in Conns :
          /\ WF_vars(IF caps = "nullifier" THEN OnePerNullifier!Checked(c) ELSE Checked(c))
          /\ WF_vars(Deadline(c)) /\ WF_vars(CloseEvent(c))
    /\ WF_vars(Drained \/ GraceTimeout)

MCSpec == MCInit /\ [][MCNext]_<<caps, vars>> /\ MCFairness

RoomySpec == caps = "roomy" /\ Init /\ [][Next /\ UNCHANGED caps]_<<caps, vars>> /\ Fairness
=============================================================================
