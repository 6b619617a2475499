------------------------------ MODULE MCClient ------------------------------
(***************************************************************************)
(* The clients for TLC: the slot allocator, the tunnels, and the proxy of  *)
(* the Rust client with two threads and with one.  They share no state     *)
(* here, so a behaviour is one of any, and the others stay as they began.  *)
(***************************************************************************)
EXTENDS SlotState, ClientTunnel

CONSTANTS p1, p2, tier1, g1, g2, new, old, ancient, c1, c2, w1, w2

\* Two processes of one member at one tier: they share a path.
OneLeafOf == (p1 :> tier1) @@ (p2 :> tier1)
OneLimit == (tier1 :> 2)

\* One gateway does not advertise and takes what the client no longer offers;
\* the other takes the older of the client's profiles.
MCProfiles == <<new, old>>
MCAds == (g1 :> {}) @@ (g2 :> {old})
MCAccepts == (g1 :> {ancient}) @@ (g2 :> {old})

VARIABLES part, time, cache, health, failed, cursor, queue, replies, closed,
          work, proofs, crashes

proxy == <<time, cache, health, failed, cursor, queue, replies, closed, work,
           proofs, crashes>>

\* Two threads that share the files, after one proof of an earlier run; and one,
\* with a channel that one agent fills and a gateway to fall back on.
Pair == INSTANCE RustProxy WITH
    Agents <- {c1, c2}, Workers <- {w1, w2}, Gateways <- {g1}, Slots <- 2,
    LastEpoch <- 1, MaxIssued <- 1, MaxCrashes <- 1, clock <- time, offered <- proofs

Single == INSTANCE RustProxy WITH
    Agents <- {c1, c2}, Workers <- {w1}, Gateways <- {g1, g2}, Slots <- 2,
    LastEpoch <- 1, MaxIssued <- 2, MaxCrashes <- 1, clock <- time, offered <- proofs

ASSUME MCConstants ==
    TunnelConstants /\ Pair!ProxyConstants /\ Single!ProxyConstants

MCInit ==
    /\ part \in {"slots", "tunnels", "pair", "single"}
    /\ Init /\ TunnelInit
    /\ IF part = "single" THEN Single!ProxyInit ELSE Pair!ProxyInit
    /\ cursor.next = IF part = "pair" THEN 1 ELSE 0

MCNext ==
    /\ UNCHANGED part
    /\ \/ part = "slots" /\ Next /\ UNCHANGED <<tunnelVars, proxy>>
       \/ part = "tunnels" /\ TunnelNext /\ UNCHANGED <<vars, proxy>>
       \/ part = "pair" /\ Pair!ProxyNext /\ UNCHANGED <<vars, tunnelVars>>
       \/ part = "single" /\ Single!ProxyNext /\ UNCHANGED <<vars, tunnelVars>>

\* The fairness of each part, in its own behaviours.
MCFairness ==
    /\ \A p \in Procs : WF_vars(part = "slots" /\ CallStep(p))
    /\ \A e \in {0, 1} : WF_tunnelVars(part = "tunnels" /\ Loaded(e))
    /\ \A c \in {c1, c2} :
          /\ WF_tunnelVars(part = "tunnels" /\ Step(c))
          /\ WF_tunnelVars(part = "tunnels" /\ Deadline(c))
    /\ \A w \in {w1, w2} :
          /\ WF_proxy(part = "pair" /\ Pair!Take(w))
          /\ WF_proxy(part = "pair" /\ Pair!Serve(w))
    /\ WF_proxy(part = "single" /\ Single!Take(w1))
    /\ WF_proxy(part = "single" /\ Single!Serve(w1))

MCSpec == MCInit /\ [][MCNext]_<<part, vars, tunnelVars, proxy>> /\ MCFairness

\* No call keeps a socket it does not use; no two proofs of the proxy share a
\* nullifier, an agent gets one answer, and no gateway is held to have failed more
\* often than it did.
AccountsExact ==
    /\ NoSocketLeaks
    /\ part = "pair" => Pair!ProofsDistinct /\ Pair!OneAnswer /\ Pair!HealthEarned
    /\ part = "single" => Single!OneAnswer /\ Single!HealthEarned

\* Every call ends: that for a slot, that for a tunnel, and that of an agent
\* which waits for a thread of the proxy.
CallsEnd ==
    /\ CallReturns /\ CallEnds
    /\ \A c \in {c1, c2} :
          (part = "pair" /\ Pair!Waits(c)) ~> (part = "pair" => ~Pair!Waits(c))
    /\ \A c \in {c1, c2} :
          (part = "single" /\ Single!Waits(c)) ~> (part = "single" => ~Single!Waits(c))
=============================================================================
