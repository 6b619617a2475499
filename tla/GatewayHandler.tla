--------------------------- MODULE GatewayHandler ---------------------------
(***************************************************************************)
(* makeHandler() of gateway/gateway.mjs: one client connection from accept *)
(* to close, with the connection limiter, the payload budget and graceful  *)
(* shutdown.                                                               *)
(*                                                                         *)
(* The handler awaits four times (envelope, verification and admission,    *)
(* DNS, connect) and between any two steps the client may vanish.  Node    *)
(* marks a socket destroyed at once and runs its close listeners later:    *)
(* `sock` tells the two apart, and `listeners` is what CloseEvent will run.*)
(* Clients and destinations owe us nothing: only the gateway's own timers  *)
(* and callbacks are fair.                                                 *)
(***************************************************************************)
EXTENDS Naturals, FiniteSets

CONSTANTS
    Conns,              \* client connections
    Nullifiers,
    MaxConns,           \* SHADE_TREE_MAX_CONNS
    MaxPerNullifier,    \* SHADE_TREE_MAX_CONNS_PER_NULLIFIER
    MaxBytes,           \* SHADE_TREE_TUNNEL_MAX_PAYLOAD_BYTES
    MaxChunk,           \* the largest chunk a stream delivers
    MaxAddrs            \* MAX_EGRESS_ADDRESSES

ASSUME HandlerAssumption ==
    /\ IsFiniteSet(Conns)
    /\ {MaxConns, MaxPerNullifier, MaxBytes, MaxChunk, MaxAddrs} \subseteq Nat \ {0}

VARIABLES
    pc,         \* pc[c]: what the handler of c waits for
    sock,       \* sock[c]: the client socket
    null,       \* null[c]: the nullifier of c's envelope
    listeners,  \* listeners[c]: what the close event of c's socket releases
    left,       \* left[c]: pinned addresses not dialed yet
    up,         \* up[c]: the upstream socket
    opened,     \* opened[c]: tunnelOpened
    closes,     \* closes[c]: the reasons c was counted under in tunnelCloses
    total,      \* limiter: connections
    perNull,    \* limiter: tunnels per nullifier
    budget,     \* payload budget entries
    tunnels,    \* activeTunnels
    phase       \* "serving", "draining", or how the process exited

connVars == <<pc, sock, null, listeners, left, up, opened, closes>>
vars == <<connVars, total, perNull, budget, tunnels, phase>>

NoEntry == [used |-> 0, active |-> 0, old |-> FALSE, live |-> FALSE]

Entry == [used : 0..MaxBytes, active : 0..Cardinality(Conns), old : BOOLEAN, live : BOOLEAN]

Init ==
    /\ pc = [c \in Conns |-> "done"]
    /\ sock = [c \in Conns |-> "closed"]
    /\ null \in [Conns -> Nullifiers]
    /\ listeners = [c \in Conns |-> {}]
    /\ left = [c \in Conns |-> 0]
    /\ up = [c \in Conns |-> "none"]
    /\ opened = [c \in Conns |-> FALSE]
    /\ closes = [c \in Conns |-> {}]
    /\ total = 0
    /\ perNull = [n \in Nullifiers |-> 0]
    /\ budget = [n \in Nullifiers |-> NoEntry]
    /\ tunnels = 0
    /\ phase = "serving"

Running == phase \in {"serving", "draining"}

-----------------------------------------------------------------------------
(* Sockets.                                                                *)

\* Not socket.destroyed.
Alive(c) == sock[c] \in {"alive", "ending"}

\* socket.destroy(): the close listeners run later.
DestroyedIf(cond, c) ==
    sock' = IF cond /\ Alive(c) THEN [sock EXCEPT ![c] = "destroyed"] ELSE sock

Destroy(c) == DestroyedIf(TRUE, c)

Goto(c, p) == pc' = [pc EXCEPT ![c] = p]

Upstream(c, u) == up' = [up EXCEPT ![c] = u]

\* end() and destroySoon(): the socket closes when its peer lets it.
ClientEnding(c) ==
    sock' = IF sock[c] = "alive" THEN [sock EXCEPT ![c] = "ending"] ELSE sock

UpstreamEnding(c) ==
    up' = IF up[c] = "open" THEN [up EXCEPT ![c] = "ending"] ELSE up

\* A drop: reply, destroy, return.
Fail(c) == Goto(c, "done") /\ Destroy(c)

-----------------------------------------------------------------------------
(* Accept, envelope, verification.                                         *)

\* The limiter is asked before a byte is read; over the cap the socket is
\* destroyed and holds nothing.
Accept(c, n) ==
    /\ phase = "serving"
    /\ pc[c] \in {"done", "refused"} /\ sock[c] = "closed"
    /\ null' = [null EXCEPT ![c] = n]
    /\ up' = [up EXCEPT ![c] = "none"]
    /\ closes' = [closes EXCEPT ![c] = {}]
    /\ IF total >= MaxConns
       THEN /\ sock' = [sock EXCEPT ![c] = "destroyed"]
            /\ Goto(c, "refused")
            /\ UNCHANGED <<listeners, total>>
       ELSE /\ sock' = [sock EXCEPT ![c] = "alive"]
            /\ Goto(c, "reading")
            /\ listeners' = [listeners EXCEPT ![c] = {"slot"}]
            /\ total' = total + 1
    /\ UNCHANGED <<left, opened, perNull, budget, tunnels, phase>>

ReadEnvelope(c) ==
    /\ Running
    /\ pc[c] = "reading" /\ Alive(c)
    /\ Goto(c, "checking")
    /\ UNCHANGED <<sock, null, listeners, left, up, opened, closes,
                   total, perNull, budget, tunnels, phase>>

\* Mutant: without the deadline, only a client that goes away ends the read.
ReadFailsOnClose(c) ==
    /\ Running
    /\ pc[c] = "reading" /\ ~Alive(c)
    /\ Fail(c)
    /\ UNCHANGED <<null, listeners, left, up, opened, closes,
                   total, perNull, budget, tunnels, phase>>

\* The deadline, the size cap, an early close, bad JSON, version or target.
ReadFails(c) ==
    /\ Running
    /\ pc[c] = "reading"
    /\ Fail(c)
    /\ UNCHANGED <<null, listeners, left, up, opened, closes,
                   total, perNull, budget, tunnels, phase>>

\* The proof is invalid or the spent set says no.
CheckFails(c) ==
    /\ Running
    /\ pc[c] = "checking"
    /\ Fail(c)
    /\ UNCHANGED <<null, listeners, left, up, opened, closes,
                   total, perNull, budget, tunnels, phase>>

-----------------------------------------------------------------------------
(* The payload budget.                                                     *)

\* Mutant: entries in use age too.
SweepableInUse(e) == e.old

Sweepable(e) == e.active = 0 /\ e.old

Swept == [n \in Nullifiers |-> IF Sweepable(budget[n]) THEN NoEntry ELSE budget[n]]

\* acquire(): a new entry is allocated after a sweep of the old ones.
AcquireBudget(n) ==
    budget' = IF budget[n].live
              THEN [budget EXCEPT ![n].active = @ + 1]
              ELSE [Swept EXCEPT ![n] = [used |-> 0, active |-> 1, old |-> FALSE, live |-> TRUE]]

\* release() stamps the entry when its last holder goes.
ReleaseBudget(n) ==
    budget' = [budget EXCEPT ![n].active = @ - 1,
                             ![n].old = IF budget[n].active = 1 THEN FALSE ELSE @]

\* Two epochs have passed since the entry's stamp.
Age(n) ==
    /\ Running
    /\ budget[n].live /\ ~budget[n].old
    /\ budget' = [budget EXCEPT ![n].old = TRUE]
    /\ UNCHANGED <<connVars, total, perNull, tunnels, phase>>

\* sweep(), once per epoch until the drain begins.
Sweep ==
    /\ phase = "serving"
    /\ budget' = Swept
    /\ UNCHANGED <<connVars, total, perNull, tunnels, phase>>

-----------------------------------------------------------------------------
(* Admission.                                                              *)

\* The proof's nullifier already holds its share of tunnels.
NullifierLimit(c) ==
    /\ Running
    /\ pc[c] = "checking"
    /\ perNull[null[c]] >= MaxPerNullifier
    /\ Fail(c)
    /\ UNCHANGED <<null, listeners, left, up, opened, closes,
                   total, perNull, budget, tunnels, phase>>

\* Mutant: the slot taken for a client that is gone is not given back.
AdmittedGoneKept(c) ==
    /\ Running
    /\ pc[c] = "checking"
    /\ perNull[null[c]] < MaxPerNullifier
    /\ ~Alive(c)
    /\ Goto(c, "done")
    /\ perNull' = [perNull EXCEPT ![null[c]] = @ + 1]
    /\ UNCHANGED <<sock, null, listeners, left, up, opened, closes,
                   total, budget, tunnels, phase>>

\* The client left while the proof was checked: the nullifier's slot is taken
\* and released again.
AdmittedGone(c) ==
    /\ Running
    /\ pc[c] = "checking"
    /\ perNull[null[c]] < MaxPerNullifier
    /\ ~Alive(c)
    /\ Goto(c, "done")
    /\ UNCHANGED <<sock, null, listeners, left, up, opened, closes,
                   total, perNull, budget, tunnels, phase>>

\* Take the slot and the payload budget, both until the socket closes; with
\* no budget left the connection is dropped.
Admitted(c) ==
    /\ Running
    /\ pc[c] = "checking"
    /\ perNull[null[c]] < MaxPerNullifier
    /\ Alive(c)
    /\ perNull' = [perNull EXCEPT ![null[c]] = @ + 1]
    /\ AcquireBudget(null[c])
    /\ listeners' = [listeners EXCEPT ![c] = @ \cup {"nullifier", "payload"}]
    /\ IF budget[null[c]].used >= MaxBytes THEN Fail(c)
       ELSE Goto(c, "resolving") /\ UNCHANGED sock
    /\ UNCHANGED <<null, left, up, opened, closes, total, tunnels, phase>>

-----------------------------------------------------------------------------
(* DNS and dialing.                                                        *)

\* DNS fails or times out, or an answer is not a public address.
ResolveFails(c) ==
    /\ Running
    /\ pc[c] = "resolving"
    /\ Fail(c)
    /\ UNCHANGED <<null, listeners, left, up, opened, closes,
                   total, perNull, budget, tunnels, phase>>

ResolvedGone(c) ==
    /\ Running
    /\ pc[c] = "resolving"
    /\ ~Alive(c)
    /\ Goto(c, "done")
    /\ UNCHANGED <<sock, null, listeners, left, up, opened, closes,
                   total, perNull, budget, tunnels, phase>>

\* Mutant: cleanup of the upstream is not attached before dialing.
ResolvedUnguarded(c, k) ==
    /\ Running
    /\ pc[c] = "resolving"
    /\ Alive(c)
    /\ left' = [left EXCEPT ![c] = k - 1]
    /\ Upstream(c, "connecting")
    /\ Goto(c, "dialing")
    /\ UNCHANGED <<sock, null, listeners, opened, closes,
                   total, perNull, budget, tunnels, phase>>

\* k addresses are pinned; cleanup is attached and the first one is dialed.
Resolved(c, k) ==
    /\ Running
    /\ pc[c] = "resolving"
    /\ Alive(c)
    /\ left' = [left EXCEPT ![c] = k - 1]
    /\ listeners' = [listeners EXCEPT ![c] = @ \cup {"tunnel"}]
    /\ Upstream(c, "connecting")
    /\ Goto(c, "dialing")
    /\ UNCHANGED <<sock, null, opened, closes, total, perNull, budget, tunnels, phase>>

\* The address errors or its slice of the deadline ends: dial the next one.
DialNext(c) ==
    /\ Running
    /\ pc[c] = "dialing"
    /\ up[c] = "connecting"
    /\ left[c] > 0 /\ Alive(c)
    /\ left' = [left EXCEPT ![c] = @ - 1]
    /\ UNCHANGED <<pc, sock, null, listeners, up, opened, closes,
                   total, perNull, budget, tunnels, phase>>

\* No address is left, the shared deadline has passed, or the client is gone.
DialFails(c) ==
    /\ Running
    /\ pc[c] = "dialing"
    /\ up[c] = "connecting"
    /\ Upstream(c, "destroyed")
    /\ Fail(c)
    /\ UNCHANGED <<null, listeners, left, opened, closes,
                   total, perNull, budget, tunnels, phase>>

\* The connect callback for a client that is gone.
ConnectedGone(c) ==
    /\ Running
    /\ pc[c] = "dialing"
    /\ up[c] = "connecting"
    /\ ~Alive(c)
    /\ Upstream(c, "destroyed")
    /\ Goto(c, "done")
    /\ UNCHANGED <<sock, null, listeners, left, opened, closes,
                   total, perNull, budget, tunnels, phase>>

\* The tunnel opens (the spent set's commit() is SpentSet!Commit).
Connected(c) ==
    /\ Running
    /\ pc[c] = "dialing"
    /\ up[c] = "connecting"
    /\ Alive(c)
    /\ Upstream(c, "open")
    /\ Goto(c, "open")
    /\ opened' = [opened EXCEPT ![c] = TRUE]
    /\ tunnels' = tunnels + 1
    /\ UNCHANGED <<sock, null, listeners, left, closes, total, perNull, budget, phase>>

-----------------------------------------------------------------------------
(* The relay.                                                              *)

MinOf(a, b) == IF a <= b THEN a ELSE b

\* Mutant: the boundary chunk is not truncated.
AllowedWhole(n, b) == IF budget[n].used < MaxBytes THEN b ELSE 0

\* take(): what the slot's budget lets through of b bytes.
Allowed(n, b) == MinOf(b, MaxBytes - budget[n].used)

\* A chunk in either direction is cut at the slot's budget, read from the
\* client while its socket lives or from the destination while that sends.
\* When the budget is exhausted both sockets are told to close once what was
\* let through has been flushed, unless a reason to close was noted before.
Chunk(c, b) ==
    LET n == null[c]
        used == budget[n].used + Allowed(n, b)
    IN  /\ Running
        /\ pc[c] = "open"
        /\ Alive(c) \/ up[c] = "open"
        /\ budget' = [budget EXCEPT ![n].used = used]
        /\ IF used >= MaxBytes /\ closes[c] = {}
           THEN /\ closes' = [closes EXCEPT ![c] = {"payload-limit"}]
                /\ ClientEnding(c)
                /\ UpstreamEnding(c)
           ELSE UNCHANGED <<closes, sock, up>>
        /\ UNCHANGED <<pc, null, listeners, left, opened, total, perNull, tunnels, phase>>

\* The last bytes reach the destination.
UpstreamFlushed(c) ==
    /\ Running
    /\ up[c] = "ending"
    /\ Upstream(c, "destroyed")
    /\ UNCHANGED <<pc, sock, null, listeners, left, opened, closes,
                   total, perNull, budget, tunnels, phase>>

\* The destination closes its side: both sockets are ended, not destroyed.
UpstreamEnds(c) ==
    /\ Running
    /\ pc[c] = "open"
    /\ up[c] = "open"
    /\ UpstreamEnding(c)
    /\ ClientEnding(c)
    /\ UNCHANGED <<pc, null, listeners, left, opened, closes,
                   total, perNull, budget, tunnels, phase>>

UpstreamError(c) ==
    /\ Running
    /\ pc[c] = "open"
    /\ up[c] \in {"open", "ending"}
    /\ closes' = [closes EXCEPT ![c] = IF @ = {} THEN {"upstream-error"} ELSE @]
    /\ Upstream(c, "destroyed")
    /\ Destroy(c)
    /\ UNCHANGED <<pc, null, listeners, left, opened, total, perNull, budget, tunnels, phase>>

\* Mutant: the connect timer is not armed again for the relay.
IdleTimeoutConnecting(c) ==
    /\ Running
    /\ pc[c] = "dialing"
    /\ up[c] = "connecting"
    /\ Upstream(c, "destroyed")
    /\ Destroy(c)
    /\ UNCHANGED <<pc, null, listeners, left, opened, closes, total, perNull, budget, tunnels, phase>>

\* The upstream socket saw no activity; the reason is counted whether or not
\* one was counted before.
IdleTimeout(c) ==
    /\ Running
    /\ pc[c] = "open"
    /\ up[c] \in {"open", "ending"}
    /\ closes' = [closes EXCEPT ![c] = @ \cup {"idle-timeout"}]
    /\ Upstream(c, "destroyed")
    /\ Destroy(c)
    /\ UNCHANGED <<pc, null, listeners, left, opened, total, perNull, budget, tunnels, phase>>

-----------------------------------------------------------------------------
(* The end of a connection.                                                *)

\* The client closes or resets, or takes the last bytes of an ended socket.
ClientGone(c) ==
    /\ Running
    /\ Alive(c)
    /\ Destroy(c)
    /\ UNCHANGED <<pc, null, listeners, left, up, opened, closes,
                   total, perNull, budget, tunnels, phase>>

\* The close event: every listener attached so far runs, once.
CloseEvent(c) ==
    /\ Running
    /\ sock[c] = "destroyed"
    /\ sock' = [sock EXCEPT ![c] = "closed"]
    /\ listeners' = [listeners EXCEPT ![c] = {}]
    /\ total' = IF "slot" \in listeners[c] THEN total - 1 ELSE total
    /\ perNull' = IF "nullifier" \in listeners[c]
                  THEN [perNull EXCEPT ![null[c]] = @ - 1] ELSE perNull
    /\ IF "payload" \in listeners[c] THEN ReleaseBudget(null[c]) ELSE UNCHANGED budget
    /\ IF "tunnel" \in listeners[c]
       THEN /\ opened' = [opened EXCEPT ![c] = FALSE]
            /\ tunnels' = IF opened[c] /\ tunnels > 0 THEN tunnels - 1 ELSE tunnels
            /\ Upstream(c, "destroyed")
       ELSE UNCHANGED <<opened, tunnels, up>>
    /\ pc' = IF pc[c] \in {"dialing", "open"} THEN [pc EXCEPT ![c] = "done"] ELSE pc
    /\ UNCHANGED <<null, left, closes, phase>>

-----------------------------------------------------------------------------
(* makeGracefulShutdown().                                                 *)

\* The first SIGTERM or SIGINT stops the listener and the timers.
Signal ==
    /\ phase = "serving"
    /\ phase' = "draining"
    /\ UNCHANGED <<connVars, total, perNull, budget, tunnels>>

\* server.close() calls back once every connection has ended.
Drained ==
    /\ phase = "draining"
    /\ \A c \in Conns : sock[c] = "closed"
    /\ phase' = "exit-0"
    /\ UNCHANGED <<connVars, total, perNull, budget, tunnels>>

\* The grace window ends first: the rest is destroyed and the process exits.
GraceTimeout ==
    /\ phase = "draining"
    /\ phase' = "exit-1"
    /\ sock' = [c \in Conns |-> IF Alive(c) THEN "destroyed" ELSE sock[c]]
    /\ UNCHANGED <<pc, null, listeners, left, up, opened, closes,
                   total, perNull, budget, tunnels>>

-----------------------------------------------------------------------------

\* Verification and admission, which the gateway finishes by itself.
Checked(c) == CheckFails(c) \/ NullifierLimit(c) \/ AdmittedGone(c) \/ Admitted(c)

\* Steps a deadline of the gateway takes when nothing else comes first.  On an
\* open relay it is the idle timer: the payload budget bounds how often
\* traffic can restart it.
Deadline(c) ==
    \/ ReadFails(c) \/ ResolveFails(c) \/ DialNext(c) \/ DialFails(c)
    \/ up[c] = "open" /\ IdleTimeout(c)

\* What the gateway waits for.
Peer(c) ==
    \/ \E n \in Nullifiers : Accept(c, n)
    \/ ReadEnvelope(c)
    \/ ResolvedGone(c) \/ \E k \in 1..MaxAddrs : Resolved(c, k)
    \/ ConnectedGone(c) \/ Connected(c)
    \/ \E b \in 1..MaxChunk : Chunk(c, b)
    \/ UpstreamFlushed(c) \/ UpstreamEnds(c) \/ UpstreamError(c)
    \/ up[c] = "ending" /\ IdleTimeout(c)
    \/ ClientGone(c)

Next ==
    \/ \E c \in Conns : Checked(c) \/ Deadline(c) \/ Peer(c) \/ CloseEvent(c)
    \/ Sweep \/ \E n \in Nullifiers : Age(n)
    \/ Signal \/ Drained \/ GraceTimeout

Spec == Init /\ [][Next]_vars

\* Verification ends, deadlines pass and the event loop runs close listeners;
\* clients, destinations, resolvers and signals are not fair.
Fairness ==
    /\ \A c \in Conns : WF_vars(Checked(c)) /\ WF_vars(Deadline(c)) /\ WF_vars(CloseEvent(c))
    /\ WF_vars(Drained \/ GraceTimeout)

FairSpec == Spec /\ Fairness

-----------------------------------------------------------------------------
(* Properties.                                                             *)

\* Types; among them, a slot never relays more than its payload budget.
TypeOK ==
    /\ pc \in [Conns -> {"done", "refused", "reading", "checking", "resolving", "dialing", "open"}]
    /\ sock \in [Conns -> {"alive", "ending", "destroyed", "closed"}]
    /\ null \in [Conns -> Nullifiers]
    /\ listeners \in [Conns -> SUBSET {"slot", "nullifier", "payload", "tunnel"}]
    /\ left \in [Conns -> 0..MaxAddrs]
    /\ up \in [Conns -> {"none", "connecting", "open", "ending", "destroyed"}]
    /\ opened \in [Conns -> BOOLEAN]
    /\ closes \in [Conns -> SUBSET {"payload-limit", "upstream-error", "idle-timeout"}]
    /\ total \in 0..MaxConns
    /\ perNull \in [Nullifiers -> 0..MaxPerNullifier]
    /\ budget \in [Nullifiers -> Entry]
    /\ tunnels \in 0..Cardinality(Conns)
    /\ phase \in {"serving", "draining", "exit-0", "exit-1"}

Holders(what, n) == {c \in Conns : what \in listeners[c] /\ null[c] = n}

\* The active-tunnels gauge counts the tunnels whose client socket is open.
GaugeExact ==
    tunnels = Cardinality({c \in Conns : pc[c] = "open" /\ sock[c] # "closed"})

\* Nothing leaks: whenever the client vanishes, between any two awaits, each
\* counter is exactly what the sockets that are still to close will give
\* back, the gauge included, and a closed socket holds nothing.
NothingLeaks ==
    /\ total = Cardinality({c \in Conns : sock[c] # "closed" /\ pc[c] # "refused"})
    /\ \A n \in Nullifiers :
          /\ perNull[n] = Cardinality(Holders("nullifier", n))
          /\ budget[n].active = Cardinality(Holders("payload", n))
    /\ \A c \in Conns : sock[c] = "closed" => listeners[c] = {}
    /\ GaugeExact

\* No upstream connection outlives its client socket, whatever races with
\* the connect callback; so a clean exit leaves none behind.
NoOrphanUpstream ==
    \A c \in Conns : up[c] \in {"connecting", "open", "ending"} => sock[c] # "closed"

\* While a connection under n is open, n's payload allowance is not restored.
BudgetNotRestored ==
    [][\A n \in Nullifiers :
          Holders("payload", n) # {} => budget'[n].used >= budget[n].used]_vars

\* Before a tunnel is open nothing depends on the client: each connection
\* gets its answer.
AnsweredInTime ==
    \A c \in Conns :
        (pc[c] \in {"reading", "checking", "resolving", "dialing"} /\ Running)
            ~> (pc[c] \in {"open", "done"} \/ ~Running)

\* No tunnel relays forever: the idle timer or the payload budget ends it,
\* whatever client and destination do.
RelayEnds ==
    \A c \in Conns : (up[c] = "open" /\ Running) ~> (up[c] # "open" \/ ~Running)

\* docs/THREAT-MODEL.md: "relay idle timeout on both sockets", so a tunnel whose
\* upstream is gone ends too.
TunnelEnds ==
    \A c \in Conns : (pc[c] = "open" /\ up[c] = "destroyed" /\ Running)
                        ~> (sock[c] = "closed" \/ ~Running)
=============================================================================
