------------------------------ MODULE SpentSet ------------------------------
(***************************************************************************)
(* Admission at the gateways: verifyEnvelope() of lib/rln.mjs followed by  *)
(* makeSpentSet() of gateway/gateway.mjs, composed with the fleet tally.   *)
(*                                                                         *)
(* An envelope is a nullifier and a signal x.  verifyEnvelope() checks the *)
(* epoch by the gateway's clock at once and the proof later, so time, the  *)
(* sweep and other connections run in between; admit() is one synchronous  *)
(* step except for the wait on the slash transaction.                      *)
(***************************************************************************)
EXTENDS FleetTally, Sequences

CONSTANTS
    Conns,          \* client connections
    Signals,        \* values of the public signal x
    ReplayWindow,   \* SHADE_TREE_REPLAY_WINDOW_MS, in clock ticks
    UseTally,       \* whether the gateways have peers and a token
    MaxTime,        \* bound: end of time
    MaxEnvelopes    \* bound: envelopes presented in a behaviour

ASSUME SpentAssumption ==
    /\ ReplayWindow \in Nat /\ MaxTime \in Nat /\ MaxEnvelopes \in Nat
    /\ UseTally \in BOOLEAN
    /\ "none" \notin Signals

VARIABLES
    seen,       \* seen[g][n]: the entry of n at g, or NoEntry
    conn,       \* conn[c]: what the connection waits for
    presented,  \* envelopes presented so far
    history     \* what admit() decided, and the tunnels opened, in order

vars == <<now, tally, pushes, seen, conn, presented, history>>

\* A forgotten or never seen nullifier.
NoEntry == [x |-> "none", slashed |-> FALSE, at |-> 0]

Entry == [x : Signals, slashed : BOOLEAN, at : Nat]

Idle == [st |-> "idle"]

Call == [st : {"proving", "slashing", "admitted", "open"},
         gw : Gateways, n : Nullifiers, x : Signals]

Verdict == {"first", "replay", "fleet-replay", "late-replay", "rate-slashed", "slash"}

Event == [gw : Gateways, n : Nullifiers, x : Signals, at : Nat,
          what : Verdict \cup {"open"}]

Init ==
    /\ now = 0
    /\ TallyInit
    /\ seen = [g \in Gateways |-> [n \in Nullifiers |-> NoEntry]]
    /\ conn = [c \in Conns |-> Idle]
    /\ presented = 0
    /\ history = << >>

-----------------------------------------------------------------------------
(* verifyEnvelope().                                                       *)

CurrentEpoch(g) == Clock(g) \div EpochLen

\* The external nullifier must be this epoch's or the last one's.
Fresh(g, n) == CurrentEpoch(g) - EpochOf[n] \in {0, 1}

\* The cheap checks pass and the proof is queued for verification.  (Failing
\* them, or any earlier step of the handler, changes nothing here.)
CheckEnvelope(c, g, n, x) ==
    /\ conn[c] = Idle
    /\ presented < MaxEnvelopes
    /\ Fresh(g, n)
    /\ conn' = [conn EXCEPT ![c] = [st |-> "proving", gw |-> g, n |-> n, x |-> x]]
    /\ presented' = presented + 1
    /\ UNCHANGED <<now, tally, pushes, seen, history>>

\* The connection's part in admission ends.
Finished(c) == conn' = [conn EXCEPT ![c] = Idle]

\* The proof does not verify, or verifying it throws.
InvalidProof(c) ==
    /\ conn[c].st = "proving"
    /\ Finished(c)
    /\ UNCHANGED <<now, tally, pushes, seen, presented, history>>

-----------------------------------------------------------------------------
(* admit().                                                                *)

Log(c, what) ==
    history' = Append(history, [gw |-> conn[c].gw, n |-> conn[c].n,
                                x |-> conn[c].x, at |-> Clock(conn[c].gw),
                                what |-> what])

Await(c, st) == conn' = [conn EXCEPT ![c].st = st]

EntryOf(c) == seen[conn[c].gw][conn[c].n]

SetEntry(c, e) == seen' = [seen EXCEPT ![conn[c].gw][conn[c].n] = e]

\* has() prunes the tally as it answers.
AskFleet(c) ==
    tally' = IF UseTally
             THEN [tally EXCEPT ![conn[c].gw] = Prune(@, Clock(conn[c].gw))]
             ELSE tally

SpentInFleet(c) == UseTally /\ Has(conn[c].gw, conn[c].n)

\* Mutant: the nullifier is published when it is admitted.
AdmitFirstPublishing(c) ==
    /\ conn[c].st = "proving"
    /\ EntryOf(c) = NoEntry
    /\ ~SpentInFleet(c)
    /\ Record(conn[c].gw, conn[c].n)
    /\ SetEntry(c, [x |-> conn[c].x, slashed |-> FALSE, at |-> Clock(conn[c].gw)])
    /\ Log(c, "first")
    /\ Await(c, "admitted")
    /\ UNCHANGED <<now, presented>>

\* A nullifier new to this gateway and to the fleet, as far as it knows.
AdmitFirst(c) ==
    /\ conn[c].st = "proving"
    /\ EntryOf(c) = NoEntry
    /\ ~SpentInFleet(c)
    /\ AskFleet(c)
    /\ SetEntry(c, [x |-> conn[c].x, slashed |-> FALSE, at |-> Clock(conn[c].gw)])
    /\ Log(c, "first")
    /\ Await(c, "admitted")
    /\ UNCHANGED <<now, pushes, presented>>

\* New to this gateway, but a peer has announced it: nothing is recorded.
RejectFleetReplay(c) ==
    /\ conn[c].st = "proving"
    /\ EntryOf(c) = NoEntry
    /\ SpentInFleet(c)
    /\ AskFleet(c)
    /\ Log(c, "fleet-replay")
    /\ Finished(c)
    /\ UNCHANGED <<now, pushes, seen, presented>>

RejectSlashed(c) ==
    /\ conn[c].st = "proving"
    /\ EntryOf(c) # NoEntry
    /\ EntryOf(c).slashed
    /\ Log(c, "rate-slashed")
    /\ Finished(c)
    /\ UNCHANGED <<now, tally, pushes, seen, presented>>

\* Mutant: an identical envelope is taken for a retry at any age.
InWindowForever(c) == TRUE

\* The envelope fingerprint was recorded with the entry and is swept by the
\* same cutoff, so its age is the entry's age.
InWindow(c) == Clock(conn[c].gw) - EntryOf(c).at <= ReplayWindow

\* The same signal again: a retry inside the window is admitted, a later one
\* is rejected.
SameSignal(c) ==
    /\ conn[c].st = "proving"
    /\ EntryOf(c) # NoEntry
    /\ ~EntryOf(c).slashed
    /\ EntryOf(c).x = conn[c].x
    /\ IF InWindow(c)
       THEN Log(c, "replay") /\ Await(c, "admitted")
       ELSE Log(c, "late-replay") /\ Finished(c)
    /\ UNCHANGED <<now, tally, pushes, seen, presented>>

\* Mutant: the entry is marked only once the slash transaction is in.
OverSpendUnmarked(c) ==
    /\ conn[c].st = "proving"
    /\ EntryOf(c) # NoEntry
    /\ ~EntryOf(c).slashed
    /\ EntryOf(c).x # conn[c].x
    /\ Log(c, "slash")
    /\ Await(c, "slashing")
    /\ UNCHANGED <<now, tally, pushes, seen, presented>>

\* Mutant: the second signal is rejected and forgotten.
OverSpendIgnored(c) ==
    /\ conn[c].st = "proving"
    /\ EntryOf(c) # NoEntry
    /\ ~EntryOf(c).slashed
    /\ EntryOf(c).x # conn[c].x
    /\ Log(c, "late-replay")
    /\ Finished(c)
    /\ UNCHANGED <<now, tally, pushes, seen, presented>>

\* A second signal under one nullifier: the entry is marked before the slash
\* transaction is awaited.
OverSpend(c) ==
    /\ conn[c].st = "proving"
    /\ EntryOf(c) # NoEntry
    /\ ~EntryOf(c).slashed
    /\ EntryOf(c).x # conn[c].x
    /\ SetEntry(c, [EntryOf(c) EXCEPT !.slashed = TRUE])
    /\ Log(c, "slash")
    /\ Await(c, "slashing")
    /\ UNCHANGED <<now, tally, pushes, presented>>

\* The slash transaction is mined, reverts or times out: either way the
\* connection is dropped and the entry stays marked.
SlashDone(c) ==
    /\ conn[c].st = "slashing"
    /\ Finished(c)
    /\ UNCHANGED <<now, tally, pushes, seen, presented, history>>

-----------------------------------------------------------------------------
(* The rest of the handler, as far as admission depends on it.             *)

\* commit(): publish only a nullifier this gateway still holds.
Commit(c) ==
    IF UseTally /\ EntryOf(c) # NoEntry
    THEN Record(conn[c].gw, conn[c].n)
    ELSE UNCHANGED tallyVars

\* The destination connects: the tunnel opens and the nullifier is published.
Connect(c) ==
    /\ conn[c].st = "admitted"
    /\ Commit(c)
    /\ Log(c, "open")
    /\ Await(c, "open")
    /\ UNCHANGED <<now, seen, presented>>

\* A limit, DNS, the dial or the client fails first, or an open tunnel closes.
Drop(c) ==
    /\ conn[c].st \in {"admitted", "open"}
    /\ Finished(c)
    /\ UNCHANGED <<now, tally, pushes, seen, presented, history>>

\* Mutant: entries are kept for one epoch only.
SweepAfterOneEpoch(g) ==
    /\ seen' = [seen EXCEPT ![g] = [n \in Nullifiers |->
                   IF seen[g][n].at < Clock(g) - EpochLen THEN NoEntry ELSE @[n]]]
    /\ UNCHANGED <<now, tally, pushes, conn, presented, history>>

\* sweep(), run by a timer once per epoch from a start the epoch grid does not
\* fix.
Sweep(g) ==
    /\ seen' = [seen EXCEPT ![g] = [n \in Nullifiers |->
                   IF seen[g][n].at < Clock(g) - TTL THEN NoEntry ELSE @[n]]]
    /\ UNCHANGED <<now, tally, pushes, conn, presented, history>>

Push(g, q, n) ==
    /\ Deliver(g, q, n) \/ Lose(g, q, n)
    /\ UNCHANGED <<now, seen, conn, presented, history>>

Tick ==
    /\ now < MaxTime
    /\ now' = now + 1
    /\ UNCHANGED <<tally, pushes, seen, conn, presented, history>>

-----------------------------------------------------------------------------

Admit(c) ==
    \/ AdmitFirst(c) \/ RejectFleetReplay(c) \/ RejectSlashed(c)
    \/ SameSignal(c) \/ OverSpend(c)

Next ==
    \/ \E c \in Conns :
          \/ \E g \in Gateways, n \in Nullifiers, x \in Signals :
                CheckEnvelope(c, g, n, x)
          \/ InvalidProof(c) \/ Admit(c) \/ SlashDone(c) \/ Connect(c) \/ Drop(c)
    \/ \E g \in Gateways : Sweep(g)
    \/ \E g, q \in Gateways, n \in Nullifiers : Push(g, q, n)
    \/ Tick

Spec == Init /\ [][Next]_vars

-----------------------------------------------------------------------------
(* Properties.                                                             *)

\* Types of the spent sets, the clocks, the connections and the log.
SpentTypeOK ==
    /\ now \in 0..MaxTime
    /\ seen \in [Gateways -> [Nullifiers -> Entry \cup {NoEntry}]]
    /\ conn \in [Conns -> Call \cup {Idle}]
    /\ presented \in 0..MaxEnvelopes
    /\ history \in Seq(Event)

\* Types of the gateways' state; among them, no peer has more than
\* MAX_IN_FLIGHT_PER_PEER announcements on their way to it.
TypeOK == TallyTypeOK /\ SpentTypeOK

\* The event happened while its gateway's clock still accepted new envelopes
\* of the nullifier.
Timely(e) == e.at < (EpochOf[e.n] + 2) * EpochLen

Events(what) == {i \in DOMAIN history : history[i].what \in what}

SameSlot(i, j) == history[i].gw = history[j].gw /\ history[i].n = history[j].n

\* While a nullifier is acceptable, a gateway lets at most one signal through
\* under it: the sweep never forgets an entry that is still needed.
OneSignalPerSlot ==
    \A i, j \in Events({"first", "replay"}) :
        SameSlot(i, j) /\ Timely(history[i]) /\ Timely(history[j])
            => history[i].x = history[j].x

\* Every timely admission of a nullifier at a gateway lies within the retry
\* window of the first one.
RetriesInWindow ==
    \A i, j \in Events({"first", "replay"}) :
        SameSlot(i, j) /\ Timely(history[i]) /\ Timely(history[j])
            => history[j].at - history[i].at <= ReplayWindow

\* A gateway that is shown two signals under one nullifier, in time, slashes.
OverSpendSlashed ==
    \A i, j \in Events(Verdict) :
        /\ SameSlot(i, j) /\ Timely(history[i]) /\ Timely(history[j])
        /\ history[i].x # history[j].x
        => \E k \in Events({"slash"}) : SameSlot(i, k)

\* However many over-spending envelopes race, one timely slash per nullifier
\* is submitted by a gateway ("slash exactly once for this nullifier").
SlashedOnce ==
    \A i, j \in Events({"slash"}) :
        SameSlot(i, j) /\ Timely(history[i]) /\ Timely(history[j]) => i = j

\* A peer's evidence is a real egress: a fleet rejection follows a tunnel some
\* gateway opened under the nullifier, so a failed dial never stands in the
\* way of failover to another gateway.
FleetEvidenceReal ==
    \A i \in Events({"fleet-replay"}) :
        \E j \in Events({"open"}) : j < i /\ history[j].n = history[i].n
=============================================================================
