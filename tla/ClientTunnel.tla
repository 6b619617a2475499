---------------------------- MODULE ClientTunnel ----------------------------
(***************************************************************************)
(* ShadeTreeClient of client/shade-tree-client.mjs: fetch() and connect(), *)
(* with the slot pool's group cache, the negotiation of a wire profile     *)
(* (protocol version and ZK artifacts) and the failover from gateway to    *)
(* gateway.  Several calls run at once; each awaits the group, the prover, *)
(* the dial and the acknowledgement, and the epoch may roll over under any *)
(* of these.  Durable slot allocation is SlotState; here it is a counter.  *)
(***************************************************************************)
EXTENDS Integers, SequencesExt

CONSTANTS
    Calls,      \* fetch() calls
    Gateways,
    Profiles,   \* the client's profiles, newest first
    Ads,        \* Ads[g]: profiles g advertises, {} when it does not say
    Accepts,    \* Accepts[g]: profiles g accepts
    Slots,      \* K of the member's leaf
    LastEpoch   \* bound

TunnelConstants == {Slots, LastEpoch} \subseteq Nat

VARIABLES
    epoch,      \* the epoch by the clock
    pool,       \* the epoch the slot pool is in
    used,       \* used[e]: slots allocated in e
    load,       \* load[e]: how the load of the group that e began stands
    group,      \* the cached group: {} or {the epoch its load began in}
    learned,    \* learned[g]: what a refusal taught about g
    at,         \* at[c]: what connect() of c waits for
    on,         \* on[c]: the load c awaits, or {}
    reserved,   \* reserved[c]: c's reservation, <<epoch, slot>>
    profile, left,  \* c's envelope, and the gateways it may still be offered to
    open,       \* open[c]: gateways c holds a socket to
    fetch,      \* fetch[c]: "running", "failed" or "done"
    offered     \* history: <<nullifier, call>> of every envelope built

poolVars == <<epoch, pool, used, load, group>>
callVars == <<at, on, reserved, profile, left, open, fetch>>
tunnelVars == <<poolVars, learned, callVars, offered>>

PoolEpochs == 0..LastEpoch

\* The constructor warms the current epoch.
TunnelInit ==
    /\ epoch = 0 /\ pool = 0 /\ used = [e \in PoolEpochs |-> 0]
    /\ load = [e \in PoolEpochs |-> IF e = 0 THEN "pending" ELSE "none"] /\ group = {}
    /\ learned = [g \in Gateways |-> {}]
    /\ at = [c \in Calls |-> "idle"] /\ on = [c \in Calls |-> {}]
    /\ reserved = [c \in Calls |-> <<0, 0>>]
    /\ profile = [c \in Calls |-> Profiles[1]] /\ left = [c \in Calls |-> << >>]
    /\ open = [c \in Calls |-> {}] /\ fetch = [c \in Calls |-> "running"]
    /\ offered = {}

Goto(c, a) == at' = [at EXCEPT ![c] = a]

\* connect() throws, and fetch() with it.
Throw(c) ==
    /\ Goto(c, "over")
    /\ fetch' = [fetch EXCEPT ![c] = "failed"]

-----------------------------------------------------------------------------
(* The slot pool: ensureGroup(), rollover() and nextSlot().                *)

NewEpoch ==
    /\ epoch < LastEpoch
    /\ epoch' = epoch + 1
    /\ UNCHANGED <<pool, used, load, group, learned, callVars, offered>>

\* A load ends.  Its result is cached, also when the pool has moved on.
Loaded(e) ==
    /\ load[e] = "pending"
    /\ \/ load' = [load EXCEPT ![e] = "ok"] /\ group' = {e}
       \/ load' = [load EXCEPT ![e] = "failed"] /\ UNCHANGED group
    /\ UNCHANGED <<epoch, pool, used, learned, callVars, offered>>

\* What ensureGroup() returns to c: the group at hand, or the promise of the
\* pool's epoch.
Awaits(e, g) == IF g = {} THEN {e} ELSE {}

HasGroup(c) == \A e \in on[c] : load[e] = "ok"

NoGroup(c) == \E e \in on[c] : load[e] = "failed"

\* rollover(): no group, and a load of its own for the new epoch.
RollOver ==
    /\ pool' = epoch
    /\ IF epoch = pool
       THEN UNCHANGED <<load, group>>
       ELSE load' = [load EXCEPT ![epoch] = "pending"] /\ group' = {}

-----------------------------------------------------------------------------
(* The wire profile: _knownGatewayCaps() and _planEnvelope().              *)

Known(g) == IF learned[g] # {} THEN learned[g] ELSE Ads[g]

\* selectArtifact(): the newest of ours that g takes; the newest when g does
\* not say.
Picks(g) == SelectSeq(Profiles, LAMBDA p : Known(g) = {} \/ p \in Known(g))

\* The profile of the first gateway there is one for.
Plan(order) ==
    LET able == SelectSeq(order, LAMBDA g : Picks(g) # << >>)
    IN  IF able = << >> THEN {} ELSE {Picks(able[1])[1]}

Attempts(order, p) == SelectSeq(order, LAMBDA g : Known(g) = {} \/ p \in Known(g))

-----------------------------------------------------------------------------
(* connect().                                                              *)

\* _candidates() asks for the leaf's source first.
Begin(c) ==
    /\ at[c] = "idle"
    /\ Goto(c, "source")
    /\ on' = [on EXCEPT ![c] = Awaits(pool, group)]
    /\ UNCHANGED <<poolVars, learned, reserved, profile, left, open, fetch, offered>>

\* nextSlot(): the clock's epoch is entered, and its next slot is c's.
NextSlot(c) ==
    /\ RollOver
    /\ used[epoch] < Slots
    /\ used' = [used EXCEPT ![epoch] = @ + 1]
    /\ reserved' = [reserved EXCEPT ![c] = <<epoch, used[epoch]>>]

\* nextSlot() throws: the epoch's budget is exhausted.
NoSlot == RollOver /\ used[epoch] = Slots

\* The candidates are in; the plan is made and a slot reserved in one turn.
Reserve(c, order) ==
    /\ at[c] = "source" /\ HasGroup(c)
    /\ NextSlot(c)
    /\ \E p \in Plan(order) :
          /\ profile' = [profile EXCEPT ![c] = p]
          /\ left' = [left EXCEPT ![c] = Attempts(order, p)]
    /\ on' = [on EXCEPT ![c] = Awaits(epoch, group')]
    /\ Goto(c, "proving")
    /\ UNCHANGED <<epoch, learned, open, fetch, offered>>

\* No profile suits, or there is no slot.
Refused(c, order) ==
    /\ at[c] = "source" /\ HasGroup(c)
    /\ \/ Plan(order) = {} /\ UNCHANGED <<pool, load, group>>
       \/ Plan(order) # {} /\ NoSlot
    /\ Throw(c)
    /\ UNCHANGED <<epoch, used, learned, on, reserved, profile, left, open, offered>>

\* Mutant: the proof is for the pool's epoch.
NullifierOfPool(c) == <<pool, reserved[c][2]>>

\* The proof is for the reserved epoch and slot.
Nullifier(c) == reserved[c]

Prove(c) ==
    /\ at[c] = "proving" /\ HasGroup(c)
    /\ Goto(c, "dial")
    /\ offered' = offered \cup {<<Nullifier(c), c>>}
    /\ UNCHANGED <<poolVars, learned, on, reserved, profile, left, open, fetch>>

\* The group could not be loaded, or the prover fails: the slot stays spent.
ProveFails(c) ==
    /\ (at[c] = "source" /\ NoGroup(c)) \/ at[c] = "proving"
    /\ Throw(c)
    /\ UNCHANGED <<poolVars, learned, on, reserved, profile, left, open, offered>>

NextCandidate(c) == left' = [left EXCEPT ![c] = Tail(@)]

Dialed(c) ==
    /\ at[c] = "dial" /\ left[c] # << >>
    /\ \/ Goto(c, "gate") /\ open' = [open EXCEPT ![c] = {left[c][1]}] /\ UNCHANGED left
       \/ NextCandidate(c) /\ UNCHANGED <<at, open>>
    /\ UNCHANGED <<poolVars, learned, on, reserved, profile, fetch, offered>>

\* No candidate is left.
NoneLeft(c) ==
    /\ at[c] = "dial" /\ left[c] = << >>
    /\ Throw(c)
    /\ UNCHANGED <<poolVars, learned, on, reserved, profile, left, open, offered>>

Close(c) == open' = [open EXCEPT ![c] = {}]

\* A bounded acknowledgement says yes.
AckOk(c) ==
    /\ at[c] = "gate" /\ profile[c] \in Accepts[left[c][1]]
    /\ Goto(c, "open")
    /\ UNCHANGED <<poolVars, learned, on, reserved, profile, left, open, fetch, offered>>

\* No acknowledgement in time or in bounds: readGatewayAck() destroys the socket.
NoAck(c) == UNCHANGED learned

\* A refusal because of the profile says what the gateway takes, and this is
\* remembered for it.
Mismatch(c) ==
    /\ profile[c] \notin Accepts[left[c][1]]
    /\ learned' = [learned EXCEPT ![left[c][1]] = Accepts[left[c][1]]]

\* A refusal that is the gateway's own and may pass.
Retryable(c) == UNCHANGED learned

\* The next candidate may do better.
FailOver(c) ==
    /\ at[c] = "gate"
    /\ NoAck(c) \/ Mismatch(c) \/ Retryable(c)
    /\ Close(c) /\ NextCandidate(c) /\ Goto(c, "dial")
    /\ UNCHANGED <<poolVars, on, reserved, profile, fetch, offered>>

\* Any other refusal is about the proof or the target.
AckTerminal(c) ==
    /\ at[c] = "gate" /\ profile[c] \in Accepts[left[c][1]]
    /\ Close(c) /\ Throw(c)
    /\ UNCHANGED <<poolVars, learned, on, reserved, profile, left, offered>>

-----------------------------------------------------------------------------
(* fetch().                                                                *)

\* Mutant: the tunnel is handed to a fetch that has given up.
ReturnedAnyway(c) ==
    /\ at[c] = "open"
    /\ Goto(c, "egress")
    /\ UNCHANGED <<poolVars, learned, on, reserved, profile, left, open, fetch, offered>>

\* connect() resolves: a tunnel that comes after the deadline is closed.
Returned(c) ==
    /\ at[c] = "open"
    /\ IF fetch[c] = "running"
       THEN Goto(c, "egress") /\ UNCHANGED open
       ELSE Goto(c, "over") /\ Close(c)
    /\ UNCHANGED <<poolVars, learned, on, reserved, profile, left, fetch, offered>>

\* The deadline, which covers the whole call: fetch() closes what it owns, and
\* that is nothing while connect() is under way.
Deadline(c) ==
    /\ at[c] # "idle" /\ fetch[c] = "running"
    /\ fetch' = [fetch EXCEPT ![c] = "failed"]
    /\ IF at[c] = "egress"
       THEN Goto(c, "over") /\ Close(c)
       ELSE UNCHANGED <<at, open>>
    /\ UNCHANGED <<poolVars, learned, on, reserved, profile, left, offered>>

\* The response ends, or the request or the response fails.
Response(c) ==
    /\ at[c] = "egress" /\ fetch[c] = "running"
    /\ fetch' \in {[fetch EXCEPT ![c] = "done"], [fetch EXCEPT ![c] = "failed"]}
    /\ Goto(c, "over") /\ Close(c)
    /\ UNCHANGED <<poolVars, learned, on, reserved, profile, left, offered>>

-----------------------------------------------------------------------------
Orders == {o \in UNION {[1..n -> Gateways] : n \in 1..Cardinality(Gateways)} : IsInjective(o)}

\* The steps of connect() once it has begun.
Step(c) ==
    \/ \E order \in Orders : Reserve(c, order) \/ Refused(c, order)
    \/ Prove(c) \/ ProveFails(c) \/ Dialed(c) \/ NoneLeft(c)
    \/ AckOk(c) \/ FailOver(c) \/ AckTerminal(c) \/ Returned(c)

TunnelNext ==
    \/ NewEpoch
    \/ \E e \in PoolEpochs : Loaded(e)
    \/ \E c \in Calls : Begin(c) \/ Step(c) \/ Deadline(c) \/ Response(c)

\* RPCs, dials, acknowledgements and calls have timeouts, and so every await
\* ends; nothing says that a call is made or that the clock moves.
TunnelFairness ==
    /\ \A e \in PoolEpochs : WF_tunnelVars(Loaded(e))
    /\ \A c \in Calls : WF_tunnelVars(Step(c)) /\ WF_tunnelVars(Deadline(c))

TunnelSpec == TunnelInit /\ [][TunnelNext]_tunnelVars /\ TunnelFairness

-----------------------------------------------------------------------------
(* Properties.                                                             *)

\* No nullifier is used for two calls, which would be evidence to slash the
\* member with: also when the epoch rolls over while a proof waits for its
\* group and other calls reserve slots of the new epoch meanwhile.
NullifiersUnique ==
    \A p, q \in offered : p[1] = q[1] => p = q

\* A call holds at most one socket, and none once it is over: whatever order
\* failover, the deadline and a late acknowledgement come in.
NoSocketLeaks ==
    \A c \in Calls : /\ Cardinality(open[c]) <= 1
                     /\ fetch[c] # "running" /\ at[c] \notin {"gate", "open"} => open[c] = {}

\* connect() always ends, with a tunnel or an error, and so does the call.
CallEnds == \A c \in Calls : at[c] = "source" ~> at[c] = "over"
=============================================================================
