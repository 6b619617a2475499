----------------------------- MODULE RustProxy ------------------------------
(***************************************************************************)
(* The proxy of the Rust client: run_proxy(), serve_proxy_client() and     *)
(* execute_egress() of shade-tree-client, Client::connect() of             *)
(* shade-tree-egress.  A pool of threads takes agents' connections from a  *)
(* bounded channel; each thread serves one until its tunnel ends.  The     *)
(* threads share three files: the directory cache, the health of the       *)
(* gateways and the slot cursor.  Only the last has a lock (SlotState has  *)
(* its steps; here an allocation is one).  std::fs::write() empties a file *)
(* and then fills it, so a read, another write or a crash may come in      *)
(* between.  The proxy runs with --cache and --health-cache.               *)
(***************************************************************************)
EXTENDS Integers, SequencesExt

CONSTANTS
    Agents,         \* connections to the proxy
    Workers,        \* prover_workers(): threads, and the capacity of the channel
    Gateways,
    Slots,          \* K of the member's leaf
    LastEpoch, MaxIssued, MaxCrashes    \* bounds

ProxyConstants ==
    /\ IsFiniteSet(Gateways) /\ Gateways # {}
    /\ {Slots, LastEpoch, MaxIssued} \subseteq Nat

VARIABLES
    clock,
    cache,      \* the cached directory, by its issued time; 0 when none verifies
    health,     \* the health file: failures in a row
    failed,     \* history: dials of a gateway that failed
    cursor,     \* the slot state file
    queue,      \* the channel
    replies,    \* replies[a]: the statuses agent a was sent
    closed,     \* agents whose connection is closed
    work,       \* work[w]: what thread w is at, with the locals it still needs
    offered,    \* history: <<epoch, slot, agent>> of every proof
    crashes

proxyVars == <<clock, cache, health, failed, cursor, queue, replies,
               closed, work, offered, crashes>>

files == <<cache, health, cursor>>

Idle == [at |-> "idle"]

Unknown == [g \in Gateways |-> 0]

\* FAIL_THRESHOLD
Threshold == 2

\* The proxy starts with the slot file of earlier runs in this epoch.
ProxyInit ==
    /\ clock = 0 /\ cache = 0
    /\ cursor \in [epoch : {0}, next : 0..Slots]
    /\ offered = {<<0, n, "before">> : n \in 0..(cursor.next - 1)}
    /\ health = Unknown /\ failed = Unknown
    /\ queue = << >> /\ replies = [a \in Agents |-> << >>] /\ closed = {}
    /\ work = [w \in Workers |-> Idle]
    /\ crashes = 0

-----------------------------------------------------------------------------
(* The listener and the pool.                                              *)

Serving(a) == {w \in Workers : work[w] # Idle /\ work[w].agent = a}

Arrived(a) == a \in closed \/ a \in Range(queue) \/ Serving(a) # {}

\* A connection is queued, or refused when the channel is full.
AcceptAgent(a) ==
    /\ ~Arrived(a)
    /\ IF Len(queue) < Cardinality(Workers)
       THEN queue' = Append(queue, a) /\ UNCHANGED <<replies, closed>>
       ELSE /\ replies' = [replies EXCEPT ![a] = <<503>>]
            /\ closed' = closed \cup {a}
            /\ UNCHANGED queue
    /\ UNCHANGED <<clock, files, failed, work, offered, crashes>>

Take(w) ==
    /\ work[w] = Idle /\ queue # << >>
    /\ work' = [work EXCEPT ![w] = [at |-> "request", agent |-> queue[1]]]
    /\ queue' = Tail(queue)
    /\ UNCHANGED <<clock, files, failed, replies, closed, offered, crashes>>

Send(w, status) == replies' = [replies EXCEPT ![work[w].agent] = Append(@, status)]

\* The thread drops the connection and is free.
Finish(w) ==
    /\ closed' = closed \cup {work[w].agent}
    /\ work' = [work EXCEPT ![w] = Idle]

\* Mutant: the thread ends with the first request that fails.
FailLast(w) ==
    /\ Send(w, 502)
    /\ closed' = closed \cup {work[w].agent}
    /\ work' = [work EXCEPT ![w].at = "ended"]

\* execute_egress() fails before a tunnel is accepted.
Fail(w) == Send(w, 502) /\ Finish(w)

\* read_proxy_request(): a health check, a request without the token and one
\* that is malformed need no tunnel (204 stands for 407 and 400 too); a
\* connection that ends at once is sent nothing.
RequestOnly(w) ==
    /\ work[w].at = "request"
    /\ Send(w, 204) \/ UNCHANGED replies
    /\ Finish(w)
    /\ UNCHANGED <<clock, files, failed, queue, offered, crashes>>

-----------------------------------------------------------------------------
(* resolve_plan(): the directory and the order of the gateways.            *)

\* What fetch_directory_over_tor() returns within its timeout: nothing of use (0),
\* or any directory that was ever signed.
Fetched == 0..MaxIssued

\* A CONNECT request: the cache is read, and what was fetched must not be older.
Resolve(w, fresh) ==
    /\ work[w].at = "request"
    /\ IF fresh > 0 /\ fresh >= cache
       THEN work' = [work EXCEPT ![w] = [at |-> "directory", agent |-> @.agent, dir |-> fresh]]
               /\ UNCHANGED <<replies, closed>>
       ELSE IF cache > 0
       THEN work' = [work EXCEPT ![w] = [at |-> "plan", agent |-> @.agent]]
               /\ UNCHANGED <<replies, closed>>
       ELSE Fail(w)
    /\ UNCHANGED <<clock, files, failed, queue, offered, crashes>>

\* write_cache() opens the file.
OpenCache(w) ==
    /\ work[w].at = "directory"
    /\ cache' = 0
    /\ work' = [work EXCEPT ![w].at = "write"]
    /\ UNCHANGED <<clock, health, failed, cursor, queue, replies, closed, offered, crashes>>

\* write_cache() fills it.  The result is not looked at: what another thread
\* wrote in between, or a full disk, may leave what does not verify.
WriteCache(w) ==
    /\ work[w].at = "write"
    /\ cache' \in {work[w].dir, 0}
    /\ work' = [work EXCEPT ![w] = [at |-> "plan", agent |-> @.agent]]
    /\ UNCHANGED <<clock, health, failed, cursor, queue, replies, closed, offered, crashes>>

Down(h) == {g \in Gateways : h[g] >= Threshold}

\* selection_order(): gateways that are down come last.
OrdersFor(h) ==
    {s \in [1..Cardinality(Gateways) -> Gateways] :
        /\ IsInjective(s)
        /\ \A i, j \in DOMAIN s : s[i] \in Down(h) /\ s[j] \notin Down(h) => j < i}

\* health::seed() drops the entries not seen for DECAY_MS.
Seeded(h, decayed) == [g \in Gateways |-> IF g \in decayed THEN 0 ELSE h[g]]

\* The health file is loaded, to be written back as a whole later; the epoch is
\* the one by the clock.
Plan(w) ==
    /\ work[w].at = "plan"
    /\ \E decayed \in SUBSET Gateways : LET h == Seeded(health, decayed) IN
          \E order \in OrdersFor(h) :
             work' = [work EXCEPT ![w] = [at |-> "members", agent |-> @.agent, health |-> h,
                                          left |-> order, epoch |-> clock]]
    /\ UNCHANGED <<clock, files, failed, queue, replies, closed, offered, crashes>>

\* No gateway is admitted or suits, or the identity, the members or the circuits
\* cannot be loaded.
SetupFails(w) ==
    /\ work[w].at \in {"plan", "members"}
    /\ Fail(w)
    /\ UNCHANGED <<clock, files, failed, queue, offered, crashes>>

-----------------------------------------------------------------------------
(* Client::connect().                                                      *)

NextSlot(e) == IF cursor.epoch = e THEN cursor.next ELSE 0

\* Mutant: an epoch older than that of the cursor is not refused.
AllocateOlder(w) ==
    LET e == work[w].epoch
    IN  /\ work[w].at = "members"
        /\ NextSlot(e) < Slots
        /\ cursor' = [epoch |-> e, next |-> NextSlot(e) + 1]
        /\ work' = [work EXCEPT ![w] = [at |-> "prove", agent |-> @.agent, health |-> @.health,
                                        left |-> @.left, epoch |-> e, slot |-> NextSlot(e)]]
    /\ UNCHANGED <<clock, cache, health, failed, queue, replies, closed, offered, crashes>>

\* slot::allocate(): the cursor never goes back to an epoch.
Allocate(w) ==
    LET e == work[w].epoch
    IN  /\ work[w].at = "members"
        /\ cursor.epoch <= e /\ NextSlot(e) < Slots
        /\ cursor' = [epoch |-> e, next |-> NextSlot(e) + 1]
        /\ work' = [work EXCEPT ![w] = [at |-> "prove", agent |-> @.agent, health |-> @.health,
                                        left |-> @.left, epoch |-> e, slot |-> NextSlot(e)]]
    /\ UNCHANGED <<clock, cache, health, failed, queue, replies, closed, offered, crashes>>

Prove(w) ==
    /\ work[w].at = "prove"
    /\ offered' = offered \cup {<<work[w].epoch, work[w].slot, work[w].agent>>}
    /\ work' = [work EXCEPT ![w] = [at |-> "dial", agent |-> @.agent, left |-> @.left,
                                    health |-> @.health]]
    /\ UNCHANGED <<clock, files, failed, queue, replies, closed, crashes>>

\* The allocator refuses, or the prover fails and the slot stays burnt: the
\* health file is written all the same.
NoProof(w) ==
    /\ work[w].at \in {"members", "prove"}
    /\ work' = [work EXCEPT ![w] = [at |-> "save", agent |-> @.agent, health |-> @.health,
                                    left |-> << >>]]
    /\ UNCHANGED <<clock, files, failed, queue, replies, closed, offered, crashes>>

\* health::update(), on the copy of this request.
Updated(h, g, ok) == [h EXCEPT ![g] = IF ok THEN 0 ELSE IF @ < Threshold THEN @ + 1 ELSE @]

\* The dial or the acknowledgement fails or times out: the next candidate.
DialFails(w) ==
    LET g == work[w].left[1]
        rest == Tail(work[w].left)
    IN  /\ work[w].at = "dial"
        /\ failed' = [failed EXCEPT ![g] = IF @ < Threshold THEN @ + 1 ELSE @]
        /\ work' = [work EXCEPT ![w] = [at |-> IF rest = << >> THEN "save" ELSE "dial",
                                        agent |-> @.agent, left |-> rest,
                                        health |-> Updated(@.health, g, FALSE)]]
    /\ UNCHANGED <<clock, files, queue, replies, closed, offered, crashes>>

\* Mutant: a refusal counts against the gateway.
AnswersRefusing(w, ok) ==
    LET g == work[w].left[1]
    IN  /\ work[w].at = "dial"
        /\ work' = [work EXCEPT ![w] = [at |-> "save", agent |-> @.agent,
                                        left |-> IF ok THEN <<g>> ELSE << >>,
                                        health |-> Updated(@.health, g, ok)]]
    /\ UNCHANGED <<clock, files, failed, queue, replies, closed, offered, crashes>>

\* The gateway answers: a refusal is terminal, and no sign of ill health.
Answers(w, ok) ==
    LET g == work[w].left[1]
    IN  /\ work[w].at = "dial"
        /\ work' = [work EXCEPT ![w] = [at |-> "save", agent |-> @.agent,
                                        left |-> IF ok THEN <<g>> ELSE << >>,
                                        health |-> Updated(@.health, g, TRUE)]]
    /\ UNCHANGED <<clock, files, failed, queue, replies, closed, offered, crashes>>

-----------------------------------------------------------------------------
(* The end of execute_egress().                                            *)

\* health::save() opens the file.
OpenHealth(w) ==
    /\ work[w].at = "save"
    /\ health' = Unknown
    /\ work' = [work EXCEPT ![w].at = "saving"]
    /\ UNCHANGED <<clock, cache, failed, cursor, queue, replies, closed, offered, crashes>>

\* health::save() fills it, well or not, before the agent has its answer.
Save(w) ==
    /\ work[w].at = "saving"
    /\ health' \in {work[w].health, Unknown}
    /\ IF work[w].left = << >>
       THEN Fail(w)
       ELSE /\ work' = [work EXCEPT ![w] = [at |-> "accepted", agent |-> @.agent]]
            /\ UNCHANGED <<replies, closed>>
    /\ UNCHANGED <<clock, cache, failed, cursor, queue, offered, crashes>>

\* Early bytes are forwarded, then the agent is told; either may fail.
Establish(w) ==
    /\ work[w].at = "accepted"
    /\ \/ Send(w, 200) /\ work' = [work EXCEPT ![w].at = "relay"] /\ UNCHANGED closed
       \/ Fail(w)
    /\ UNCHANGED <<clock, files, failed, queue, offered, crashes>>

\* Mutant: a relay that ends with an error is answered like a failed setup.
RelayFails(w) ==
    /\ work[w].at = "relay"
    /\ Fail(w) \/ (UNCHANGED replies /\ Finish(w))
    /\ UNCHANGED <<clock, files, failed, queue, offered, crashes>>

\* The tunnel ends, with an error or without; the agent is told nothing more.
RelayEnds(w) ==
    /\ work[w].at = "relay"
    /\ Finish(w)
    /\ UNCHANGED <<clock, files, failed, queue, replies, offered, crashes>>

-----------------------------------------------------------------------------
(* The environment.                                                        *)

NewEpoch ==
    /\ clock < LastEpoch
    /\ clock' = clock + 1
    /\ UNCHANGED <<files, failed, queue, replies, closed, work, offered, crashes>>

\* The process dies and is started again: connections are gone, and a file that
\* was being written stays empty.
Crash ==
    /\ crashes < MaxCrashes
    /\ crashes' = crashes + 1
    /\ closed' = {a \in Agents : Arrived(a)}
    /\ queue' = << >> /\ work' = [w \in Workers |-> Idle]
    /\ UNCHANGED <<clock, files, failed, replies, offered>>

\* What a thread does for a request, up to the relay: every wait has a timeout.
Serve(w) ==
    /\ work[w] # Idle
    /\ \/ RequestOnly(w) \/ OpenCache(w) \/ WriteCache(w) \/ Plan(w) \/ SetupFails(w)
       \/ Allocate(w) \/ NoProof(w) \/ Prove(w) \/ DialFails(w)
       \/ OpenHealth(w) \/ Save(w) \/ Establish(w)
       \/ \E fresh \in Fetched : Resolve(w, fresh)
       \/ \E ok \in BOOLEAN : Answers(w, ok)

ProxyNext ==
    \/ \E a \in Agents : AcceptAgent(a)
    \/ \E w \in Workers : Take(w) \/ Serve(w) \/ RelayEnds(w)
    \/ NewEpoch \/ Crash

\* A thread that can go on does; how long a tunnel lasts is up to its ends.
ProxyFairness == \A w \in Workers : WF_proxyVars(Take(w)) /\ WF_proxyVars(Serve(w))

ProxySpec == ProxyInit /\ [][ProxyNext]_proxyVars /\ ProxyFairness

-----------------------------------------------------------------------------
(* Properties.                                                             *)

\* No proof repeats the nullifier of another, which would be evidence to slash
\* the member with: also when an epoch sampled before the members were loaded is
\* used after another thread entered the next one, or the process dies between
\* the allocation and the proof.
ProofsDistinct ==
    \A p, q \in offered : p[1] = q[1] /\ p[2] = q[2] => p = q

\* An agent is in one place, the channel or one thread, until it is closed; it is
\* sent at most one status, and nothing but the tunnel's bytes after "200
\* Connection Established", which is sent only after a gateway accepted a proof.
OneAnswer ==
    \A a \in Agents :
        /\ Cardinality({i \in DOMAIN queue : queue[i] = a}) + Cardinality(Serving(a))
              + (IF a \in closed THEN 1 ELSE 0) <= 1
        /\ Len(replies[a]) <= 1
        /\ replies[a] = <<200>> => \E p \in offered : p[3] = a
        /\ replies[a] # << >> => a \in closed \/ \E w \in Serving(a) : work[w].at = "relay"

\* The health file never says of a gateway that it failed more often than it did,
\* however threads overwrite what others saved: a gateway is put last for failed
\* dials only, not for refusals.
HealthEarned ==
    \A g \in Gateways : health[g] <= failed[g]

\* An agent is in the channel and some thread is not held by a tunnel: one must
\* come to it.
Waits(a) ==
    a \in Range(queue) /\ replies[a] = << >> /\ \E w \in Workers : work[w].at # "relay"
=============================================================================
