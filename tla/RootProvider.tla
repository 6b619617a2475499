---------------------------- MODULE RootProvider ----------------------------
(***************************************************************************)
(* Which membership roots the gateway accepts: lib/root-provider.mjs       *)
(* (freshness ring, last-known-good cache, change polling, the union of    *)
(* several contracts) and its consumer, initRoots() of gateway.mjs.        *)
(*                                                                         *)
(* A membership root follows the finalized chain.  Superseded roots stay   *)
(* acceptable for F; an outage is bridged by the last good root, also for  *)
(* F.  The gateway learns of changes by polling: a poll reads every source,*)
(* and if the outcome differs from the previous poll's the gateway reads   *)
(* them all again and takes that.  A read starts, sees the chain and ends  *)
(* at three instants, and may fail at any of them.                         *)
(*                                                                         *)
(* Time is in ticks.  A Merkle root stands for the set of live leaves, and *)
(* a leaf that was vacated is never live again (AdmissionTree): leaving    *)
(* can bring an earlier root back, joining cannot.                         *)
(***************************************************************************)
EXTENDS Integers, FiniteSetsExt

CONSTANTS
    Sources,        \* membership contracts
    NoRoot,         \* null
    None,           \* no value yet
    Kinds,          \* subset of {"node" (event replay), "light" (storage slot)}
    HasStatic,      \* a members.json root is trusted as well
    F,              \* SHADE_TREE_ROOT_FRESHNESS_SECONDS
    Poll,           \* the poll interval
    Latencies,      \* how long a read may take (RPC timeouts)
    MaxTime,        \* bound: ticks explored
    MaxChanges      \* bound: membership changes

ASSUME RootAssumption ==
    /\ {F, Poll, MaxTime} \subseteq Nat \ {0}
    /\ Latencies \subseteq Nat /\ MaxChanges \in Nat
    /\ Kinds \subseteq {"node", "light"} /\ HasStatic \in BOOLEAN
    /\ None \notin Nat
    /\ IsFiniteSet(Sources)

VARIABLES
    kind,       \* SHADE_TREE_ROOT_PROVIDER
    latency,    \* how long the reads of this deployment may take
    now,
    live,       \* live[s]: the live leaves of s at the finalized head
    size,       \* size[s]: the leaves ever appended to s
    between,    \* between[s]: roots passed through since s was last seen
    ring,       \* ring[s]: makeFreshRootRing
    scanned,    \* scanned[s]: the incremental log scan of s is valid
    lkg,        \* lkg[s]: the last good snapshot
    pc,         \* "start", "idle", "poll", "refresh" or "exit"
    todo,       \* sources the current call still has to read
    read,       \* the read in progress
    result,     \* result[s]: what the current call got from s
    last,       \* pollOnChange: the key of the last snapshot, if any (a set)
    failed,     \* pollOnChange: the failure was already reported
    due,        \* when the poll timer fires
    accepted,   \* accepted[s]: the roots of s in recentRoots
    degraded,   \* sources whose gauge is 1
    \* Observations.
    gone,       \* gone[s][r]: when r last stopped being s's root
    moved,      \* the last time a source changed
    bad,        \* the last time a read failed
    changes

chainVars == <<live, size, between, gone, moved, changes>>
provVars == <<ring, scanned, lkg>>
callVars == <<pc, todo, read, result>>
pollVars == <<last, failed, due>>
gateVars == <<accepted, degraded>>
setup == <<kind, latency>>
vars == <<setup, now, chainVars, provVars, callVars, pollVars, gateVars, bad>>

\* Roots of non-empty sets, and the storage slot's root of the empty one.
Roots == {leaves : leaves \in SUBSET (1..(MaxChanges + 1))}

NoRead == [src |-> None, at |-> 0, seen |-> FALSE, root |-> NoRoot, passed |-> {}]

\* A source that threw.
NoResult == [ok |-> FALSE, stale |-> FALSE, first |-> NoRoot, roots |-> {}]

EmptyRing == [current |-> None, retired |-> {}]

Init ==
    /\ kind \in Kinds
    /\ latency \in Latencies
    /\ now = 0
    /\ live = [s \in Sources |-> {1}]
    /\ size = [s \in Sources |-> 1]
    /\ between = [s \in Sources |-> {}]
    /\ ring = [s \in Sources |-> EmptyRing]
    /\ scanned = [s \in Sources |-> FALSE]
    /\ lkg = [s \in Sources |-> [at |-> None, first |-> NoRoot]]
    /\ pc = "start"
    /\ todo = Sources
    /\ read = NoRead
    /\ result = [s \in Sources |-> NoResult]
    /\ last = {}
    /\ failed = FALSE
    /\ due = 0
    /\ accepted = [s \in Sources |-> {}]
    /\ degraded = {}
    /\ gone = [s \in Sources |-> [r \in Roots |-> None]]
    /\ moved = 0
    /\ bad = 0
    /\ changes = 0

-----------------------------------------------------------------------------
(* The environment.                                                        *)

\* Event replay has no root for an empty set; the storage slot does.
RootOf(leaves) == IF kind = "node" /\ leaves = {} THEN NoRoot ELSE leaves

Chain(s) == RootOf(live[s])

\* A membership change is finalized.
ChainChange(s) ==
    /\ changes < MaxChanges
    /\ between' = [between EXCEPT ![s] = @ \cup {Chain(s)}]
    /\ gone' = [gone EXCEPT ![s][live[s]] = now]
    /\ changes' = changes + 1
    /\ moved' = now
    /\ UNCHANGED <<setup, now, provVars, callVars, pollVars, gateVars, bad>>

Join(s) ==
    /\ size' = [size EXCEPT ![s] = @ + 1]
    /\ live' = [live EXCEPT ![s] = @ \cup {size'[s]}]
    /\ ChainChange(s)

Leave(s, i) ==
    /\ live' = [live EXCEPT ![s] = @ \ {i}]
    /\ UNCHANGED size
    /\ ChainChange(s)

Reading == read # NoRead

\* Time passes unless the poll timer is due or an RPC times out first.
Tick ==
    /\ now < MaxTime
    /\ \/ pc = "idle" /\ now < due
       \/ Reading /\ now < read.at + latency
    /\ now' = now + 1
    /\ UNCHANGED <<setup, chainVars, provVars, callVars, pollVars, gateVars, bad>>

-----------------------------------------------------------------------------
(* The freshness ring of one source.                                       *)

Fresh(retired, t) == {e \in retired : t - e.at <= F}

\* pushRoot(), for `root` and the roots `passed` through on the way to it.
Push(rg, passed, root, t) ==
    LET old == IF rg.current = None THEN {} ELSE passed \ {NoRoot}
    IN  [current |-> root,
         retired |-> Fresh(rg.retired \cup {[root |-> r, at |-> t] : r \in old}, t)]

RingRoots(rg) == ({rg.current} \ {NoRoot}) \cup {e.root : e \in rg.retired}

\* The head of the array that pushRoot() returns: the current root, or the
\* latest retired one if the set of members is empty.
Heads(rg) ==
    IF rg.current # NoRoot THEN {rg.current}
    ELSE IF rg.retired = {} THEN {NoRoot}
    ELSE {e.root : e \in {x \in rg.retired : \A y \in rg.retired : y.at <= x.at}}

-----------------------------------------------------------------------------
(* One read of one source: currentRoots() of a provider under withCache(). *)

ReadBegin(s) ==
    /\ s \in todo /\ ~Reading
    /\ read' = [NoRead EXCEPT !.src = s, !.at = now]
    /\ UNCHANGED <<setup, now, chainVars, provVars, pc, todo, result, pollVars, gateVars, bad>>

\* The head is fetched; the logs or the storage slot are read at that block.
ReadHead ==
    /\ Reading /\ ~read.seen
    /\ read' = [read EXCEPT !.seen = TRUE, !.root = Chain(read.src), !.passed = between[read.src]]
    /\ between' = [between EXCEPT ![read.src] = {}]
    /\ UNCHANGED <<setup, now, live, size, gone, moved, changes, provVars, pc, todo, result, pollVars, gateVars, bad>>

\* Mutant: recovery after a long gap keeps the ring.
ResetNever(s) == FALSE

\* After a gap longer than F, or when the log scan had to start over, nobody
\* knows when the roots in between were retired: only the current one counts.
Reset(s) ==
    /\ lkg[s].at # None
    /\ read.at - lkg[s].at > F \/ (kind = "node" /\ ~scanned[s])

\* Mutant: only the root that was current at the last read is retired.
PassedLast(s) == IF ring[s].current # read.root THEN {ring[s].current} ELSE {}

\* The roots to retire: event replay sees all of them, the storage slot only
\* the one that is current now.
Passed(s) ==
    IF kind = "node" THEN read.passed
    ELSE IF ring[s].current # read.root THEN {ring[s].current} ELSE {}

ReadOk ==
    LET s == read.src
        rg == Push(IF Reset(s) THEN EmptyRing ELSE ring[s], Passed(s), read.root, now)
    IN  /\ Reading /\ read.seen
        /\ ring' = [ring EXCEPT ![s] = rg]
        /\ scanned' = [scanned EXCEPT ![s] = TRUE]
        /\ \E f \in Heads(rg) :
              /\ lkg' = [lkg EXCEPT ![s] = [at |-> now, first |-> f]]
              /\ result' = [result EXCEPT ![s] =
                               [ok |-> TRUE, stale |-> FALSE, first |-> f, roots |-> RingRoots(rg)]]
        /\ todo' = todo \ {s}
        /\ read' = NoRead
        /\ UNCHANGED <<setup, now, chainVars, pc, pollVars, gateVars, bad>>

\* Mutant: the last good snapshot is served without a limit.
UsableAlways(s) == lkg[s].at # None

\* The last good snapshot may stand in for a failed read.
Usable(s) == lkg[s].at # None /\ now - lkg[s].at <= F

\* The read fails: the first root of the last good snapshot is served, or the
\* error is thrown.  A failed log scan is started over.
ReadFails ==
    LET s == read.src
    IN  /\ Reading
        /\ scanned' = [scanned EXCEPT ![s] = IF read.seen THEN FALSE ELSE @]
        /\ result' = [result EXCEPT ![s] =
              IF Usable(s)
              THEN [ok |-> TRUE, stale |-> TRUE, first |-> lkg[s].first,
                    roots |-> {lkg[s].first} \ {NoRoot}]
              ELSE NoResult]
        /\ todo' = todo \ {s}
        /\ read' = NoRead
        /\ bad' = now
        /\ UNCHANGED <<setup, now, chainVars, ring, lkg, pc, pollVars, gateVars>>

-----------------------------------------------------------------------------
(* pollOnChange(), CompositeRootProvider and the gateway's callback.       *)

Answered == todo = {} /\ ~Reading

\* Every source threw, so the call did.
Threw == \A s \in Sources : ~result[s].ok

\* pollSnapshotKey(): a provider of one contract has no perSource.  The order of
\* retired roots is left out: it would cause one refresh more.
Key ==
    IF Cardinality(Sources) = 1
    THEN [s \in Sources |-> <<result[s].first, result[s].roots>>]
    ELSE [s \in Sources |-> result[s]]

\* Call currentRoots() on behalf of p.
Call(p) ==
    /\ pc' = p
    /\ todo' = Sources
    /\ result' = [s \in Sources |-> NoResult]

Idle ==
    /\ pc' = "idle"
    /\ due' = now + Poll
    /\ UNCHANGED <<todo, result>>

\* refresh() takes what the call returned.
Take ==
    /\ accepted' = [s \in Sources |-> result[s].roots]
    /\ degraded' = {s \in Sources : result[s].stale \/ ~result[s].ok}

\* No source can be trusted.
Drop ==
    /\ accepted' = [s \in Sources |-> {}]
    /\ degraded' = Sources

\* initRoots(): a gateway with no root at all refuses to start.
StartDone ==
    /\ pc = "start" /\ Answered
    /\ \/ ~Threw /\ Take /\ Idle
       \/ Threw /\ HasStatic /\ Drop /\ Idle
       \/ Threw /\ ~HasStatic /\ pc' = "exit" /\ UNCHANGED <<todo, result, due, gateVars>>
    /\ UNCHANGED <<setup, now, chainVars, provVars, read, last, failed, bad>>

PollTimer ==
    /\ pc = "idle" /\ now >= due
    /\ Call("poll")
    /\ UNCHANGED <<setup, now, chainVars, provVars, read, pollVars, gateVars, bad>>

\* Mutant: the key of the last good snapshot survives the outage.
PollThrewKeyKept ==
    /\ pc = "poll" /\ Answered /\ Threw
    /\ last' = last
    /\ failed' = TRUE
    /\ IF failed THEN UNCHANGED gateVars ELSE Drop
    /\ Idle
    /\ UNCHANGED <<setup, now, chainVars, provVars, read, bad>>

\* Nothing can be read any more: the gateway is told once and drops all roots.
PollThrew ==
    /\ pc = "poll" /\ Answered /\ Threw
    /\ last' = {}
    /\ failed' = TRUE
    /\ IF failed THEN UNCHANGED gateVars ELSE Drop
    /\ Idle
    /\ UNCHANGED <<setup, now, chainVars, provVars, read, bad>>

\* Only a snapshot unlike the last one is worth a refresh.
PollAnswered ==
    /\ pc = "poll" /\ Answered /\ ~Threw
    /\ failed' = FALSE
    /\ last' = {Key}
    /\ IF last # {Key} THEN Call("refresh") /\ UNCHANGED due ELSE Idle
    /\ UNCHANGED <<setup, now, chainVars, provVars, read, gateVars, bad>>

\* The gateway's callback reads all sources again; if that throws it keeps
\* what it has.
RefreshDone ==
    /\ pc = "refresh" /\ Answered
    /\ IF Threw THEN UNCHANGED gateVars ELSE Take
    /\ Idle
    /\ UNCHANGED <<setup, now, chainVars, provVars, read, last, failed, bad>>

Next ==
    \/ \E s \in Sources : Join(s) \/ \E i \in live[s] : Leave(s, i)
    \/ Tick
    \/ \E s \in Sources : ReadBegin(s)
    \/ ReadHead \/ ReadOk \/ ReadFails
    \/ StartDone \/ PollTimer \/ PollThrew \/ PollAnswered \/ RefreshDone

Spec == Init /\ [][Next]_vars

-----------------------------------------------------------------------------
(* Properties.                                                             *)

\* Types; the root of an empty set is never retired, served or accepted.
TypeOK ==
    /\ now \in 0..MaxTime
    /\ live \in [Sources -> Roots]
    /\ between \in [Sources -> SUBSET (Roots \cup {NoRoot})]
    /\ ring \in [Sources -> [current : Roots \cup {NoRoot, None},
                             retired : SUBSET [root : Roots, at : 0..MaxTime]]]
    /\ scanned \in [Sources -> BOOLEAN]
    /\ lkg \in [Sources -> [at : 0..MaxTime \cup {None}, first : Roots \cup {NoRoot}]]
    /\ pc \in {"start", "idle", "poll", "refresh", "exit"}
    /\ todo \subseteq Sources
    /\ read.src \in Sources \cup {None}
    /\ result \in [Sources -> [ok : BOOLEAN, stale : BOOLEAN,
                               first : Roots \cup {NoRoot}, roots : SUBSET Roots]]
    /\ failed \in BOOLEAN
    /\ due \in 0..(MaxTime + Poll)
    /\ accepted \in [Sources -> SUBSET Roots]
    /\ degraded \subseteq Sources

\* How long one call of currentRoots() may take.
CallTime == Cardinality(Sources) * latency

\* A root may be current in the last good snapshot for F, retired in the ring
\* for F, and then stay with the gateway while later polls repeat the same
\* outage, for F again.
AcceptedBound == 3 * F + Poll + 5 * CallTime

\* A root that left the chain is not accepted for ever, however often and at
\* whatever step the reads of polls and refreshes fail.
AcceptedBounded ==
    \A s \in Sources : \A r \in accepted[s] :
        r # Chain(s) => now - gone[s][r] <= AcceptedBound

\* The next poll reaches a source before the snapshot a refresh took of it
\* expires.  (One contract alone needs no such haste: a poll that cannot read it
\* throws.)
Prompt ==
    \/ Cardinality(Sources) = 1
    \/ \A l \in Latencies : Poll + 2 * (Cardinality(Sources) * l) - l <= F

\* The last good snapshot serves for F; the poll after that finds out.  With
\* several contracts its refresh may throw when the others expire meanwhile, and
\* then it takes one poll more.
ServedBound ==
    IF Cardinality(Sources) = 1 THEN F + Poll + 2 * CallTime ELSE F + 2 * Poll + 5 * CallTime

\* A source that has not been read for its freshness window admits nobody.
FailsClosed ==
    \A s \in Sources : accepted[s] # {} => now - lkg[s].at <= ServedBound

\* How long after a failed read the gateway may lag behind.
Recovery == 2 * Poll + 3 * CallTime

\* When the chain is quiet and reads succeed, the gateway soon accepts every
\* source's current root, whatever happened before.
CatchesUp ==
    \A s \in Sources :
        (pc # "exit" /\ Chain(s) # NoRoot /\ now - Max({moved, bad}) > Recovery)
            => Chain(s) \in accepted[s]

\* With event replay, a client that read the chain before the gateway did is
\* not turned away: a root that was current within F, even if it came and went
\* between two polls, is accepted once the gateway has caught up.  This is for
\* runs whose reads succeed: a refresh() that fails after its poll succeeded
\* keeps the current root only, and the polls that follow have nothing to report.
RecentAccepted ==
    \A s \in Sources, r \in Roots \ {{}} :
        (/\ kind = "node"
         /\ gone[s][r] # None
         /\ now - gone[s][r] \in (Poll + 3 * CallTime + 1)..F
         /\ gone[s][r] > Recovery /\ bad = 0)
            => pc = "exit" \/ r \in accepted[s]
=============================================================================
