----------------------------- MODULE FleetTally -----------------------------
(***************************************************************************)
(* gateway/fleet-tally.mjs: the spent-nullifier tally that gateways share. *)
(* Each gateway keeps per-epoch buckets of nullifiers, bounded three ways, *)
(* and pushes what it established to its peers in one hop, without retry   *)
(* and without order; any push may be lost, and every failure is open.     *)
(* Gateways read their own clocks, which may disagree by Skew.             *)
(***************************************************************************)
EXTENDS Integers, FiniteSets, FiniteSetsExt, Functions

CONSTANTS
    Gateways,       \* the gateways of the fleet
    Nullifiers,     \* RLN nullifiers
    EpochOf,        \* EpochOf[n]: the epoch of n's external nullifier
    EpochLen,       \* EPOCH_SECONDS, in clock ticks
    Skew,           \* Skew[g]: how far g's clock is ahead
    MaxPerEpoch,    \* maxPerEpoch
    MaxBuckets,     \* maxEpochBuckets
    MaxTotal,       \* maxTotal
    MaxPerPeer,     \* MAX_IN_FLIGHT_PER_PEER
    MaxInFlight     \* MAX_IN_FLIGHT_TOTAL

ASSUME TallyAssumption ==
    /\ EpochOf \in [Nullifiers -> Nat]
    /\ Skew \in [Gateways -> Nat]
    /\ {EpochLen, MaxPerEpoch, MaxBuckets, MaxTotal, MaxPerPeer, MaxInFlight}
         \subseteq Nat \ {0}

VARIABLES
    now,        \* real time
    tally,      \* tally[g].buckets: the live epochs, each a set and its birth;
                \* tally[g].total: the counter the maxTotal bound is checked on
    pushes      \* pushes[g][q][n]: announcements of n on their way from g to q

tallyVars == <<tally, pushes>>

Clock(g) == now + Skew[g]

\* DEFAULT_TTL_MS, and the spent set's ttlMs: two epochs.
TTL == 2 * EpochLen

Epochs == {EpochOf[n] : n \in Nullifiers}

Bucket == [set : SUBSET Nullifiers, at : Nat]

EmptyTally == [buckets |-> [e \in {} |-> {}], total |-> 0]

TallyInit ==
    /\ tally = [g \in Gateways |-> EmptyTally]
    /\ pushes = [g \in Gateways |-> [q \in Gateways |-> [n \in Nullifiers |-> 0]]]

\* Types of the tallies and of the pushes on their way.
TallyTypeOK ==
    /\ \A g \in Gateways :
          /\ DOMAIN tally[g].buckets \subseteq Epochs
          /\ \A e \in DOMAIN tally[g].buckets : tally[g].buckets[e] \in Bucket
          /\ tally[g].total \in Nat
    /\ pushes \in [Gateways -> [Gateways -> [Nullifiers -> 0..MaxPerPeer]]]

-----------------------------------------------------------------------------
(* The tally of one gateway, as functions of its state T.                  *)

SizeOf(b, E) == SumFunctionOnSet([e \in DOMAIN b |-> Cardinality(b[e].set)], E)

\* Drop the buckets born more than a TTL before t.
Prune(T, t) ==
    LET live == {e \in DOMAIN T.buckets : T.buckets[e].at >= t - TTL}
    IN  [buckets |-> Restrict(T.buckets, live),
         total   |-> T.total - SizeOf(T.buckets, DOMAIN T.buckets \ live)]

\* T with n in the bucket of epoch e, born at `birth` if it is new.
WithNullifier(T, e, n, birth) ==
    LET old == IF e \in DOMAIN T.buckets THEN T.buckets[e]
               ELSE [set |-> {}, at |-> birth]
    IN  [buckets |-> [f \in DOMAIN T.buckets \cup {e} |->
                         IF f = e THEN [old EXCEPT !.set = @ \cup {n}]
                         ELSE T.buckets[f]],
         total   |-> T.total + 1]

\* Mutant: the aggregate bound is not checked for an existing bucket.
HasRoomPerBucket(T, e) ==
    IF e \in DOMAIN T.buckets
    THEN Cardinality(T.buckets[e].set) < MaxPerEpoch
    ELSE Cardinality(DOMAIN T.buckets) < MaxBuckets

\* None of the three bounds is reached.
HasRoom(T, e) ==
    /\ T.total < MaxTotal
    /\ IF e \in DOMAIN T.buckets
       THEN Cardinality(T.buckets[e].set) < MaxPerEpoch
       ELSE Cardinality(DOMAIN T.buckets) < MaxBuckets

Knows(T, n) == EpochOf[n] \in DOMAIN T.buckets /\ n \in T.buckets[EpochOf[n]].set

\* ingest(): prune first, then record n unless it is known or a bound is hit.
Ingest(T, n, t) ==
    LET P == Prune(T, t)
    IN  IF Knows(P, n) \/ ~HasRoom(P, EpochOf[n]) THEN P
        ELSE WithNullifier(P, EpochOf[n], n, t)

\* has(): prune, then look up.
Has(g, n) == Knows(Prune(tally[g], Clock(g)), n)

-----------------------------------------------------------------------------
(* Pushing and receiving.                                                  *)

PerPeer(g, q) == SumFunction(pushes[g][q])

InFlight(g) == MapThenSumSet(LAMBDA q : PerPeer(g, q), Gateways)

\* Peers a publish of g reaches before the in-flight bounds stop it; which
\* ones the total bound leaves out depends on the order of the peer list.
Reachable(g) == {q \in Gateways \ {g} : PerPeer(g, q) < MaxPerPeer}

\* record(): the gateway's own tally, then one push per reachable peer.
Record(g, n) ==
    /\ tally' = [tally EXCEPT ![g] = Ingest(@, n, Clock(g))]
    /\ \E Q \in SUBSET Reachable(g) :
          /\ Cardinality(Q) = Min({Cardinality(Reachable(g)), MaxInFlight - InFlight(g)})
          /\ pushes' = [pushes EXCEPT ![g] = [q \in Gateways |-> [m \in Nullifiers |->
                           @[q][m] + (IF q \in Q /\ m = n THEN 1 ELSE 0)]]]

Finish(g, q, n) == pushes' = [pushes EXCEPT ![g][q][n] = @ - 1]

\* A push reaches the peer, which ingests it by its own clock.
Deliver(g, q, n) ==
    /\ pushes[g][q][n] > 0
    /\ Finish(g, q, n)
    /\ tally' = [tally EXCEPT ![q] = Ingest(@, n, Clock(q))]

\* A push fails or times out: it is logged and dropped.
Lose(g, q, n) ==
    /\ pushes[g][q][n] > 0
    /\ Finish(g, q, n)
    /\ UNCHANGED tally

-----------------------------------------------------------------------------
(* Properties of the tally alone.                                          *)

\* The counter behind maxTotal agrees with the buckets, however pruning and
\* ingestion interleave, and none of the three memory bounds is exceeded.
TallyBounded ==
    \A g \in Gateways :
        LET b == tally[g].buckets
        IN  /\ tally[g].total = SizeOf(b, DOMAIN b)
            /\ tally[g].total <= MaxTotal
            /\ Cardinality(DOMAIN b) <= MaxBuckets
            /\ \A e \in DOMAIN b : Cardinality(b[e].set) <= MaxPerEpoch
=============================================================================
