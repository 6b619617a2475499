-------------------------- MODULE GatewayRotation ---------------------------
(***************************************************************************)
(* Which gateway a tunnel tries first: spreadSelectionOrder() and          *)
(* swrrPick() of client/selection.mjs, a smooth weighted round robin over  *)
(* the healthy gateways, with the health that reportResult() keeps in      *)
(* memory and in the health cache.  The fleet is fixed, so a refresh of    *)
(* the directory, which carries the health in memory forward, changes      *)
(* nothing; the gateways are numbered in directory order.                  *)
(***************************************************************************)
EXTENDS Integers, FiniteSetsExt, Functions

CONSTANTS
    Weight,         \* Weight[g], clamped
    MaxPicks,       \* bound: picks counted in a row
    MaxSessions     \* bound

Fleet == DOMAIN Weight

VARIABLES
    fails,      \* consecutive failures of a gateway
    down,       \* gateways whose health is "down"
    saved,      \* the health cache on disk
    deficit,    \* _swrr: a function on the gateways it knows
    steady,     \* history: the pool has not changed since the deficits were seeded
    picks,      \* history: how often each gateway was picked meanwhile
    sessions

rotationVars == <<fails, down, saved, deficit, steady, picks, sessions>>

None == [g \in Fleet |-> 0]

RotationInit ==
    /\ fails = None /\ down \in SUBSET Fleet /\ saved = None /\ deficit = << >>
    /\ steady = TRUE /\ picks = None /\ sessions = 1

-----------------------------------------------------------------------------
\* A gateway that is down is used when all are.
Pool(d) == IF d = Fleet THEN Fleet ELSE Fleet \ d

Total(pool) == MapThenSumSet(LAMBDA g : Weight[g], pool)

\* Mutant: the winner pays its own weight.
PriceOwn(pool, g) == Weight[g]

\* What the winner pays.
Price(pool, g) == Total(pool)

\* A gateway that is new to the schedule starts at a random phase; the first of
\* the largest deficits wins.
Pick ==
    LET pool == Pool(down)
        fresh == pool \ DOMAIN deficit
        all == pool \cup DOMAIN deficit
    IN  /\ Cardinality(pool) > 1
        /\ FoldFunction(+, 0, picks) < MaxPicks
        /\ \E phase \in [fresh -> 0..Max({Weight[g] : g \in Fleet}) - 1] :
              /\ \A g \in fresh : phase[g] < Weight[g]
              /\ LET due == [g \in all |-> (IF g \in fresh THEN phase[g] ELSE deficit[g])
                                           + (IF g \in pool THEN Weight[g] ELSE 0)]
                     best == Min({g \in pool : \A h \in pool : due[g] >= due[h]})
                 IN  /\ deficit' = [due EXCEPT ![best] = @ - Price(pool, best)]
                     /\ picks' = [picks EXCEPT ![best] = @ + 1]
        /\ UNCHANGED <<fails, down, saved, steady, sessions>>

Counted(n, ok) == IF ok THEN 0 ELSE IF n < 2 THEN n + 1 ELSE n

\* reportResult(), in memory and through to the disk: two failures in a row and
\* a gateway is down, one success and it is up.
ReportResult(g, ok) ==
    /\ fails' = [fails EXCEPT ![g] = Counted(@, ok)]
    /\ saved' = [saved EXCEPT ![g] = Counted(@, ok)]
    /\ down' = IF ok THEN down \ {g} ELSE IF fails'[g] = 2 THEN down \cup {g} ELSE down
    /\ IF Pool(down') = Pool(down)
       THEN UNCHANGED <<steady, picks>>
       ELSE steady' = FALSE /\ picks' = None
    /\ UNCHANGED <<deficit, sessions>>

\* The next process starts with the health the directory states, what the disk
\* says on top of it, and a new schedule; what has not been seen for long is
\* forgotten.
Restart ==
    /\ sessions < MaxSessions
    /\ sessions' = sessions + 1
    /\ \E decayed \in SUBSET Fleet :
          saved' = [g \in Fleet |-> IF g \in decayed THEN 0 ELSE saved[g]]
    /\ fails' = saved'
    /\ \E stated \in SUBSET Fleet : down' = stated \cup {g \in Fleet : saved'[g] = 2}
    /\ deficit' = << >> /\ steady' = TRUE /\ picks' = None

RotationNext ==
    \/ Pick \/ Restart
    \/ \E g \in Fleet, ok \in BOOLEAN : ReportResult(g, ok)

RotationSpec == RotationInit /\ [][RotationNext]_rotationVars

-----------------------------------------------------------------------------
(* Properties.                                                             *)

\* Whatever phases the schedule starts from, a cycle picks every gateway of the
\* pool exactly as often as its weight says, and no other.
SharesExact ==
    LET total == Total(Pool(down))
        n == FoldFunction(+, 0, picks)
    IN  steady /\ n % total = 0 =>
            \A g \in Fleet : picks[g] * total = IF g \in Pool(down) THEN n * Weight[g] ELSE 0

\* However gateways go down and come back, and keep their deficits meanwhile, no
\* deficit grows past the weight of the fleet: nobody is starved or favoured for
\* longer than a cycle.
DeficitsBounded ==
    \A g \in DOMAIN deficit : -Total(Fleet) <= deficit[g] /\ deficit[g] <= Total(Fleet)
=============================================================================
