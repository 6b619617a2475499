--------------------------- MODULE DirectoryDelta ---------------------------
(***************************************************************************)
(* The directory the Elder Tree serves: directory(), the versions it       *)
(* remembers, delta() and the active prober of bootnode/server.mjs, and a  *)
(* client that keeps up with deltas.  What gets listed, and for how long,  *)
(* is in Bootnode: here gateways come, change in place and go.             *)
(***************************************************************************)
EXTENDS Integers, SequencesExt

CONSTANTS
    Onions,
    Weights,        \* what an entry says besides its health
    FailThreshold,  \* SHADE_TREE_BOOTNODE_PROBE_FAILS
    History         \* SHADE_TREE_BOOTNODE_DELTA_HISTORY

VARIABLES
    listing,    \* the live Map, in insertion order
    probing,    \* probes on their way
    fails,      \* consecutive failures
    versions,   \* the versions served last, oldest first; the key is the ETag
    view        \* << >> or <<the directory the client holds>>

deltaVars == <<listing, probing, fails, versions, view>>

DeltaInit ==
    /\ listing = << >> /\ probing = {}
    /\ fails = [o \in Onions |-> 0]
    /\ versions = << >> /\ view = << >>

Lists(L, o) == \E i \in DOMAIN L : L[i].onion = o

-----------------------------------------------------------------------------
(* What the registry does to the listing.                                  *)

\* An announcement: in place when the gateway is listed.
List(o, weight) ==
    /\ listing' = IF Lists(listing, o)
                  THEN [i \in DOMAIN listing |->
                           IF listing[i].onion = o THEN [listing[i] EXCEPT !.weight = weight] ELSE listing[i]]
                  ELSE Append(listing, [onion |-> o, weight |-> weight])
    /\ UNCHANGED <<probing, fails, versions, view>>

\* sweep(): gateways that lapsed are dropped, and with them their counters.
Lapse(o) ==
    /\ listing' = SelectSeq(listing, LAMBDA e : e.onion # o)
    /\ fails' = [p \in Onions |-> IF Lists(listing', p) THEN fails[p] ELSE 0]
    /\ UNCHANGED <<probing, versions, view>>

-----------------------------------------------------------------------------
(* makeProber() and makeProbeHealth().                                     *)

RunCycle ==
    /\ probing' = probing \cup {listing[i].onion : i \in DOMAIN listing}
    /\ UNCHANGED <<listing, fails, versions, view>>

\* The probe ends, also when its gateway is no longer listed.
Probed(o, ok) ==
    /\ o \in probing
    /\ probing' = probing \ {o}
    /\ fails' = [fails EXCEPT ![o] = IF ok THEN 0 ELSE IF @ < FailThreshold THEN @ + 1 ELSE @]
    /\ UNCHANGED <<listing, versions, view>>

-----------------------------------------------------------------------------
(* The directory and its deltas.                                           *)

Entry(e) == [onion |-> e.onion, weight |-> e.weight, up |-> fails[e.onion] < FailThreshold]

\* directory(): what is signed, but for the time of issue and the other fields
\* that each delta carries along.  Equal directories have equal ETags.
Directory == [i \in DOMAIN listing |-> Entry(listing[i])]

Named(entries, o) == {g \in entries : g.onion = o}

\* Mutant: an entry that changed in place is not sent again.
AddedNew(old, dir) == {g \in Range(dir) : Named(Range(old), g.onion) = {}}

\* The entries of a delta: new, or changed in place.
Added(old, dir) == {g \in Range(dir) : g \notin Range(old)}

\* What the client makes of it: its own entries, overridden by the added ones,
\* in the order that was sent.
Rebuilt(old, added, dir) ==
    LET Body(o) == IF Named(added, o) # {} THEN Named(added, o) ELSE Named(Range(old), o)
    IN  [i \in DOMAIN dir |-> CHOOSE g \in Body(dir[i].onion) : TRUE]

\* recordVersion(): the newest last, the oldest forgotten.
Recorded(dir) ==
    LET all == Append(SelectSeq(versions, LAMBDA v : v # dir), dir)
    IN  SubSeq(all, IF Len(all) > History THEN Len(all) - History + 1 ELSE 1, Len(all))

\* GET /directory/delta with the ETag of the client's directory, or, when that
\* version is unknown, GET /directory.
Fetch ==
    /\ versions' = Recorded(Directory)
    /\ view' = IF view # << >> /\ view[1] \in Range(Recorded(Directory))
               THEN <<Rebuilt(view[1], Added(view[1], Directory), Directory)>>
               ELSE <<Directory>>
    /\ UNCHANGED <<listing, probing, fails>>

\* Another client fetches.
FetchOther ==
    /\ versions' = Recorded(Directory)
    /\ UNCHANGED <<listing, probing, fails, view>>

\* A restart forgets versions and probes; the listing comes from the store.
RestartServer ==
    /\ versions' = << >> /\ probing' = {} /\ fails' = [o \in Onions |-> 0]
    /\ UNCHANGED <<listing, view>>

DeltaNext ==
    \/ \E o \in Onions, weight \in Weights : List(o, weight)
    \/ \E o \in Onions : Lapse(o) \/ Probed(o, TRUE) \/ Probed(o, FALSE)
    \/ RunCycle \/ Fetch \/ FetchOther \/ RestartServer

DeltaSpec == DeltaInit /\ [][DeltaNext]_deltaVars

-----------------------------------------------------------------------------
\* Whatever version a client holds, the directory it builds from a delta is the
\* one the Elder Tree signed, so its signature verifies: after entries came,
\* went, changed in place, changed order, or turned up or down.
DeltaRebuilds == [][view' # view => view' = <<Directory>>]_deltaVars
=============================================================================
