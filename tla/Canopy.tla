------------------------------- MODULE Canopy -------------------------------
(***************************************************************************)
(* The client's view of the directory: ensureLoaded() and                  *)
(* loadFromBootnode() of client/selection.mjs, loadDirectory() of          *)
(* lib/directory.mjs.  A directory is told by its time of issue; every one *)
(* that was ever signed verifies for ever, and a bootnode that lags behind *)
(* may serve any of them.                                                  *)
(***************************************************************************)
EXTENDS Integers

CONSTANTS
    MaxAge,         \* SHADE_TREE_DIRECTORY_MAX_AGE_MS with its skew
    MaxIssued,      \* bound: seconds
    MaxSessions     \* bound: processes, one after the other

VARIABLES
    time,       \* a directory is signed at every second
    file,       \* the last-known-good file: {} or {issued}
    loaded,     \* the directory in use: {} or {issued}
    floor,      \* lastAcceptedIssued
    refresh,    \* the refresh in flight, with what was fetched, or {}
    latest,     \* history: the newest directory this session has used
    session

canopyVars == <<time, file, loaded, floor, refresh, latest, session>>

CanopyInit ==
    /\ time = 1 /\ file = {} /\ loaded = {} /\ floor = 0
    /\ refresh = {} /\ latest = 0 /\ session = 1

Second ==
    /\ time < MaxIssued
    /\ time' = time + 1
    /\ UNCHANGED <<file, loaded, floor, refresh, latest, session>>

-----------------------------------------------------------------------------
(* A refresh: a selection or the poll timer starts it, others join it.     *)

\* Nothing is in flight; the time is sampled before the fetch.
Ask ==
    /\ refresh = {}
    /\ refresh' = {[asked |-> time, issued |-> 0, source |-> "none"]}
    /\ UNCHANGED <<time, file, loaded, floor, latest, session>>

Awaited == {d \in refresh : d.source = "none"}

\* The bootnode answers with a directory that verifies.  The file is written
\* at once; that may fail.
Fetched(issued) ==
    /\ Awaited # {}
    /\ refresh' = {[d EXCEPT !.issued = issued, !.source = "bootnode"] : d \in refresh}
    /\ file' \in {file, {issued}}
    /\ UNCHANGED <<time, loaded, floor, latest, session>>

\* No answer, or none that verifies: the file stands in for it.  Without one
\* the refresh fails and what is in use stays.
FetchFailed ==
    /\ Awaited # {}
    /\ \/ file = {} /\ refresh' = {}
       \/ \E i \in file : refresh' = {[d EXCEPT !.issued = i, !.source = "cache"] : d \in refresh}
    /\ UNCHANGED <<time, file, loaded, floor, latest, session>>

\* The two tests a fresh directory must pass; the file is exempt.
Refused(d) ==
    /\ d.source # "cache"
    /\ d.issued < floor \/ d.asked - d.issued > MaxAge

\* Mutant: the file does not raise the floor.
RaisedFresh(d) == IF d.source # "cache" /\ d.issued > floor THEN d.issued ELSE floor

Raised(d) == IF d.issued > floor THEN d.issued ELSE floor

\* The refresh ends: the directory is put to use, or what is in use stays.
Adopt ==
    /\ refresh' = {}
    /\ \E d \in refresh \ Awaited :
          IF Refused(d)
          THEN UNCHANGED <<loaded, floor, latest>>
          ELSE /\ loaded' = {d.issued}
               /\ floor' = Raised(d)
               /\ latest' = IF d.issued > latest THEN d.issued ELSE latest
    /\ UNCHANGED <<time, file, session>>

\* A new process knows the file only.
NewSession ==
    /\ session < MaxSessions
    /\ session' = session + 1
    /\ loaded' = {} /\ floor' = 0 /\ refresh' = {} /\ latest' = 0
    /\ UNCHANGED <<time, file>>

CanopyNext ==
    \/ Second \/ Ask \/ FetchFailed \/ Adopt \/ NewSession
    \/ \E issued \in 1..time : Fetched(issued)

CanopySpec == CanopyInit /\ [][CanopyNext]_canopyVars

-----------------------------------------------------------------------------
(* Properties.                                                             *)

\* What the bootnode serves never takes the client behind a directory it has
\* used in this session, be that one from the bootnode or from the file.
FreshNeverBehind ==
    [][\A d \in refresh : loaded' # loaded /\ loaded' = {d.issued} /\ d.source # "cache"
           => d.issued >= latest]_canopyVars
=============================================================================
