--------------------------- MODULE RelayTelemetry ---------------------------
(***************************************************************************)
(* Relay telemetry: the gateway's byte counter, the reports its heartbeat  *)
(* sends (buildRelayReport() of lib/relay-telemetry.mjs, reportRelayOnce() *)
(* of bootnode/heartbeat.mjs over requestOverTor() of bootnode/fetch.mjs)  *)
(* and the Elder Tree's makeRelayAggregator(), for one gateway: the Elder  *)
(* Tree keeps gateways apart.  A report is posted again when an attempt    *)
(* fails, so it arrives any number of times or never, and its answer may   *)
(* be lost; each process may restart.                                      *)
(***************************************************************************)
EXTENDS Integers, FiniteSetsExt

CONSTANTS
    MaxRate,        \* plausible bytes per unit of time
    MaxInterval,    \* the longest interval of a report
    Retention,      \* how long the Elder Tree keeps what it was told
    Delay,          \* how long a contribution waits before it is published
    Hour,           \* windows end on the hour, and last one
    Transit,        \* all the attempts of one POST take no longer
    MaxTime, MaxBytes, MaxBoots, MaxRestarts    \* bounds

VARIABLES
    now,
    counter,        \* the counter file: boot, when it started, bytes
    baseline,       \* the reporter's state file, {} before the first report
    post,           \* the report being posted, or {}
    net,            \* reports that may still arrive
    node,           \* the Elder Tree's entry for the gateway, checkpointed, or {}
    contributions,  \* what it publishes from, in memory only
    relayed,        \* history: bytes relayed by every boot
    restarts

gateway == <<counter, relayed>>
reporter == <<baseline, post>>
elder == <<node, contributions>>
relayVars == <<now, gateway, reporter, net, elder, restarts>>

RelayInit ==
    /\ now = 0
    /\ counter = [boot |-> 1, started |-> 0, bytes |-> 0]
    /\ baseline = {} /\ post = {} /\ net = {}
    /\ node = {} /\ contributions = {}
    /\ relayed = 0 /\ restarts = 0

-----------------------------------------------------------------------------
(* The gateway.                                                            *)

\* add() and the next flush(): the heartbeat sees only what was flushed.
Relay ==
    /\ relayed < MaxBytes
    /\ counter' = [counter EXCEPT !.bytes = @ + 1]
    /\ relayed' = relayed + 1
    /\ UNCHANGED <<now, reporter, net, elder, restarts>>

\* A new process counts from zero under a new boot id.
Reboot ==
    /\ counter.boot < MaxBoots
    /\ counter' = [boot |-> counter.boot + 1, started |-> now, bytes |-> 0]
    /\ UNCHANGED <<now, relayed, reporter, net, elder, restarts>>

-----------------------------------------------------------------------------
(* The reporter.                                                           *)

SameBoot == \E b \in baseline : b.boot = counter.boot

Start == IF SameBoot THEN (CHOOSE b \in baseline : TRUE).end ELSE counter.started

\* buildRelayReport(): numbered after the baseline, whatever its boot was.
Report ==
    [boot |-> counter.boot, bytes |-> counter.bytes, start |-> Start, end |-> now,
     sequence |-> 1 + (IF baseline = {} THEN 0 ELSE (CHOOSE b \in baseline : TRUE).sequence),
     reset |-> ~SameBoot]

\* reportRelayOnce(), after an accepted announcement.
Build ==
    /\ post = {} /\ Start < now
    /\ post' = {Report}
    /\ net' = net \cup {Report}
    /\ UNCHANGED <<now, gateway, baseline, elder, restarts>>

\* The last attempt failed, or the heartbeat's process died: the baseline stays.
GiveUp ==
    /\ post # {}
    /\ post' = {}
    /\ UNCHANGED <<now, gateway, baseline, net, elder, restarts>>

-----------------------------------------------------------------------------
(* The Elder Tree.                                                         *)

BytesOf(entries) == MapThenSumSet(LAMBDA e : e.bytes, entries)

Kept(entries) == {e \in entries : e.end >= now - Retention}

\* Mutant: bytes are counted from the start of the boot.
DeltaFromBoot(r, prior) == r.bytes

\* Counters run on within a boot and start again with the next.
Delta(r, prior) == r.bytes - BytesOf({p \in prior : p.boot = r.boot})

\* The order of reports, then the counters, against the entry at hand.
Follows(r, prior) ==
    /\ \A p \in prior : r.sequence > p.sequence /\ r.start >= p.end
    /\ r.reset <=> \A p \in prior : p.boot # r.boot
    /\ Delta(r, prior) >= 0
    /\ Delta(r, prior) <= (r.end - r.start) * MaxRate

\* accept() says yes.
Acceptable(r) ==
    /\ r.end >= now - Retention
    /\ r.end - r.start <= MaxInterval
    /\ Follows(r, Kept(node))

Accepted(r) ==
    /\ node' = {[sequence |-> r.sequence, boot |-> r.boot, end |-> r.end, bytes |-> r.bytes]}
    /\ contributions' = Kept(contributions) \cup {[start |-> r.start, end |-> r.end, bytes |-> Delta(r, Kept(node))]}

\* writeRelayReportState(), when the answer arrives and is yes.
Acknowledged(r) ==
    /\ baseline' = {[sequence |-> r.sequence, boot |-> r.boot, end |-> r.end]}
    /\ post' = {}

\* The report reaches the Elder Tree.  A refusal is an HTTP error: the reporter
\* sees it as it sees a lost answer.
Deliver(r) ==
    /\ IF Acceptable(r)
       THEN /\ Accepted(r)
            /\ UNCHANGED reporter \/ (r \in post /\ Acknowledged(r))
       ELSE /\ node' = Kept(node) /\ contributions' = Kept(contributions)
            /\ UNCHANGED reporter
    /\ UNCHANGED <<now, gateway, net, restarts>>

\* loadCheckpoint(): contributions are gone.
RestartElder ==
    /\ restarts < MaxRestarts
    /\ restarts' = restarts + 1
    /\ contributions' = {}
    /\ UNCHANGED <<now, gateway, reporter, net, node>>

Tick ==
    /\ now < MaxTime
    /\ now' = now + 1
    /\ net' = {r \in net : now' <= r.end + Transit}
    /\ post' = post \cap net'
    /\ UNCHANGED <<gateway, baseline, elder, restarts>>

RelayNext ==
    \/ Relay \/ Reboot
    \/ Build \/ GiveUp
    \/ \E r \in net : Deliver(r)
    \/ RestartElder \/ Tick

RelaySpec == RelayInit /\ [][RelayNext]_relayVars

-----------------------------------------------------------------------------
(* Publication: snapshot() and aggregateWindow().                          *)

\* Mutant: the hour that just ended is published.
WindowEndNow == (now \div Hour) * Hour

WindowEnd == ((now - Delay) \div Hour) * Hour

Published == BytesOf({e \in Kept(contributions) : e.start >= WindowEnd - Hour /\ e.end <= WindowEnd})

-----------------------------------------------------------------------------
(* Properties.                                                             *)

\* No byte is counted twice: the contributions cover disjoint intervals and add
\* up to no more than was relayed, whatever was sent again after a lost answer,
\* delayed, or numbered anew after a restart.
BytesCountedOnce ==
    /\ BytesOf(contributions) <= relayed
    /\ \A e, f \in contributions : e # f => e.end <= f.start \/ f.end <= e.start

\* What is published for a window does not change until the window does, unless
\* the Elder Tree restarts: no report comes in late for it and nothing of it is
\* pruned, so no difference of two readings reveals one gateway's bytes.
PublicationStable ==
    [][WindowEnd' = WindowEnd /\ restarts' = restarts => Published' = Published]_relayVars

\* "A transport failure is retried with the same monotonic baseline rather than
\* silently dropping an interval": the report that the heartbeat would build now
\* is one the Elder Tree accepts, some time after the last one it accepted.
RetryAcceptable ==
    post = {} /\ Start < now /\ now - Start <= MaxInterval /\ (\A p \in node : p.end < now)
        => Acceptable(Report)
=============================================================================
