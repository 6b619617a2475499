# Shade Tree: a TLA+ verification project

Shade Tree is an anonymous egress network. A member holds a secret whose
commitment is a leaf of a membership tree; for every tunnel it proves in zero
knowledge that it is a member and spends one of the slots its tier allows per
epoch (RLN, rate-limiting nullifiers). Gateways, reached over Tor, check the
proof, refuse or punish a slot that is spent twice, and relay bytes to the
destination. The membership trees live in contracts, whose roots gateways
follow. A bootnode (the Elder Tree) publishes a signed directory of gateways (the
Canopy), and a registrar sells paid membership.

This directory holds TLA+ models of the parts that carry this protocol, TLC
configurations that check them on small instances, and TLAPS proofs of the
properties that matter most for every value of the parameters. `PROJECT.json`
lists the components, the runs, the map from definitions to source lines, the
hazards of the code and the theorems.

To check a run: `tlc -workers 2 -config <run>.cfg <module>`; to check the proofs
of a module: `tlapm <module>.tla`.

## 1. Inventory

### Modelled

| Part | State | Operations | Hard because |
|---|---|---|---|
| Slot allocator, `client/slot-state.mjs` | per leaf: a state file (epoch, next slot) and a lock directory | `allocatePersistentSlot`: lock, load, choose, write and rename, fsync, unlock | several processes of one member share the file; kills, power loss, failing system calls, clocks that step back |
| Client tunnels, `client/shade-tree-client.mjs` | slot pool with its group cache, learned capabilities, per call a socket | `fetch`, `connect`, failover, deadline | calls interleave at every `await`, under an epoch that rolls over |
| Client directory and rotation, `client/selection.mjs` | loaded directory, its cache file and issue floor; rotation deficits and health | load, refresh, reject a rollback; pick, report | a refresh races another, a session ends, gateways go down and come back |
| Envelope verification, `lib/rln.mjs` | none beyond the call | epoch check, then the proof check behind a lock | time passes between the two checks |
| Spent set, `gateway/gateway.mjs` `makeSpentSet` | per nullifier: first signal, time, slashed mark | `admit`, `commit`, `sweep` | racing connections, retries, a slash transaction that is awaited, a sweep timer off the epoch grid |
| Fleet tally, `gateway/fleet-tally.mjs` | per epoch: a set of nullifiers, under three bounds; pushes in flight | `ingest`, `has`, `record`, `prune`, `publish` | announcements are lost, late and reordered; clocks disagree |
| Connection handler, `gateway/gateway.mjs` `makeHandler` | per connection: client socket, upstream socket, listeners; connection limiter, payload budget, tunnel gauge | accept, read, check, resolve, dial each address, relay, close | the client may vanish at every `await`; three timers and two sockets race to close one tunnel |
| Graceful shutdown, same file | phase | signal, drain, grace timeout | runs against all of the above |
| Root provider, `lib/root-provider.mjs`, and `initRoots` of the gateway | per contract: freshness ring, scan, last good snapshot; the gateway's accepted roots and degraded gauge | poll, read, refresh | reads fail or take time while the chain moves; what a poll compared is not what the refresh takes |
| `contracts/StakedReputationSet.sol` | members, count, leaves, balance, events | `register`, `initiateExit`, `withdraw`, `slash` | payees that call back and fail; members slashed while they exit; commitments that come back |
| Event replay, `reconstructGroup` of `lib/root-provider.mjs` | the tree rebuilt from the log | one step per event | must agree with the contract leaf by leaf |
| `contracts/PaidAccessSet.sol` with its Merkle tree | nodes of the tree, members, operator and pending operator | `insert`, `insertBatch`, `slash`, `setOperator`, `acceptOperator` | a path is recomputed from the nodes earlier paths left |
| `contracts/GatewayRegistry.sol` and the commands `group/register-gateway.mjs`, `group/exit-gateway.mjs` | operators, bonds, owner; what a command has read | `register`, `initiateExit`, `withdraw`, `slash`, `transferOwnership`; the commands | payees that call back; a command decides on a read that others outdate |
| Payment registrar, `payments/registrar.mjs` | orders in memory and in the store, in-flight set, transactions, chain | `verifyAndSettle`, `settle`, `insertLeaf`, `reconcilePending`, `recover` | crashes, lost answers, late receipts and undone blocks around two transactions per order |
| Bootnode registry, federation and heartbeat, `bootnode/` | live set, store, nonces, token bucket, stake cache | `announce`, `admitGossip`, `sweep`, `loadPersisted` | checks before an awaited stake read, effects after it; restarts forget the nonces |
| Directory deltas and prober, `bootnode/server.mjs` | remembered versions, probe verdicts | `directoryWithEtag`, `delta`, probe cycles | a delta is computed against a version the live set has left behind |
| Relay telemetry, `lib/relay-telemetry.mjs`, `bootnode/heartbeat.mjs` | byte counter, report baseline, accepted contributions | `add`, `buildRelayReport`, `accept`, `snapshot` | reports are lost, late or repeated; either end restarts |

### How the parts interact

A client takes the gateways from the directory it accepted, orders them by its
rotation, takes a slot from the allocator and proves for it. The same envelope is
offered to one gateway after the other until one takes it. The gateway's handler
reads the envelope, verifies it against the roots that `initRoots` accepted, asks
the spent set, which on a first sight asks the fleet tally, and only then takes a
slot of the connection limiter, resolves, dials and relays. Once the upstream is
connected the handler calls `commit`, which records the nullifier in the tally
and pushes it to the other gateways. A second distinct signal under a nullifier
reveals the secret: the spent set awaits a `slash` transaction. Contracts emit
events; the root provider polls them, or a storage slot, and tells the gateway to
read again when something changed. Gateways announce themselves to a bootnode,
which lists them while their announcement lasts and, if it requires stake, their
operator is staked in `GatewayRegistry`; bootnodes pull each other's records. The
registrar takes a signed payment authorization, settles it on the token and
inserts the buyer's leaf into `PaidAccessSet`.

### Not modelled

`PROJECT.json` lists every part with the reason. In short:

- Cryptography (proofs, hashes, signatures, Tor's onion keys) is abstracted to
  what it guarantees.
- Encodings, payment wire formats, logs, metrics, configuration, key files, the
  demo, the deployment scripts and the documentation site keep no protocol state.
- Egress policy, the routing of a slash to its contract, egress receipts and
  their scores, and the JSON-RPC guards decide on one input at a time.
- The local proxy `client/shim.mjs` and the payment client wrap calls that are
  modelled.
- The Rust client repeats the protocol of the JavaScript client in another
  language. Its slot cursor follows `SlotState`; its proxy, with the files the
  threads share, is a state machine of its own and is modelled (`RustProxy`). Its
  other commands, and the crates for encodings, signatures and proofs, are not.

## 2. Modules

| Module | Models | Extends |
|---|---|---|
| `SlotLedger` | abstract: slots of a leaf are handed out in increasing order below its limit | |
| `SlotState` | the slot allocator | |
| `ClientTunnel` | `fetch`, `connect`, slot pool, wire profile, failover | |
| `ClientProofs` | proofs about both | `SlotState`, `ClientTunnel` |
| `RustProxy` | the Rust client's proxy: listener, threads, one CONNECT request, directory cache and health file | |
| `RustProxyProofs` | its proofs | `RustProxy` |
| `Canopy` | the client's directory: refresh, cache, rollback floor | |
| `GatewayRotation` | smooth weighted rotation and gateway health | |
| `FleetTally` | the tally and its transport | |
| `SpentSet` | verification, spent set and slash decision, composed with the tally | `FleetTally` |
| `SpentSetProofs` | proofs about both | `SpentSet`, `FoldTheory` |
| `GatewayHandler` | handler, limiter, payload budget, shutdown | |
| `GatewayHandlerProofs` | its proofs | `GatewayHandler` |
| `RootProvider` | ring, cache, polls, union of contracts, `initRoots` | |
| `RootProviderProofs` | its proofs | `RootProvider` |
| `AdmissionTree` | abstract: an append-only tree whose vacated slots stay vacated | |
| `StakedReputationSet` | the contract, with its node store | `MerklePath`, instantiates `AdmissionTree` |
| `GroupReplay` | `reconstructGroup` over the contract's events | `StakedReputationSet` |
| `RateCommitments` | leaves and tiers of both membership contracts, and what the hash guarantees of them | |
| `MerklePath` | the node store of the on-chain tree, and the root as it should be | `RateCommitments` |
| `PaidAccessSet` | functions of the paid contract, as operators on its state | `MerklePath` |
| `PaidAccess` | the contract as a state machine | `PaidAccessSet`, instantiates `AdmissionTree` |
| `GatewayRegistry` | functions of the gateways' registry, as operators on its state | |
| `GatewayStaking` | the registry as a state machine, with the operators' commands | `GatewayRegistry` |
| `ContractProofs` | proofs about the three contracts and the replay | `GroupReplay`, `PaidAccess`, `GatewayStaking`, `FoldTheory` |
| `Registrar` | the payment registrar, composed with the paid contract and the chain | `PaidAccessSet` |
| `Bootnode` | announcements, gossip, store and stake checks, composed with the registry of stakes | `GatewayRegistry` |
| `DirectoryDelta` | versions of the directory, deltas, the prober | |
| `RelayTelemetry` | counter, reports, aggregation | |
| `ServiceProofs` | proofs about the bootnode, the client's directory and the registrar | `Bootnode`, `Canopy`, `Registrar`, `FoldTheory` |
| `FoldTheory` | induction, recursion, folds, filters and sums, for the proofs | |
| `MC*` | model values, the instances and what is asked of them | the modules they check |

An operator whose comment begins with "Mutant" is a plausible bug in the
definition that follows it. It takes part in no specification; replacing the
definition by it shows that the property named in `PROJECT.json` notices.

### SlotState

`file` is what the path shows, `disk` the set of states that may be on the disk
if power fails now: a rename adds one, the fsync of the directory leaves only
the newest. `lock` is the lock directory. A call moves through `lock`, `load`,
`save`, `sync` and `unlock`, and the slot counts as returned (`log`) when the
lock is gone. `Crash` keeps the file system, lock directory included;
`PowerLoss` ends every process and picks any state of `disk`. An operator may
remove the lock directory of a dead process (`ClearStaleLock`). The clock moves
in both directions.

### ClientTunnel

`at` is the `await` a call of `connect()` is at; `fetch` the outcome of the call
around it, which may have given up at its deadline while `connect()` goes on.
`pool`, `load` and `group` are the epoch of the slot pool, the loads of the group
that are under way and the group that is cached: a load that ends late stores its
group whatever the epoch is by then, and a load that failed stays the promise
that callers get. `Reserve` is one turn of the event loop, from the plan of the
wire profile to the slot; the proof comes later and is for the slot reserved.
`learned` is what a refusal taught about a gateway. Slots are counted, since how
they are allocated is `SlotState`.

### RustProxy

`queue` is the bounded channel between the listener and the threads; `work[w]` is
the request thread `w` is at, with the locals it still needs, and `replies` what
each agent was sent. A directory is the time it was issued, and `cache` the one
in the cache file, 0 when what is there does not verify. `health` is the health
file, loaded at the start of a request and written back whole at its end, with no
lock: `OpenCache` and `OpenHealth` empty a file, `WriteCache` and `Save` fill it,
and other threads or the end of the process come in between. The epoch is sampled
when the plan is made, and the slot is allocated for it after the members were
loaded. A refusal by a gateway is terminal; a failed dial, or no proper
acknowledgement in time, moves on to the next candidate.

### Canopy, GatewayRotation

A directory is its time of issue. `Fetched` writes the cache file before
`Refused` or `Adopt` compare the directory with `floor`; `FetchFailed` falls back
to the file. A refresh that several callers want is one refresh. Sessions end and
forget everything but the file. `GatewayRotation` has exact integer weights and
deficits; a gateway that failed twice in a row leaves the pool, keeps its deficit
and comes back after a success. Health outlives a session, deficits do not.

### SpentSet and FleetTally

An envelope is a nullifier and a signal. `CheckEnvelope` is the synchronous part
of `verifyEnvelope`; the connection then waits in `proving`, during which time,
sweeps and other connections proceed. `admit` is one step, split into its
branches, except that after `OverSpend` the connection waits in `slashing` for
the transaction. `Connect` is the upstream's connect callback, which calls
`commit`; `Drop` is a connection that ends in any other way. `history` is an
observation, read by no action. A tally has buckets and a running total; `Prune`
runs first in `Ingest`, `Has` and `Record` as in the code. A push is either
delivered or lost, in any order. Each gateway's clock is ahead of real time by
its own constant.

### GatewayHandler

`pc` is the `await` a connection is at, `sock` and `up` its two sockets,
`listeners` the close listeners attached so far. A socket that is destroyed runs
its listeners later (`CloseEvent`), so the code between can still run: the
guards of the code against that case are the actions `AdmittedGone`,
`ResolvedGone` and `ConnectedGone`. Payload is counted in units; a chunk is cut
to what the budget has left. Ages are abstracted to old or not old.

### RootProvider

A root is the set of live leaves. A read begins, sees the chain and ends in
three steps, and may fail at each. `ring` is the freshness ring, `lkg` the last
good snapshot, `between` the roots the chain passed through since the last
scan, which event replay sees and a storage slot does not (`kind`). `PollTimer`,
`PollThrew`, `PollAnswered` and `RefreshDone` are the branches of `pollOnChange`
and of the gateway's callback. Time is urgent: a due poll or a finished call is
handled before the clock moves on, since the event loop is not otherwise busy;
a read takes at most `latency`. `last` holds the key of the last poll, or nothing
after a poll that threw. `FailsClosed` bounds how long the roots of a contract
outlive the last good read of it: by the window, a poll and two calls for one
contract, and by a further poll and three more calls for several (`ServedBound`),
as a refresh may throw although its poll succeeded.

### StakedReputationSet and GroupReplay

`st` and `tree` are everything a revert undoes: `st` the members, counters, leaves,
balance and events, `tree` the stored nodes and the root. `withdraw` and `slash` push
both on `stack` and `trees` before they pay; until `PayoutReturns` or `PayoutReverts`
the payee may call any function. A revert restores the top, and with it undoes every
nested call. Each nested call is allowed at every depth up to `MaxDepth`. `register`
may declare another tier than the leaf's own; then `LeafMatches` fails for ever, as the
code's comment at lines 305-308 says. It takes any word for a commitment, also the word
0 (`Blank`). `TierOf` is 0 for that word and for the empty leaf, since no secret is known
to hash to either, so such a member can neither exit nor be slashed. What is visible to
others is the state after a transaction: `Committed`. `GroupReplay` folds `Apply` over
the events and compares leaves, size, count and root.

### MerklePath, PaidAccessSet and PaidAccess

Here the tree is what the contract stores: the nodes written so far, by level and
index. A node that holds 0 reads as the root of an empty subtree (`Written`): one that
was never written, and a leaf that was set to 0. A hash is the pair of its arguments,
and never 0, so two trees have the same root only if they have the same leaves.
`UpdateLeaf` walks one path up; `RootOf` is the root of the leaves by definition.
`PaidAccessSet` gives each function of the contract as a condition and a new
state, so that `Registrar` can use the same definitions for its transactions.

### GatewayRegistry and GatewayStaking

The functions of the contract are operators too, shared with `Bootnode`.
`GatewayStaking` adds payouts that call back, as in `StakedReputationSet`, and
`cmd`: an operator's command reads the contract, others act, and the transaction
it then sends succeeds, reverts or is never answered. `CommandHonest` compares
what the command reports with what happened.

### Registrar

`orders` are the order objects handlers work on, `kept` which of them is stored
for an authorization: a second request may hold an object of its own. `req` is
the `await` each request is at, `todo` what `recover` has still to look at. The
chain (`blocks`) is its blocks, each with the state of the token and of the paid set after
it; transactions are mined or not, in any order, and a block within `ReorgDepth`
of the tip may be undone. `final` counts the blocks that cannot be. Faults, of
which there are at most `MaxFaults`, are crashes, undone blocks, lost answers of
the node, and transactions of others that get in the way. `Overlap` says whether
a buyer may post an authorization again before the first answer; the code permits
it, and the run `registrar_overlap` shows the result.

### Bootnode

`live` is the ordered map of the registry. `store` is its file: the entries of the last
write that reached it, and whether that was the last write asked for (`current`).
Without `SHADE_TREE_BOOTNODE_STORE` nothing is written (`Storing`), and a write that fails
is swallowed (`Persist`).

A gateway's signature covers neither its operator nor the operator's authorization, so
whoever presents a record, the gateway or a peer, may present it with any operator
that authorized the gateway, or with none (`Presented`). That operator decides whether the
verification awaits the chain. `Announce` makes the synchronous checks and, for an
operator whose stake is not cached, leaves its request in `work`; `Answered` and
`Unanswered` finish it. `PullPeer` is `admitGossip` on a record that another bootnode
served (`Gossip`), of which several may be under way, as pulls are started by a timer
that does not wait for the last one. An answer is what the chain said at some time since
the call, of a block up to `Lag` old, and is cached from the time of the call (`Told`,
`StakeAnswer`). Operators register, exit and withdraw, and are slashed, as they like; that
chain is not undone, and its reorganizations within `Lag` are what the confirmations are
for. A gateway signs by its own clock, which may be `Ahead`. `Restart` reloads the store
and verifies each entry anew, whether or not the chain answers. It is one step although the
answers take time: the bootnode listens only after the reload, and the entries
keep their expiry.

`promised` and `changed` are histories: until when a gateway was told that it is listed,
and when the chain's answer about an operator last changed. An announcement that is
accepted while gossip of the same gateway awaits the chain promises nothing, since that
gossip was compared with the entry before the await and puts back an earlier expiry
after it (see section 3). A restart keeps the promises that the store holds, if its last
write succeeded, there is room, and the stake that admission may require was confirmed.

### DirectoryDelta

`listing` is the live set, in order, `versions` the directories served last, by
their tag, `view` the directory a client holds. A client asks for what changed
since its version, rebuilds the directory from its own entries and those it is
sent, and checks it against what was signed; `Rebuilt` is the repository's own
reconstruction in its test. The prober demotes gateways after failures and its
results arrive after the entry they are about has changed or gone.

### RelayTelemetry

`counter` is the gateway's byte counter with its boot, `baseline` the last report
that was acknowledged, `post` the report that awaits its answer, `net` the copies
under way. The aggregator accepts a report that follows its entry for the gateway
(`node`, which it checkpoints), and publishes from `contributions`, which are in
memory only, the windows that ended `Delay` ago. Either side may restart with
what it had written.

## 3. Runs

| Run | Question | Outcome |
|---|---|---|
| `client` | two processes on one slot file with every crash, two tunnels over rollovers and failovers, and the Rust proxy: is a slot or nullifier used twice, does a socket leak, is an agent answered twice, does a call hang? | no |
| `slot_two_tiers` | the same secret at two tiers | violated: both tiers hand out the same nullifier |
| `spent` | one signal per nullifier, retries in the window, every over-spend slashed once; with skewed clocks and lost pushes, bounds and evidence of the tally | hold |
| `fleet_slash` | is an over-spend still slashed with a tally? | violated |
| `handler` | do counters, sockets, gauge and budget agree whatever vanishes when; is every connection answered, does every relay end? | yes |
| `handler_idle` | does a tunnel end once its upstream is gone? | violated |
| `roots` | one contract, or two whose reads fail: retired roots, failing closed, recovery | hold |
| `roots_quiet` | is a retired root refused when the chain is quiet? | violated |
| `contracts` | the three contracts, with re-entrant and failing payees, the replay, the node store, and commands that decide on old reads | hold |
| `services` | registrar, bootnode, deltas, telemetry, the client's directory and rotation | hold |
| `registrar_overlap` | is a payment served when two requests carry one authorization? | violated |
| `relay_lost` | can a report be retried after its answer was lost? | violated |

`client`, `contracts`, `services`, and in part `spent`, `handler` and `roots`,
check several instances at once: `part` (or `alone`, `caps`, `deployment`) is
chosen in the initial state and never changes, only the actions of that part are
taken, and the variables of the others stay as they began. The parts share no
state in the program either, so this is one search over the union of their
behaviours, and the state space is the sum of theirs. Where parts do interact,
a module composes them: `SpentSet` with `FleetTally`, `Registrar` with
`PaidAccessSet`, `Bootnode` with `GatewayRegistry`, `RootProvider` with the
gateway's callback.

### What the properties say

- Slots and tunnels. `GrantsSurviveCrash`: no state a crash can leave behind hands
  out a returned slot again. `ImplementsLedger`: the allocator is the ledger.
  `NullifiersUnique`: no two proofs of the JavaScript client share a nullifier.
  `AccountsExact`: none of its calls keeps a socket it does not use
  (`NoSocketLeaks`); no two proofs of the Rust proxy share a nullifier
  (`ProofsDistinct`); an agent of the Rust proxy is in one place and gets one
  status, "200" only after a proof was offered (`OneAnswer`); the health file
  never says that a gateway failed more often than it did (`HealthEarned`).
  `CallsEnd`: a call for a slot, a call for a tunnel, and the wait of an agent
  while a thread is not held by a tunnel.
- Gateway. `OneSignalPerSlot`, `RetriesInWindow`, `OverSpendSlashed`,
  `SlashedOnce`, `FleetEvidenceReal`, `TallyBounded`; `NothingLeaks`,
  `NoOrphanUpstream`, `BudgetNotRestored`, `AnsweredInTime`, `RelayEnds`;
  `UnionBounded`, `EitherFailsClosed`, `EitherCatchesUp`, `SingleRecentAccepted`.
- Contracts. `Solvent`, `AdmissionExact`, `TreeImplemented`; `TreeIsReplay`: the
  events lead to the leaves on chain and, unless the word 0 is a member, to the stored
  root; `PaidRootExact`: unless the word 0 was inserted, the stored root is that of the
  live leaves;
  `PaidTreeImplemented`; `RegistryExact`: balance, count and indices agree with
  the operators at every depth of calls; `CommandHonest`.
- Services. `StaysListed`: a gateway stays listed for as long as it was told, if no
  gossip of it was awaited when it was told. `ListingBounded`: nothing is listed or
  stored long after the time its gateway signed. That time is the gateway's own: gossip
  bounds it from below only, so a gateway whose clock is ahead is listed for as much
  longer. `ListedWhileStaked`: what is listed as staked is staked, or was until less than
  `Believed` ago: the age of the block, an answer that is awaited or cached, an entry, and
  a clock that is ahead.
  `DeltaRebuilds`, `BytesCountedOnce`, `PublicationStable`, `FreshNeverBehind`,
  `RotationFair`. `PaidIsServed`: a payment that was confirmed and known ends as
  a leaf or as an order that recovery pursues. `OneLeafPerPayment`,
  `PaidStaysPaid`.

### Bounds, and why they are enough

- `client`: 2 processes, limit 2, 2 epochs, 3 grants. Two processes are what
  mutual exclusion takes; 2 epochs and limit 2 let the budget run out, roll over
  and roll back; the proofs remove the bounds. Tunnels: 2 calls, 2 gateways, 2
  profiles of the client and one it no longer offers, 2 slots, one change of
  epoch: enough for a refusal that teaches, a failover, an exhausted budget and a
  load that ends in the wrong epoch. Rust proxy: 2 agents, 2 slots, one change of
  epoch and one crash, with 2 threads, 1 gateway and one proof of an earlier run, so
  that two requests overlap at every step and an old epoch can come back, and with 1 thread, 2 gateways and 2 directories, so that the
  channel is full, a dial falls back and a rollback is refused.
- `spent`: 2 connections, 2 signals, 3 envelopes, epochs of 2 ticks, time 5:
  first admission, retry and over-spend, on both sides of the window and of the
  expiry. In the fleet 2 gateways, one of which is ahead, 2 nullifiers in
  different epochs, every bound of the tally reached.
- `handler`: 2 connections, under one nullifier with a budget of 2 units, so that
  two tunnels share and exhaust it; with room for both, with one tunnel per
  nullifier and with one connection at a time, so that each limit refuses one;
  up to 2 addresses, so that a dial falls back. No symmetry, as liveness is
  checked.
- `roots`: one contract with F = 2, two changes (join, leave, and back to the
  empty set), reads of 0 or 1 tick, time 7; two contracts with F = 1, one change,
  time 6, which is beyond 3F + poll: every time bound of the properties can be
  exceeded within the run.
- `contracts`: staked, 2 commitments with different tiers, each of which may be
  declared wrongly, and the word 0; 3 registrations in a tree of 4 leaves, so that a
  commitment comes back while the other is in the tree, and payouts nested twice. Paid, a
  tree of depth 2 filled to its 4 leaves, and two batches, of which the second declares a
  leaf at another tier than its own; either is admissible when neither of its leaves is
  live, and refused otherwise. Gateways, 2
  operators, 3 stakes, nesting 2.
- `services`: registrar, one authorization with 2 faults over 5 blocks, and two
  authorizations for one commitment with 1 fault over 4 blocks; 2 confirmations
  and undone blocks of depth 1, so that nothing final is undone, which is what the
  confirmations are for. Bootnode,
  three instances. Two require stake, of 1 gateway with room for 1 and 1 operator, whose
  stake may end while its answer is awaited or cached, 1 restart, time to live 2, time 4,
  so that the longest listing ends: one without a store, with 2 records and an answer one
  block old, the other with a store, 1 record and a clock that is ahead. The third requires
  none and has a store, 2 gateways with room for 1, 2 records, 1 restart and time 2, and
  asks the chain about an operator that a record was presented with. Each has 1
  announcement and 1 pull under way at once; the proofs cover any number.
  Telemetry, 2 bytes, 2 boots, one restart of
  the bootnode, time 4, beyond retention. Canopy, 4 directories, which are stale after 2 ticks, 2 sessions.
  Rotation, 3 gateways with weights 1, 1 and 2, a whole cycle of 4 picks, from
  every set of gateways that are down. Deltas, 2 gateways, 2 remembered versions.

Deadlock is not checked where the system may stop or the clock is bounded: after
a shutdown, at the end of time, when no registration is left.

### Fairness

Only `client`, `handler` and `handler_idle` need it. In `SlotState` each running
process takes its next step: the call is synchronous code and its wait for the
lock ends at a deadline. In `ClientTunnel` each await of a call ends, since RPCs,
dials, acknowledgements and `fetch` have timeouts. In `RustProxy` a free thread
takes from the channel, and a request goes on until its tunnel is open, since
reads from the agent, the fetch of the directory, RPCs, the lock, dials and
acknowledgements have timeouts; how long a tunnel lasts is not assumed. In `GatewayHandler`
verification ends, the read, resolve, connect and (while the relay is open) idle
timers fire, close listeners run, and a shutdown drains or reaches its grace
timeout: all of these are timers or callbacks of the event loop of the gateway
itself. Clients, destinations, resolvers and signals are not fair: they may stay
silent for ever. A violation found under this fairness is therefore not an
artefact of a process that merely stopped.

`CatchesUp` of `RootProvider` says that something happens in time, and is a
safety property because the clock is in the model and urgent.

### What the violations show

1. `slot_two_tiers` (`client/slot-state.mjs:68`). The state file is named after
   the leaf, which depends on the tier; the nullifier does not. A secret enrolled
   at two tiers has two cursors that start at the same slot.
2. `fleet_slash` (`gateway/gateway.mjs:653`). A gateway that knows a nullifier
   from a peer answers each further signal from the first-seen branch and
   records none of them: an over-spend there is refused, and not slashed.
3. `handler_idle` (`gateway/gateway.mjs:1650`). The idle timer is on the upstream
   socket alone. When the destination ends first, the client socket has no timer.
4. `roots_quiet` (`lib/root-provider.mjs:750`). With one contract, a poll served
   from the cache and the first poll after a retired root expired have the same
   key, so the gateway is not told and keeps the retired root until the next
   change.
5. `registrar_overlap` (`payments/registrar.mjs:465`). Two requests with the same
   new authorization are both past the in-flight test, which is made for stored
   orders only. The second settlement fails, and its object is stored, as failed
   and without a transaction, over that of the first: if the first stops before
   it stores again, nothing leads from the store to the payment.
6. `relay_lost` (`bootnode/heartbeat.mjs:286`). When the answer to an accepted
   report is lost, the baseline stays where it was; the next report has the same
   sequence number and is refused as a replay, at every heartbeat until the
   bootnode prunes its entry.

The `PROJECT.json` findings quote the line of the documentation or comment that
each one contradicts.

Modelling met more places where a comment says more than the code does. They
have no run of their own:

- A replay of the same envelope inside the retry window opens a second tunnel
  even if the first one is open (`gateway/gateway.mjs:597-599` speaks of a retry
  of a failed one).
- A tunnel that reaches its payload limit and then its idle timeout is counted
  under both reasons (`gateway/gateway.mjs:1653`).
- When the set has become empty and the RPC fails, the first root of the cached
  snapshot is a retired one and is served as if it were current
  (`lib/root-provider.mjs:207`).
- After a `refresh()` that failed though its poll had succeeded, the degraded
  gauge stays set, and retired roots within F stay refused, until the next change
  (`gateway/gateway.mjs:548`).
- Two authorizations for one commitment both settle, and the second pays for a
  leaf that exists (`payments/registrar.mjs:30`). A crash between a broadcast and
  the store of its hash, or a lost answer to it, leaves a mined payment without an
  order that knows it, and an insertion may be sent twice; `insertLeaf` trusts a
  leaf it finds whatever its depth (`payments/registrar.mjs:310`).
- Gossip that awaits the chain overwrites what its gateway announced meanwhile with an
  earlier expiry, although `bootnode/server.mjs:465-466` says that a fresher entry is never
  clobbered. This concerns gateways without an operator as well: the signature does not cover
  the operator (`bootnode/announce.mjs:43-47`), so a record that a peer presents with an
  operator is verified against the chain (`bootnode/announce.mjs:138-145`). `StaysListed`
  is false if announcements made while gossip is awaited count as promises.
- A probe that ends late is recorded for a gateway that has left
  (`bootnode/server.mjs:262-263`).
- `contracts/StakedReputationSet.sol:141-144` says that a stored 0 can only mean a node that
  was never written. `register` takes the word 0 for a commitment (lines 309-320), and
  `_nodeAt` then reads its leaf as empty (lines 268-271), while `reconstructGroup` has a
  leaf with the value 0 (`lib/root-provider.mjs:490`): once another path is updated next to
  it, the root on chain is not that of the replay, and as such a member cannot exit or be
  slashed, it stays so. `TreeIsReplay` and `PaidRootExact` are false without their
  condition, which TLC confirms.
- A group that failed to load stays the promise callers get until the next epoch,
  a stale load stores its group after the rollover
  (`client/shade-tree-client.mjs:168`), and learned capabilities win over newer
  signed ones for the life of the process (lines 738-739).
- The time of issue of the directory in use can move back within a session
  through the cache file, which is exempt from the floor by a documented choice;
  `FreshNeverBehind` is about directories that were fetched
  (`client/selection.mjs:557`).
- A refresh carries the client's own health marks over (`client/selection.mjs:653-658`),
  so a later verdict of the bootnode's prober does not reach a client that has
  loaded the gateway before.
- Two threads of the Rust proxy may read the floor of the directory cache before
  either writes it, and the older directory may be written last; a process that
  ends while it writes leaves no floor (`rust/shade-tree-client/src/dircache.rs:376`).
  The comment at lines 15-17 claims a high-water mark for a one-shot command. The
  health file loses what another thread saved meanwhile in the same way.
- Nothing bounds `nextIndex` by the leaves of the tree
  (`contracts/StakedReputationSet.sol:315`); the runs stop at a full tree.
- An operator that exits stays listed as staked for the rest of its entry, and can
  renew it on a cached answer. The unbonding time of `GatewayRegistry` is not tied to
  that: outside the public profile it is 300 s by default
  (`contracts/script/DeployRegistry.s.sol:76`), and an entry lasts 900 s, so a gateway
  may be listed as staked when its bond was withdrawn and can no longer be slashed.
- After a gateway changed health, the rotation may pick one gateway twice in a
  row at equal weights (`client/selection.mjs:323-324`).

## 4. Proofs

All proofs are for every value of the constants that satisfies the named
assumptions of the modules. The bounds of the runs are parameters too, so they
limit nothing. The assumptions are what the code needs:

- `LeafAssumption`, `LimitAssumption`, `BoundAssumption` (`SlotState`),
  `TallyAssumption`, `SpentAssumption`: arbitrary sets; limits and lengths are
  natural numbers, nonzero where the code requires it.
- `SetAssumption`, `HandlerAssumption`, `RootAssumption`, `BootnodeAssumption`,
  `PaidAssumption`: the same, with finitely many commitments, connections and contracts, since they are
  counted; the batches are any set of lists of leaves, and a tree has at least one
  level and at most the capacity that its depth allows. Of commitments the first and last
  assume `CommitmentFacts`: the empty leaf is not the word 0, and of neither is it known
  how to derive it. Any commitment may be registered, these two included.
- `TunnelConstants`, `ProxyConstants`, `StakingConstants`: the same, as hypotheses
  of the theorems of modules that runs compose with others. `MCClient` and
  `MCContracts` assume them of what they check, so TLC evaluates them.
- `Deployment`, the hypothesis of the theorems about the registrar:
  `RegistrarConstants`, `Confirmations > ReorgDepth` (no block is undone below the depth
  the registrar asks for, which is what `SHADE_TREE_PAY_CONFIRMATIONS` is for) and
  `~Overlap` (a buyer waits for an answer before it posts the same authorization again).
  Without the last `PaidIsServed` is false (`registrar_overlap`).
- `~UseTally`, the hypothesis of `OverSpender`: a gateway without a fleet. With the
  tally the property is false (`fleet_slash`).
- `Prompt`, the hypothesis of `ClosedWhenUnread`, is explained there;
  `MCRootProvider` assumes it of both its instances.

TLC checked each inductive invariant on the instances of the runs before it was
proved.

**ClientProofs, the slot allocator**: `TypeCorrect`, `GrantsSafe`, `Refinement`. That a returned
slot survives a crash is not inductive, since it depends on how far the holder
of the lock has come. The invariant adds that a process in the critical section
owns the lock alone, that what the path shows may be on the disk, that the slot
about to be saved is the first one the file does not exclude, and that after the
rename the file is just past it. `Refinement` maps `log` to the ledger: the step
that returns a slot is a ledger step because every earlier slot precedes it, and
all other steps stutter.

**SpentSetProofs**: `OneSignal`, `RetryWindow`, `SlashOnce`, `OverSpender`,
`EvidenceReal`, `TallyIsBounded`. The
entry of a nullifier must witness what was decided for as long as the
nullifier's epoch is accepted: an envelope in the handler was fresh when it was
checked, so no entry is older than its epoch (`ConnOpened`, `EntryOpened`);
entries are kept for two epochs, so an entry is swept only after its nullifier
has expired; and until then it carries the signal admitted first
(`AdmissionWitnessed`) or the mark of the slash (`SlashWitnessed`). An envelope
whose proof took so long that its nullifier expired meanwhile may be admitted
again; the property is about admissions that are timely, as the code's own
comment on the time-to-live is. `OverSpender` needs the converse direction:
whatever the gateway decided about a signal left its mark in the entry, so the
second signal cannot meet an entry that knows neither (`VerdictWitnessed`), and a
mark is never there without a slash (`MarkedBySlash`). `EvidenceReal` adds that every nullifier in a
tally (`TallyReal`) or a push (`PushReal`) stands for a tunnel in the history.
`TallyIsBounded` says that the running total, which `record`, `ingest` and `prune`
change at different places, is the sum of the sizes of the buckets; a bucket that is
dropped takes its own size with it (`SumSplit`), one that grows adds one
(`SumUpdate`).

**ContractProofs, the staked set**: `TypeCorrect`, `TreeIsExact`, `CountIsExact`,
`ImplementsTree`, `ReplayIsExact`, `AlwaysSolvent`. A revert brings an old state back, so the invariant is about
`st` and every state on the stack alike. `Good` is the conjunction of the types,
the exactness of the tree, that indices in use are below `nextIndex` while the
leaves from there on are empty, and the exactness of the count. `Grown` orders
the states: each state on the stack grows into those above it and into `st`. It
is transitive, and reflexive on good states, which covers nested calls, returns
and reverts. For the refinement the committed state is `st` between transactions
and the bottom of the stack within one; when the outermost payout returns, the
whole transaction becomes visible, and `Grown` from the bottom of the stack to
`st` is the abstract step. The replay and the balance are shown in the same way:
`Booked` says of `st` and of every state on the stack that folding `Apply` over its
events gives its leaves, size and live members, and that its balance is the sum of
the bonds it records. Since a revert restores events, members and balance together,
each step of the contract has to be shown once, for the event that it appends
(`FoldAppend`) and the member that it changes (`SumUpdate`). `ReplayIsExact` also compares
the roots, for which `RootedInv` says that every storage on the stack goes with its own
tree, and that each tree is that of its leaves (`TreeSound`, see below) unless the word 0
is a member in it.

**ContractProofs, the paid set**: `PaidRootIsExact`, `PaidImplementsTree`, for trees
of every depth. `TreeSound` says that every stored node is the hash of its two
children, with zero subtrees where nothing was written, and the root that of the
top two; `updateLeaf` rewrites one path, and keeps this because off the path no
child changed and on it each node is recomputed from the one just written (an
induction over the levels). From `TreeSound` the root is that of the full tree over
the leaves, by an induction from the leaves up. `PaidGood` adds that a live
commitment is in its own slot, no slot holds any other, and that slots from
`nextIndex` on are empty. `TreeSound` holds as long as the word 0 was not inserted; the
other parts, and the refinement, hold in any case. `PaidGrown` is the abstract step, and composes over the
elements of a batch.

**GatewayHandlerProofs**: `TypeCorrect`, `NoLeak`, `NoOrphan`, `BudgetKept`. The
code adds to and takes from counters at a dozen places; the invariant says that
each is the size of a set of connections (`Counted`), which shows that a step that
moves one connection in or out of the set moves the counter by one. That a
connection leaves each set once is what its listeners say of where its handler is
(`Attached`): a slot is held exactly while the client's socket is not closed, the
two listeners of an admission come and go together, and an upstream that exists
has the listener that destroys it. The budget needs that an entry in use is not
one a sweep dropped (`Held`).

**RootProviderProofs**: `ClosedWhenUnread`. The argument is about time. A call
reads its sources in turn, so what has passed since it was due is bounded by the
number of sources it is done with (`Clocks`), and every answer by the age of the
snapshot it rests on (`Answers`). For one contract that is enough: a poll that
cannot read it throws and drops its roots (`AgeAlone`). For several
(`AgeSeveral`), the poll that finds a contract expired differs from the last and
starts a refresh, and if that throws the gateway keeps what it has; then all
sources had expired by the end of the refresh (`Dead`), so either the next poll
throws too, or it reads one anew and its key differs again. The proof attempt
corrected the property twice. The bound that had been checked, F and a poll and
two calls, fails for several contracts whose reads take time, which a larger
instance in TLC confirmed; `ServedBound` is the bound the argument gives, and TLC
reaches a state one tick below it. And a gateway of several contracts
fails closed only if the next poll reads a contract before the snapshot of the
last refresh expires (`Prompt`): otherwise two polls in a row may find it expired
while the refresh between them read it, and as the second sees no change the
gateway keeps what that refresh took. The defaults satisfy `Prompt` for two contracts (a poll of 12 s, an
RPC timeout of 15 s, a window of 60 s: 12 + 2*30 - 15 = 57); a shorter window, a
slower RPC or a third contract may not.

**ClientProofs, the tunnels**: `NullifiersNeverRepeat`, `NoSocketIsLeaked`. A call keeps
its reservation while it waits for its proof and the pool moves on to another
epoch. So the invariant is about reservations, not only about proofs: each is
below the counter of its own epoch, no other call has it, and no proof was made
for it (`Reserved`, `Spent`). A socket is held only where some step is bound to
close or hand it over (`Owned`).

**RustProxyProofs**: `ProofsNeverRepeat`, `HealthIsEarned`, `OneAnswerEach`. The
threads read, empty and overwrite the files at any time, so a thread's copy has
no fixed relation to a file. What holds is monotonic: the cursor is past every
proof made or under way (`Ahead`), and no copy of the health file, in memory or on
the disk, counts more than really failed (`Behind`). An agent is in the channel,
with one thread, or closed (`OnePlace`), and has an answer only in the last two
places (`Answered`), which leaves no second place to answer it from.

**ContractProofs, the gateways' registry**: `BooksExact`, `CommandsHonest`. As for the other
contract the books are exact in the storage and in every one on the stack of
calls (`BooksGood`), since a payee that fails brings one back. A command that waits for
its payout must tell the stake it withdrew from one its payee made meanwhile: the
index of a stake is never given twice, in the storage and in those stored above
the withdrawal (`Paying`, `Fresh`). The balance is a bond per operator that has a
stake, so the sum over operators is a cardinality and no induction is needed.

**ServiceProofs, the bootnode**: `AnnouncedStaysListed`, `ListingIsBounded`,
`ListedIsStaked`, `StakeIsRequired`. An answer of the chain is used after an await,
and again for as long as it is cached, so the invariant (`RegistryInv`) bounds how
far each may be behind: what awaits the chain began at most `Patience` ago, with an
announcement that was fresh then (`WorkGood`), and a cached answer is true of the
chain or ends within `Lag + CacheTime` of when the stake changed (`CacheGood`). Therefore an
entry that is listed as staked is, or ends within `Believed` of that (`Backed`). A
promise is followed to the entry that keeps it (`PromiseKept`), to gossip that is
awaited, and to the file. Each later entry of the gateway lasts at least as long, since
gossip is compared with the entry before its await and no promise is made while it is
awaited, so that what is awaited brings no earlier expiry (`Outlasts`);
the sweep and the reload drop only what has expired (`UnexpiredThins`, `ReloadThins`); and
the file has what was promised whenever its last write succeeded (`FileGood`). The property
that was checked before, that a listed gateway still has its bond, turned out to
rest on an unbonding time longer than a listing, which the code does not ask for (see
section 3); what is proved holds for every configuration.

**ServiceProofs, the client's directory**: `NoRollback`. `latest`, the newest
directory that was fetched and used, is never above the floor that a fetched
directory is compared with, whatever refreshes overlap. Both are of one session: a new
process starts without a floor, and may adopt an older directory, as
`client/selection.mjs:587-592` says.

**ServiceProofs, the registrar**: `NoPaymentForgotten`, `LeavesArePaidFor`,
`PaidOrdersStay`, for any number of requests, authorizations, crashes and undone
blocks. The record of a payment is in three places, the chain, the stored order and
the request at work on it, and each is ahead of the others at some time. Two facts
about the chain are stable: a transaction succeeded, or failed, in a block that cannot
be undone (`Done`, `Dead`); a receipt at the depth asked for is one of these
(`FinalReceipt`). The invariant says of every transaction whose hash was stored that it
is `Dead`, or the order that is stored for its authorization accounts for it: by
pursuing this very hash, or by counting as paid (`TxGood`); that an order which counts as
paid has a payment that is `Done` (`BookGood`); and what each request may rely on after
each of its awaits (`TaskGood`): the object it holds is the stored one, or there is
none and the object is new, and its state is the one the code after the await expects.
That no other request changed it meanwhile is `Alone`. A step of a request concerns its own
authorization only (`StepKeeps`), and a step that puts an order has to be judged by the
order it puts (`PutKeeps`), so each handler is a short proof. `PaidIsServed` follows from
`TxGood`, and turns out to hold of payments that are not yet final and while requests
are under way. For `OneLeafPerPayment`, a successful insert is the one its order pursues,
so different inserts have different authorizations, and each of these has a payment:
an injection, whence the cardinalities. The in-flight set plays no part in the proof:
it guards what `Alone` rules out, and where it would be needed, before an order is
stored, it is not consulted.

**FoldTheory** is what these proofs share. The induction theorems of the library
take an operator, which the provers cannot instantiate; `LeastNumber` is obtained from
`WFMin`, which takes a set, and with it `Induction` over the numbers and
`SubsetInduction` over finite sets, where the property is given as the set of what
has it. `RecursionExists` shows that a recursive function over the numbers obeys its
equation, and `FoldEmpty`, `FoldUnfolds` and `FoldAppend` do so for the folds of the
community modules, whose definition is a CHOOSE over functions. `FilterEmbeds` (the
result of a filter is an order-preserving selection) and the theorems on sums
(`SumSplit`, `SumUpdate`, `SumPartition`) follow from them. The module is
parameterised by the operator that is folded, and is instantiated for each use.

The type invariants of `SlotState` and `StakedReputationSet` and the exactness of
the count are proved and no longer model-checked.

Model-checked only:

- liveness (`CallsEnd`, `AnsweredInTime`, `RelayEnds`), which needs fairness;
- `BytesCountedOnce`, `PublicationStable` and `RotationFair`, which are about sums over
  windows and over whole cycles of picks;
- `DeltaRebuilds`, which follows a client's view through versions that were dropped;
- the other properties of `RootProvider`: `AcceptedBounded` and `CatchesUp` rest on
  the contents of the ring and on what a poll compared, over several polls;
- `AccountsExact` as a conjunction of parts: each part is proved
  (`NoSocketIsLeaked`, `ProofsNeverRepeat`, `HealthIsEarned`, `OneAnswerEach`).

## 5. What is left

1. **Proofs**: `AcceptedBounded` and `CatchesUp` of `RootProvider`; `BytesCountedOnce`;
   the registrar where requests overlap on orders that are already stored, which the
   in-flight set is to keep apart.
2. **Unbonding composed with root acceptance**: the time for which a gateway may
   accept the root of an exited member against `UNBONDING`. `docs/ONCHAIN.md`
   derives the bound from the freshness window, the epoch and the confirmation
   time; `RootProvider` shows that outages add to it.
