------------------------------ MODULE Bootnode ------------------------------
(***************************************************************************)
(* The Elder Tree's registry of gateways: makeRegistry() of                *)
(* bootnode/server.mjs with its announce bucket, nonce guard, store,       *)
(* and gossip; verifyAnnounce() of announce.mjs;                           *)
(* the heartbeat that feeds it; and the stake it asks the chain about.     *)
(*                                                                         *)
(* A record without an operator is verified within one turn of the event   *)
(* loop.  One with an operator awaits the chain, and what was checked      *)
(* before the await may have changed after it.  The gateway's signature    *)
(* does not cover the operator: whoever relays a record may leave it out,  *)
(* or name one that authorised the gateway.  The network may delay, repeat *)
(* and reorder announcements, and a peer may gossip any record that was    *)
(* ever signed.                                                            *)
(***************************************************************************)
EXTENDS GatewayRegistry, SequencesExt

CONSTANTS
    Onions,         \* gateways
    NoOperator,     \* a record presented without an operator
    RequireStake,   \* SHADE_TREE_BOOTNODE_ADMISSION = stake
    Storing,        \* SHADE_TREE_BOOTNODE_STORE is set
    Ttl, Skew, MinReannounce, MaxEntries,
    Rate, Burst,    \* the announce bucket
    CacheTime,      \* SHADE_TREE_STAKE_CACHE_MS
    Patience,       \* the longest isStaked() takes
    Lag,            \* the age of the block it reads: SHADE_TREE_CONFIRMATIONS
    Ahead,          \* how far a gateway's clock may be ahead
    Workers,        \* concurrent POST /announce
    Pulls,          \* pulls of the federation under way: its timer does not wait for the last
    MaxTime, MaxRecords, MaxStakes, MaxCrashes  \* bounds

ASSUME BootnodeAssumption ==
    /\ NoOperator \notin Operators
    /\ Pulls \cap Workers = {}
    /\ {RequireStake, Storing} \subseteq BOOLEAN
    /\ {Ttl, MaxEntries, Burst} \subseteq Nat \ {0}
    /\ {Bond, Skew, MinReannounce, Rate, CacheTime, Patience, Lag, Ahead, UnbondingTime} \subseteq Nat

VARIABLES
    now,
    signed,     \* records in the order they were signed; the index is the nonce
    live,       \* the Map of listed gateways, in insertion order
    store,      \* the file: its entries, and whether the last write reached it
    nonces,     \* nonce guard: <<record, time>>
    tokens,     \* announce bucket
    work,       \* work[w]: the verification w awaits
    cache,      \* cached answers of isStaked()
    reg,        \* storage of GatewayRegistry
    changed,    \* history: when the answer about an operator last changed
    promised,   \* history: until when a gateway was told it is listed
    crashes

vars == <<now, signed, live, store, nonces, tokens, work, cache, reg, changed, promised, crashes>>

chain == <<reg, changed, cache>>

Free == [at |-> "free"]

NoAnswer == [value |-> FALSE, until |-> 0]

Init ==
    /\ now = 0 /\ signed = << >> /\ live = << >> /\ nonces = {}
    /\ store = [entries |-> << >>, current |-> Storing]
    /\ tokens = Burst
    /\ work = [w \in Workers \cup Pulls |-> Free]
    /\ cache = [o \in Operators |-> NoAnswer]
    /\ reg = NewRegistry("owner") /\ changed = [o \in Operators |-> -1 - Lag]
    /\ promised = [o \in Onions |-> 0]
    /\ crashes = 0

-----------------------------------------------------------------------------
(* The live set.                                                           *)

OnionOf(e) == signed[e.rec].onion

Listed(L, o) == \E i \in DOMAIN L : OnionOf(L[i]) = o

EntryFor(L, o) == L[CHOOSE i \in DOMAIN L : OnionOf(L[i]) = o]

\* Map.set(): in place when the key is known.
SetEntry(L, e) ==
    IF Listed(L, OnionOf(e))
    THEN [i \in DOMAIN L |-> IF OnionOf(L[i]) = OnionOf(e) THEN e ELSE L[i]]
    ELSE Append(L, e)

Entry(i, op, expires, staked) ==
    [rec |-> i, op |-> op, expires |-> expires, last |-> now, staked |-> staked]

Kept(L, e) == IF e.expires > now THEN Append(L, e) ELSE L

Unexpired(L) == FoldLeft(Kept, << >>, L)

\* persist(): off without a store; a write that fails is swallowed and leaves
\* the file as it was.
Persist(L) ==
    IF Storing
    THEN store' \in {[entries |-> L, current |-> TRUE], [store EXCEPT !.current = FALSE]}
    ELSE UNCHANGED store

\* sweep(), and persist() if it evicted.
Sweep ==
    /\ live' = Unexpired(live)
    /\ IF live' # live THEN Persist(live') ELSE UNCHANGED store
    /\ nonces' = {p \in nonces : p[2] >= now - Ttl}
    /\ UNCHANGED <<now, signed, tokens, work, chain, promised, crashes>>

-----------------------------------------------------------------------------
(* Heartbeats, the chain and the clock.                                    *)

\* announceOnce(): a fresh record, by the gateway's own clock.  One that is
\* behind signs what would have been signed earlier and came late.
Announcement(o, ts) == [onion |-> o, ts |-> ts]

\* A beat whose egress check passed.
Beat(o) ==
    /\ Len(signed) < MaxRecords
    /\ \E ts \in now..now + Ahead : signed' = Append(signed, Announcement(o, ts))
    /\ UNCHANGED <<now, live, store, nonces, tokens, work, chain, promised, crashes>>

Staking(o) ==
    /\ \/ CanRegister(reg, o) /\ reg.nextIndex < MaxStakes /\ reg' = Registered(reg, o)
       \/ CanExit(reg, o) /\ now > 0 /\ reg' = Exiting(reg, o, now)
       \/ CanWithdraw(reg, o, now) /\ reg' = Withdrawn(reg, o)
       \/ HasStake(reg, o) /\ reg' = SlashedGateway(reg, o)
    /\ changed' = IF IsStaked(reg, o) # IsStaked(reg', o) THEN [changed EXCEPT ![o] = now] ELSE changed
    /\ UNCHANGED <<now, signed, live, store, nonces, tokens, work, cache, promised, crashes>>

\* isStaked() ends, one way or the other, within Patience.
Tick ==
    /\ now < MaxTime
    /\ \A w \in DOMAIN work : work[w] # Free => now < work[w].since + Patience
    /\ now' = now + 1
    /\ tokens' = IF tokens + Rate < Burst THEN tokens + Rate ELSE Burst
    /\ UNCHANGED <<signed, live, store, nonces, work, chain, promised, crashes>>

-----------------------------------------------------------------------------
(* verifyAnnounce().                                                       *)

Fresh(i) == signed[i].ts - Skew <= now /\ now <= signed[i].ts + Skew

Replayed(i) == \E p \in nonces : p[1] = i

\* What isStaked() may answer about o, called at since: it reads the chain
\* until it answers, and a block that is up to Lag old.
Told(o, since) == {IsStaked(reg, o)} \cup IF changed[o] >= since - Lag THEN BOOLEAN ELSE {}

\* An answer counts from the time of the call.
StakeAnswer(value, since) == [value |-> value, until |-> since + CacheTime]

\* Mutant: an answer is kept for good.
CachedForever(o) == cache[o].until > 0

\* What is known of the stake without asking the chain.
Cached(o) == now < cache[o].until

Admissible(staked) == RequireStake => staked

\* Gossip of o awaits the chain.
GossipAwaited(o) ==
    \E w \in DOMAIN work :
        work[w] # Free /\ work[w].at = "gossip" /\ signed[work[w].rec].onion = o

\* live.set() and persist().
Admit(e) == live' = SetEntry(live, e) /\ Persist(live')

\* An announcement spends its nonce and lists its gateway for Ttl.  It is no
\* promise while gossip of that gateway is awaited: the gossip was compared with
\* the entry before the await, and may put back an earlier expiry after it.
Spend(i, kind) ==
    IF kind = "announce"
    THEN /\ nonces' = nonces \cup {<<i, now>>}
         /\ promised' = IF GossipAwaited(signed[i].onion)
                        THEN promised
                        ELSE [promised EXCEPT ![signed[i].onion] = now + Ttl]
    ELSE UNCHANGED <<nonces, promised>>

\* Gossip is bounded by the time the gateway signed at.
Expiry(i, kind) == IF kind = "announce" THEN now + Ttl ELSE signed[i].ts + Ttl

\* The verification is complete, in the turn it began or after the await.
Verified(i, op, kind, staked) ==
    IF Admissible(staked)
    THEN Admit(Entry(i, op, Expiry(i, kind), staked)) /\ Spend(i, kind)
    ELSE UNCHANGED <<live, store, nonces, promised>>

\* Without an operator, or with a cached answer, nothing is awaited.
Verify(w, i, op, kind) ==
    IF op # NoOperator /\ ~Cached(op)
    THEN /\ work' = [work EXCEPT ![w] = [at |-> kind, rec |-> i, op |-> op, since |-> now]]
         /\ UNCHANGED <<live, store, nonces, promised>>
    ELSE /\ Verified(i, op, kind, op # NoOperator /\ cache[op].value)
         /\ UNCHANGED work

\* What a record may be presented with, if its signatures are good.
Presented == Operators \cup {NoOperator}

\* A new gateway must fit; one that is listed may always refresh.
HasRoom(o) == Listed(live, o) \/ Len(live) < MaxEntries

\* A full registry is swept, and asked again.
SweptForRoom(o) ==
    /\ ~HasRoom(o)
    /\ Sweep
    /\ live' # live

\* announce(), for requests that get past the first checks.
Announce(w, i, op) ==
    LET o == signed[i].onion
    IN  /\ work[w] = Free
        /\ Listed(live, o) => now - EntryFor(live, o).last >= MinReannounce
        /\ HasRoom(o)
        /\ tokens > 0 /\ tokens' = tokens - 1
        /\ IF Fresh(i) /\ ~Replayed(i)
           THEN Verify(w, i, op, "announce")
           ELSE UNCHANGED <<live, store, nonces, promised, work>>
        /\ UNCHANGED <<now, signed, chain, crashes>>

\* Mutant: a record is merged however fresh the entry is.
NewsAlways(i) == signed[i].ts + Ttl > now

\* Neither lapsed nor older than the entry at hand.
News(i) ==
    LET o == signed[i].onion
    IN  /\ signed[i].ts + Ttl > now
        /\ Listed(live, o) => EntryFor(live, o).expires < signed[i].ts + Ttl

\* admitGossip(), for a record that is news.
Gossip(w, i, op) ==
    /\ work[w] = Free
    /\ News(i)
    /\ HasRoom(signed[i].onion)
    /\ Verify(w, i, op, "gossip")
    /\ UNCHANGED <<now, signed, tokens, chain, crashes>>

\* A peer's directory names gateways; any record one ever signed may come with
\* it, and peers that fail are skipped.
PullPeer(w) == \E i \in DOMAIN signed, op \in Presented : Gossip(w, i, op)

\* isStaked() answers, and caches the answer.
Answered(w) ==
    /\ work[w] # Free
    /\ LET c == work[w]
       IN  \E staked \in Told(c.op, c.since) :
              /\ cache' = [cache EXCEPT ![c.op] = StakeAnswer(staked, c.since)]
              /\ Verified(c.rec, c.op, c.at, staked)
    /\ work' = [work EXCEPT ![w] = Free]
    /\ UNCHANGED <<now, signed, tokens, reg, changed, crashes>>

\* isStaked() throws: no stake is assumed.
Unanswered(w) ==
    /\ work[w] # Free
    /\ Verified(work[w].rec, work[w].op, work[w].at, FALSE)
    /\ work' = [work EXCEPT ![w] = Free]
    /\ UNCHANGED <<now, signed, tokens, chain, crashes>>

-----------------------------------------------------------------------------
(* Crash and loadPersisted().                                              *)

\* A stored entry as verifyAnnounce() finds it.
Reverified(e, staked) == [e EXCEPT !.last = now, !.staked = staked]

\* Mutant: a stored entry is listed anew.
ReloadedAnew(L, e) ==
    IF e.expires > now /\ Len(L) < MaxEntries /\ Admissible(e.staked)
    THEN Append(L, [e EXCEPT !.expires = now + Ttl])
    ELSE L

\* One stored entry, verified again: it keeps its expiry.
Reloaded(L, e) ==
    IF e.expires > now /\ Len(L) < MaxEntries /\ Admissible(e.staked)
    THEN Append(L, e)
    ELSE L

\* The gateways that L, stored and verified again, has room and stake for.
Owed(L) == {OnionOf(L[i]) : i \in {j \in DOMAIN L : j <= MaxEntries /\ Admissible(L[j].staked)}}

\* The chain answers about the operators in DOMAIN told, to the entries heard.
\* What was promised is void unless the store is current and owes it.
Reload(told, heard) ==
    LET asked == {e.op : e \in Range(Unexpired(store.entries))} \ {NoOperator}
        Staked(i) == i \in heard /\ store.entries[i].op \in DOMAIN told /\ told[store.entries[i].op]
        L == [i \in DOMAIN store.entries |-> Reverified(store.entries[i], Staked(i))]
    IN  /\ DOMAIN told \subseteq asked
        /\ \A o \in DOMAIN told : told[o] \in Told(o, now)
        /\ live' = FoldLeft(Reloaded, << >>, L)
        /\ cache' = [o \in Operators |->
                        IF o \in DOMAIN told THEN StakeAnswer(told[o], now) ELSE NoAnswer]
        /\ promised' = [o \in Onions |->
                           IF store.current /\ o \in Owed(L) THEN promised[o] ELSE 0]

Restart ==
    /\ crashes < MaxCrashes
    /\ crashes' = crashes + 1
    /\ \E known \in SUBSET Operators, heard \in SUBSET DOMAIN store.entries :
          \E told \in [known -> BOOLEAN] : Reload(told, heard)
    /\ Persist(live')
    /\ nonces' = {<<e.rec, now>> : e \in Range(live')}
    /\ tokens' = Burst
    /\ work' = [w \in DOMAIN work |-> Free]
    /\ UNCHANGED <<now, signed, reg, changed>>

-----------------------------------------------------------------------------
Next ==
    \/ \E o \in Onions : Beat(o)
    \/ \E o \in Operators : Staking(o)
    \/ \E w \in Workers, i \in DOMAIN signed, op \in Presented : Announce(w, i, op)
    \/ \E w \in Pulls : PullPeer(w)
    \/ \E o \in Onions : SweptForRoom(o)
    \/ \E w \in DOMAIN work : Answered(w) \/ Unanswered(w)
    \/ Sweep \/ Restart \/ Tick

Spec == Init /\ [][Next]_vars

-----------------------------------------------------------------------------
(* Properties.                                                             *)

Serving(o) == Listed(Unexpired(live), o)

\* A gateway stays in the directory for the time it was promised when its
\* announcement was accepted, however gossip of its other records, with whatever
\* operator, repeated records, a full registry, restarts and the verification of
\* others interleave.
StaysListed ==
    \A o \in Onions : now < promised[o] => Serving(o)

\* Nothing is listed, or kept in the store, for long after the time its gateway
\* signed, by the gateway's own clock: not by gossip, a repeated record or a
\* restart that forgot the nonces.
ListingBounded ==
    \A L \in {live, store.entries} : \A i \in DOMAIN L :
        L[i].expires <= signed[L[i].rec].ts + Skew + Patience + Ttl

\* How long an entry may be listed as staked after the stake ended: an answer is
\* believed while it is awaited or cached, and is of a block up to Lag old; the
\* entry it admits lasts for Ttl, by a clock that may be ahead.
Believed == Lag + (IF CacheTime > Patience THEN CacheTime ELSE Patience) + Ttl + Ahead

\* What the directory lists as staked is staked, or was until less than Believed
\* ago, though the answer is of an older block, comes late, is cached, or came
\* before a restart, and its operator may exit or be slashed at any time.
ListedWhileStaked ==
    \A i \in DOMAIN live :
        live[i].expires > now /\ live[i].staked =>
            LET o == live[i].op
            IN  /\ o \in Operators
                /\ IsStaked(reg, o) \/ now < changed[o] + Believed
=============================================================================
