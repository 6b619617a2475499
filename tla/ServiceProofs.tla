--------------------------- MODULE ServiceProofs ----------------------------
(***************************************************************************)
(* Proofs about the bootnode registry, the directory a client keeps from   *)
(* it and the payment registrar, for every set of gateways, every lifetime *)
(* of an entry, every limit of the registry, every set of authorizations   *)
(* and any number of requests.                                             *)
(*                                                                         *)
(* Registry: a promise outlives the step that makes it, so the invariant   *)
(* follows each promise to the entry that keeps it, to the gossip that may *)
(* yet replace that entry, and to the file it is reloaded from; an answer  *)
(* about a stake is believed for some time, so it bounds how far every     *)
(* cached answer, pending verification and entry may be behind the chain.  *)
(* Directory: the floor is never below an issue that was used.             *)
(* Registrar: a hash that was stored has failed for good or the stored     *)
(* order accounts for it (TxGood), which each await of a task relies on    *)
(* and leaves true (TaskGood).                                             *)
(***************************************************************************)
EXTENDS Bootnode, Canopy, Registrar, FiniteSetTheorems, TLAPS

Record == [onion : Onions, ts : Nat]

EntryType == [rec : Nat, op : Presented, expires : Nat, last : Nat, staked : BOOLEAN]

FileType == [entries : Seq(EntryType), current : BOOLEAN]

AnswerType == [value : BOOLEAN, until : Nat]

Waiting == [at : {"announce", "gossip"}, rec : Nat, op : Operators, since : Nat]

StakeType == [bond : {0, Bond}, index : Nat, exitInitiatedAt : Nat]

RegistryType ==
    [stakes : [Operators -> StakeType], nextIndex : Nat, activeCount : Int, owner : {"owner"}, balance : Int]

RegistryTypes ==
    /\ now \in Nat
    /\ signed \in Seq(Record)
    /\ live \in Seq(EntryType)
    /\ store \in FileType
    /\ work \in [Workers \cup Pulls -> {Free} \cup Waiting]
    /\ cache \in [Operators -> AnswerType]
    /\ reg \in RegistryType
    /\ changed \in [Operators -> Int]
    /\ promised \in [Onions -> Nat]

\* The entry e does not outlive its record by more than a verification may take.
EntryGood(e) ==
    /\ e.rec \in DOMAIN signed
    /\ e.expires <= now + Ttl + Ahead
    /\ e.expires <= signed[e.rec].ts + Skew + Patience + Ttl

\* A gateway has one entry.
ListGood(L) ==
    /\ L \in Seq(EntryType)
    /\ \A i \in DOMAIN L : EntryGood(L[i])
    /\ \A i, j \in DOMAIN L : OnionOf(L[i]) = OnionOf(L[j]) => i = j

\* A file that the last write reached is the list.
FileGood ==
    /\ ListGood(store.entries)
    /\ store.current => Storing /\ store.entries = live

\* An entry that is listed as staked is, or does not last long.
Backed(e) ==
    e.staked =>
        /\ e.op \in Operators
        /\ IsStaked(reg, e.op) \/ e.expires <= changed[e.op] + Believed

AllBacked == \A i \in DOMAIN live : Backed(live[i]) /\ (RequireStake => live[i].staked)

\* A cached answer is at most Lag and CacheTime behind the chain.
CacheGood(o) ==
    /\ cache[o].until <= now + CacheTime
    /\ cache[o].value => IsStaked(reg, o) \/ cache[o].until <= changed[o] + Lag + CacheTime

\* A verification does not await the chain for long; an announcement was fresh when
\* it began to.
WorkGood(w) ==
    work[w] # Free =>
        /\ work[w].rec \in DOMAIN signed
        /\ work[w].since <= now /\ now <= work[w].since + Patience
        /\ work[w].at = "announce" => work[w].since <= signed[work[w].rec].ts + Skew

\* The gossip of o that w awaits lists it for as long as it was promised.
Outlasts(w, o) ==
    work[w] # Free /\ work[w].at = "gossip" /\ signed[work[w].rec].onion = o =>
        promised[o] <= signed[work[w].rec].ts + Ttl

\* A promise that has not lapsed is kept by an entry that lasts as long, and by
\* what may yet replace it.
PromiseKept(o) ==
    /\ promised[o] <= now + Ttl
    /\ now < promised[o] =>
          /\ \E i \in DOMAIN live : OnionOf(live[i]) = o /\ live[i].expires >= promised[o]
          /\ \A w \in Workers \cup Pulls : Outlasts(w, o)

PromisesKept == \A o \in Onions : PromiseKept(o)

RegistryInv ==
    /\ RegistryTypes
    /\ \A i \in DOMAIN signed : signed[i].ts <= now + Ahead
    /\ ListGood(live) /\ AllBacked
    /\ FileGood
    /\ PromisesKept
    /\ \A o \in Operators : CacheGood(o) /\ changed[o] <= now
    /\ \A w \in Workers \cup Pulls : WorkGood(w)

\* The constants of the registry.
LEMMA Numbers ==
    /\ Ttl \in Nat /\ MaxEntries \in Nat \ {0} /\ Skew \in Nat /\ CacheTime \in Nat /\ Patience \in Nat
    /\ Bond \in Nat /\ Lag \in Nat /\ Ahead \in Nat
    /\ RequireStake \in BOOLEAN /\ Storing \in BOOLEAN
    /\ NoOperator \notin Operators
    /\ Believed \in Nat
    /\ Lag + Patience + Ttl + Ahead <= Believed
    /\ Lag + CacheTime + Ttl + Ahead <= Believed
<1>1. /\ Ttl \in Nat /\ MaxEntries \in Nat \ {0} /\ Skew \in Nat /\ CacheTime \in Nat /\ Patience \in Nat
      /\ Bond \in Nat /\ Lag \in Nat /\ Ahead \in Nat
      /\ RequireStake \in BOOLEAN /\ Storing \in BOOLEAN
      /\ NoOperator \notin Operators
  BY BootnodeAssumption
<1> QED
  BY <1>1 DEF Believed

-----------------------------------------------------------------------------
(* The two loops over the entries drop some and keep the order of the rest. *)

\* Every entry of R is one of L, further along or at the same place; what m
\* leaves out is not in F.
Thins(m, R, L, F) ==
    /\ R \in Seq(EntryType)
    /\ m \in [1..Len(R) -> 1..Len(L)]
    /\ \A i, j \in 1..Len(R) : m[i] = m[j] => i = j
    /\ \A i \in 1..Len(R) : i <= m[i] /\ R[i] = L[m[i]]
    /\ \A j \in F : \E i \in 1..Len(R) : m[i] = j

Keeps(e, K) == Kept(K, e)

Sweeping == INSTANCE FoldTheory WITH op <- Keeps, base <- << >>, choose <- Max

\* sweep() keeps every entry that has not expired, and no other.
LEMMA UnexpiredThins ==
    ASSUME NEW L \in Seq(EntryType)
    PROVE  /\ \E m : Thins(m, Unexpired(L), L, {j \in 1..Len(L) : L[j].expires > now})
           /\ \A i \in 1..Len(Unexpired(L)) : Unexpired(L)[i].expires > now
<1> DEFINE R == Unexpired(L)
<1>1. Sweeping!ChoosesLast
  BY DEF Sweeping!ChoosesLast, Sweeping!Max, Max
<1>2. Sweeping!Filters(EntryType)
  BY DEF Sweeping!Filters, Keeps, Kept
<1>3. R = Sweeping!Fold(L, DOMAIN L)
  BY DEF Unexpired, FoldLeft, MapThenFoldSet, Sweeping!Fold, Sweeping!MapThenFoldSet, Keeps
<1>4. PICK m : Sweeping!Embeds(m, R, L, EntryType)
  BY <1>1, <1>2, <1>3, Sweeping!FilterEmbeds
<1> HIDE DEF R
<1>5. \A K \in Seq(EntryType) : \A e : Append(K, e) # K
  OBVIOUS
<1>6. ASSUME NEW i \in 1..Len(R) PROVE R[i].expires > now
  <2>1. PICK K \in Seq(EntryType) : Keeps(R[i], K) = Append(K, R[i])
    BY <1>4 DEF Sweeping!Embeds
  <2> QED
    BY <1>5, <2>1 DEF Keeps, Kept
<1>7. ASSUME NEW j \in 1..Len(L), L[j].expires > now PROVE \E i \in 1..Len(R) : m[i] = j
  <2>1. \A K \in Seq(EntryType) : Keeps(L[j], K) # K
    BY <1>5, <1>7 DEF Keeps, Kept
  <2> QED
    BY <1>4, <2>1 DEF Sweeping!Embeds
<1>8. R \in Seq(EntryType) /\ Len(R) \in Nat /\ m \in [1..Len(R) -> 1..Len(L)] /\ Len(L) \in Nat
  BY <1>4 DEF Sweeping!Embeds
<1>9. ASSUME NEW i \in 1..Len(R), NEW j \in 1..Len(R), m[i] = m[j] PROVE i = j
  <2>1. m[i] \in Nat /\ m[j] \in Nat
    BY <1>8
  <2>2. (i < j => m[i] < m[j]) /\ (j < i => m[j] < m[i])
    BY <1>4 DEF Sweeping!Embeds
  <2> QED
    BY <1>9, <2>1, <2>2
<1>10. Thins(m, R, L, {j \in 1..Len(L) : L[j].expires > now})
  BY <1>4, <1>7, <1>8, <1>9 DEF Thins, Sweeping!Embeds
<1> QED
  BY <1>6, <1>10 DEF R

Reloads(e, K) == Reloaded(K, e)

Reloading == INSTANCE FoldTheory WITH op <- Reloads, base <- << >>, choose <- Max

\* loadPersisted() keeps every entry that has not expired and is admitted again, up
\* to the limit.
LEMMA ReloadThins ==
    ASSUME NEW L \in Seq(EntryType)
    PROVE  LET R == FoldLeft(Reloaded, << >>, L)
               F == {j \in 1..Len(L) : Admissible(L[j].staked) /\ j <= MaxEntries /\ L[j].expires > now}
           IN  /\ \E m : Thins(m, R, L, F)
               /\ \A i \in 1..Len(R) : RequireStake => R[i].staked
<1> DEFINE R == FoldLeft(Reloaded, << >>, L)
           F == {j \in 1..Len(L) : Admissible(L[j].staked) /\ j <= MaxEntries /\ L[j].expires > now}
<1>1. Reloading!ChoosesLast
  BY DEF Reloading!ChoosesLast, Reloading!Max, Max
<1>2. Reloading!Filters(EntryType)
  BY DEF Reloading!Filters, Reloads, Reloaded
<1>3. R = Reloading!Fold(L, DOMAIN L)
  BY DEF FoldLeft, MapThenFoldSet, Reloading!Fold, Reloading!MapThenFoldSet, Reloads
<1>4. PICK m : Reloading!Embeds(m, R, L, EntryType)
  BY <1>1, <1>2, <1>3, Reloading!FilterEmbeds
<1> HIDE DEF R
<1>5. \A K \in Seq(EntryType) : \A e : Append(K, e) # K
  OBVIOUS
<1>6. ASSUME NEW i \in 1..Len(R), RequireStake PROVE R[i].staked
  <2>1. PICK K \in Seq(EntryType) : Reloads(R[i], K) = Append(K, R[i])
    BY <1>4 DEF Reloading!Embeds
  <2> QED
    BY <1>5, <1>6, <2>1 DEF Reloads, Reloaded, Admissible
<1>7. ASSUME NEW j \in F PROVE \E i \in 1..Len(R) : m[i] = j
  <2>1. \A K \in Seq(EntryType) : Len(K) < j => Reloads(L[j], K) # K
    <3> SUFFICES ASSUME NEW K \in Seq(EntryType), Len(K) < j PROVE Reloads(L[j], K) # K
      OBVIOUS
    <3>1. Len(K) < MaxEntries
      BY Numbers
    <3> QED
      BY <1>5, <3>1 DEF Reloads, Reloaded
  <2> QED
    BY <1>4, <2>1 DEF Reloading!Embeds
<1>8. R \in Seq(EntryType) /\ Len(R) \in Nat /\ m \in [1..Len(R) -> 1..Len(L)] /\ Len(L) \in Nat
  BY <1>4 DEF Reloading!Embeds
<1>9. ASSUME NEW i \in 1..Len(R), NEW j \in 1..Len(R), m[i] = m[j] PROVE i = j
  <2>1. m[i] \in Nat /\ m[j] \in Nat
    BY <1>8
  <2>2. (i < j => m[i] < m[j]) /\ (j < i => m[j] < m[i])
    BY <1>4 DEF Reloading!Embeds
  <2> QED
    BY <1>9, <2>1, <2>2
<1> HIDE DEF F
<1>10. Thins(m, R, L, F)
  BY <1>4, <1>7, <1>8, <1>9 DEF Thins, Reloading!Embeds
<1> QED
  BY <1>6, <1>10 DEF R, F

-----------------------------------------------------------------------------
(* What the steps do to the list.                                          *)

\* What is said of an entry depends on the records, the clock and the chain.
LEMMA SameWorld ==
    ASSUME UNCHANGED <<now, signed, reg, changed>>
    PROVE  /\ \A e : OnionOf(e)' = OnionOf(e)
           /\ \A e : EntryGood(e)' <=> EntryGood(e)
           /\ \A e : Backed(e)' <=> Backed(e)
           /\ \A o : IsStaked(reg, o)' <=> IsStaked(reg, o)
  BY DEF OnionOf, EntryGood, Backed, IsStaked, HasStake

\* A list that is good in the world as it was is good after the step.
LEMMA StillGood ==
    ASSUME UNCHANGED <<now, signed, reg, changed>>
    PROVE  /\ ListGood(live') => ListGood(live)'
           /\ ListGood(store.entries') => ListGood(store.entries)'
  BY SameWorld DEF ListGood

\* The fields of an entry.
LEMMA EntryFields ==
    ASSUME NEW L \in Seq(EntryType), NEW i \in DOMAIN L
    PROVE  /\ L[i] \in EntryType /\ L[i].rec \in Nat /\ L[i].expires \in Nat
           /\ L[i].op \in Presented /\ L[i].staked \in BOOLEAN
<1>1. L[i] \in EntryType
  OBVIOUS
<1> QED
  BY <1>1 DEF EntryType

\* The fields of a record.
LEMMA RecordFields ==
    ASSUME RegistryInv, NEW i \in DOMAIN signed
    PROVE  /\ i \in Nat /\ signed[i] \in Record /\ signed[i].onion \in Onions
           /\ signed[i].ts \in Nat /\ signed[i].ts <= now + Ahead
<1>1. signed \in Seq(Record)
  BY DEF RegistryInv, RegistryTypes
<1>2. i \in Nat /\ signed[i] \in Record
  BY <1>1
<1> QED
  BY <1>2 DEF RegistryInv, Record

\* The state as the steps use it.
LEMMA RegistryFacts ==
    ASSUME RegistryInv
    PROVE  /\ RegistryTypes /\ now \in Nat /\ signed \in Seq(Record)
           /\ live \in Seq(EntryType) /\ DOMAIN live = 1..Len(live) /\ Len(live) \in Nat
           /\ store \in FileType /\ store.entries \in Seq(EntryType) /\ store.current \in BOOLEAN
           /\ promised \in [Onions -> Nat] /\ changed \in [Operators -> Int]
           /\ cache \in [Operators -> AnswerType]
           /\ work \in [Workers \cup Pulls -> {Free} \cup Waiting]
           /\ ListGood(live) /\ AllBacked /\ FileGood /\ PromisesKept
<1>1. RegistryTypes /\ ListGood(live) /\ AllBacked /\ FileGood /\ PromisesKept
  BY DEF RegistryInv
<1>2. live \in Seq(EntryType) /\ store \in FileType
  BY <1>1 DEF RegistryTypes
<1>3. store.entries \in Seq(EntryType) /\ store.current \in BOOLEAN
  BY <1>2 DEF FileType
<1>4. DOMAIN live = 1..Len(live) /\ Len(live) \in Nat
  BY <1>2
<1> QED
  BY <1>1, <1>3, <1>4 DEF RegistryTypes

\* What is left of a good list is good.
LEMMA ListThinned ==
    ASSUME NEW L, ListGood(L), NEW R, NEW m, NEW F, Thins(m, R, L, F)
    PROVE  /\ ListGood(R)
           /\ \A i \in DOMAIN R : \E j \in DOMAIN L : R[i] = L[j]
           /\ \A j \in F : \E i \in DOMAIN R : R[i] = L[j]
<1>1. L \in Seq(EntryType) /\ DOMAIN L = 1..Len(L)
  BY DEF ListGood
<1>2. R \in Seq(EntryType) /\ DOMAIN R = 1..Len(R)
  BY DEF Thins
<1>3. \A i \in DOMAIN R : m[i] \in DOMAIN L /\ R[i] = L[m[i]]
  BY <1>1, <1>2 DEF Thins
<1>4. \A i \in DOMAIN R : EntryGood(R[i])
  BY <1>3 DEF ListGood
<1>5. ASSUME NEW i \in DOMAIN R, NEW j \in DOMAIN R, OnionOf(R[i]) = OnionOf(R[j])
      PROVE  i = j
  <2>1. m[i] = m[j]
    BY <1>3, <1>5 DEF ListGood
  <2> QED
    BY <1>2, <2>1 DEF Thins
<1>6. \A j \in F : \E i \in DOMAIN R : m[i] = j
  BY <1>2 DEF Thins
<1> QED
  BY <1>2, <1>3, <1>4, <1>5, <1>6 DEF ListGood

\* A write reaches the file, or leaves it as it was.
LEMMA FileWritten ==
    ASSUME RegistryInv, UNCHANGED <<now, signed, reg, changed>>, ListGood(live'), Persist(live')
    PROVE  store' \in FileType /\ FileGood'
<1>1. /\ live' \in Seq(EntryType) /\ store \in FileType /\ ListGood(store.entries)
      /\ store.current => Storing
  BY RegistryFacts DEF ListGood, FileGood
<1>2. CASE Storing /\ store' = [entries |-> live', current |-> TRUE]
  <2>1. store' \in FileType /\ store'.entries = live' /\ store'.current
    BY <1>1, <1>2 DEF FileType
  <2> QED
    BY <1>2, <2>1, StillGood DEF FileGood
<1>3. CASE store' = [store EXCEPT !.current = FALSE]
  <2>1. store' \in FileType /\ store'.entries = store.entries /\ ~store'.current
    BY <1>1, <1>3 DEF FileType
  <2> QED
    BY <1>1, <2>1, StillGood DEF FileGood
<1>4. CASE ~Storing /\ store' = store
  BY <1>1, <1>4, StillGood DEF FileGood
<1> QED
  BY <1>2, <1>3, <1>4 DEF Persist

\* Map.set() changes the entry of its gateway and no other.
LEMMA SetEntryEffect ==
    ASSUME NEW L \in Seq(EntryType), NEW e \in EntryType,
           \A i, j \in DOMAIN L : OnionOf(L[i]) = OnionOf(L[j]) => i = j
    PROVE  LET R == SetEntry(L, e) IN
           /\ R \in Seq(EntryType)
           /\ \E k \in DOMAIN R : R[k] = e
           /\ \A i \in DOMAIN L : OnionOf(L[i]) # OnionOf(e) => i \in DOMAIN R /\ R[i] = L[i]
           /\ \A i \in DOMAIN R :
                 \/ i \in DOMAIN L /\ R[i] = L[i] /\ OnionOf(L[i]) # OnionOf(e)
                 \/ R[i] = e /\ i \in DOMAIN L /\ OnionOf(L[i]) = OnionOf(e)
                 \/ R[i] = e /\ i = Len(L) + 1 /\ ~Listed(L, OnionOf(e))
<1> DEFINE R == SetEntry(L, e)
<1>1. CASE Listed(L, OnionOf(e))
  <2>1. R = [i \in DOMAIN L |-> IF OnionOf(L[i]) = OnionOf(e) THEN e ELSE L[i]]
    BY <1>1 DEF SetEntry
  <2>2. R \in Seq(EntryType) /\ DOMAIN R = DOMAIN L
    BY <2>1
  <2>3. PICK k \in DOMAIN L : OnionOf(L[k]) = OnionOf(e)
    BY <1>1 DEF Listed
  <2>4. R[k] = e
    BY <2>1, <2>3
  <2> QED
    BY <2>1, <2>2, <2>4
<1>2. CASE ~Listed(L, OnionOf(e))
  <2>1. R = Append(L, e)
    BY <1>2 DEF SetEntry
  <2>2. /\ R \in Seq(EntryType) /\ DOMAIN R = 1..(Len(L) + 1) /\ Len(L) \in Nat /\ DOMAIN L = 1..Len(L)
        /\ R[Len(L) + 1] = e /\ \A i \in DOMAIN L : R[i] = L[i]
    BY <2>1
  <2>3. \A i \in DOMAIN L : OnionOf(L[i]) # OnionOf(e)
    BY <1>2 DEF Listed
  <2>4. Len(L) + 1 \in DOMAIN R /\ \A i \in DOMAIN R : i \in DOMAIN L \/ i = Len(L) + 1
    BY <2>2
  <2>5. \A i \in DOMAIN L : i \in DOMAIN R
    BY <2>2
  <2> HIDE DEF R
  <2> QED
    BY <1>2, <2>2, <2>3, <2>4, <2>5 DEF R
<1> QED
  BY <1>1, <1>2

\* The list after live.set(): the new entry, and what was of other gateways.
LEMMA ListSet ==
    ASSUME NEW L, ListGood(L), NEW e \in EntryType, EntryGood(e)
    PROVE  LET R == SetEntry(L, e) IN
           /\ ListGood(R)
           /\ \E k \in DOMAIN R : R[k] = e
           /\ \A i \in DOMAIN L : OnionOf(L[i]) # OnionOf(e) => i \in DOMAIN R /\ R[i] = L[i]
           /\ \A i \in DOMAIN R : R[i] = e \/ \E j \in DOMAIN L : R[i] = L[j]
<1> DEFINE R == SetEntry(L, e)
<1>1. L \in Seq(EntryType) /\ \A i, j \in DOMAIN L : OnionOf(L[i]) = OnionOf(L[j]) => i = j
  BY DEF ListGood
<1>2. /\ R \in Seq(EntryType)
      /\ \E k \in DOMAIN R : R[k] = e
      /\ \A i \in DOMAIN L : OnionOf(L[i]) # OnionOf(e) => i \in DOMAIN R /\ R[i] = L[i]
      /\ \A i \in DOMAIN R :
            \/ i \in DOMAIN L /\ R[i] = L[i] /\ OnionOf(L[i]) # OnionOf(e)
            \/ R[i] = e /\ i \in DOMAIN L /\ OnionOf(L[i]) = OnionOf(e)
            \/ R[i] = e /\ i = Len(L) + 1 /\ ~Listed(L, OnionOf(e))
  BY <1>1, SetEntryEffect, Zenon
<1> HIDE DEF R
<1>3. \A i \in DOMAIN R : EntryGood(R[i])
  BY <1>2 DEF ListGood
<1>4. ASSUME NEW i \in DOMAIN R, NEW j \in DOMAIN R, OnionOf(R[i]) = OnionOf(R[j]) PROVE i = j
  BY <1>1, <1>2, <1>4 DEF Listed
<1> QED
  BY <1>2, <1>3, <1>4 DEF ListGood, R

\* The work there is after a step that starts none.
NoneBegun == \A w \in Workers \cup Pulls : work'[w] = work[w] \/ work'[w] = Free

\* A record that is verified is listed, and promised if it was announced.
LEMMA VerifiedStep ==
    ASSUME RegistryInv, UNCHANGED <<now, signed, reg, changed>>, NoneBegun,
           NEW i \in DOMAIN signed, NEW o, o = signed[i].onion, NEW op \in Presented,
           NEW kind \in {"announce", "gossip"}, NEW staked \in BOOLEAN,
           Verified(i, op, kind, staked),
           kind = "announce" => now <= signed[i].ts + Skew + Patience,
           kind = "gossip" /\ now < promised[o] => promised[o] <= signed[i].ts + Ttl,
           staked => /\ op \in Operators
                     /\ IsStaked(reg, op) \/ now + Ttl + Ahead <= changed[op] + Believed
    PROVE  /\ ListGood(live)' /\ AllBacked' /\ PromisesKept' /\ promised' \in [Onions -> Nat]
           /\ store' \in FileType /\ FileGood'
<1>1. /\ live \in Seq(EntryType) /\ ListGood(live) /\ AllBacked /\ PromisesKept /\ FileGood
      /\ now \in Nat /\ promised \in [Onions -> Nat] /\ changed \in [Operators -> Int]
      /\ store \in FileType /\ work \in [Workers \cup Pulls -> {Free} \cup Waiting]
  BY RegistryFacts
<1>2. CASE ~Admissible(staked)
  <2>1. live' = live /\ store' = store /\ promised' = promised
    BY <1>2 DEF Verified
  <2>2. ListGood(live)' /\ AllBacked' /\ FileGood'
    BY <1>1, <2>1, SameWorld, StillGood DEF AllBacked, FileGood
  <2>3. \A w \in Workers \cup Pulls : \A p : Outlasts(w, p) => Outlasts(w, p)'
    BY <2>1 DEF Outlasts, NoneBegun
  <2>4. PromisesKept'
    BY <1>1, <2>1, <2>3, SameWorld DEF PromisesKept, PromiseKept
  <2> QED
    BY <1>1, <2>1, <2>2, <2>4
<1>3. CASE Admissible(staked)
  <2> DEFINE x == Expiry(i, kind)
             e == Entry(i, op, x, staked)
  <2>1. live' = SetEntry(live, e) /\ Persist(live') /\ Spend(i, kind)
    BY <1>3 DEF Verified, Admit
  <2>2. o \in Onions /\ signed[i].ts \in Nat /\ signed[i].ts <= now + Ahead /\ i \in Nat
    BY RecordFields
  <2>3. x \in Nat /\ x <= now + Ttl + Ahead /\ x <= signed[i].ts + Skew + Patience + Ttl
    <3>1. CASE kind = "announce"
      <4>1. x = now + Ttl /\ now <= signed[i].ts + Skew + Patience
        BY <3>1 DEF Expiry
      <4>2. now \in Nat /\ signed[i].ts \in Nat /\ signed[i].ts <= now + Ahead
        BY <1>1, <2>2
      <4> HIDE DEF x
      <4> QED
        BY <4>1, <4>2, Numbers
    <3>2. CASE kind = "gossip"
      <4>1. x = signed[i].ts + Ttl
        BY <3>2 DEF Expiry
      <4>2. now \in Nat /\ signed[i].ts \in Nat /\ signed[i].ts <= now + Ahead
        BY <1>1, <2>2
      <4> HIDE DEF x
      <4> QED
        BY <4>1, <4>2, Numbers
    <3> QED
      BY <3>1, <3>2
  <2>4. /\ e \in EntryType /\ e.rec = i /\ e.op = op /\ e.expires = x /\ e.staked = staked
        /\ OnionOf(e) = o
    BY <1>1, <2>2, <2>3 DEF Entry, EntryType, OnionOf
  <2> HIDE DEF e, x
  <2>5. EntryGood(e)
    BY <2>3, <2>4 DEF EntryGood
  <2>6. Backed(e) /\ (RequireStake => e.staked)
    <3>1. CASE staked
      <4>1. changed[op] \in Int /\ now \in Nat /\ x \in Nat /\ x <= now + Ttl + Ahead
        BY <1>1, <2>3, <3>1
      <4>2. now + Ttl + Ahead <= changed[op] + Believed => x <= changed[op] + Believed
        BY <4>1, Numbers
      <4> QED
        BY <2>4, <3>1, <4>2 DEF Backed
    <3>2. CASE ~staked
      BY <1>3, <2>4, <3>2 DEF Backed, Admissible
    <3> QED
      BY <3>1, <3>2
  <2>7. /\ ListGood(live')
        /\ \E k \in DOMAIN live' : live'[k] = e
        /\ \A k \in DOMAIN live : OnionOf(live[k]) # o => k \in DOMAIN live' /\ live'[k] = live[k]
        /\ \A k \in DOMAIN live' : live'[k] = e \/ \E j \in DOMAIN live : live'[k] = live[j]
    <3> DEFINE R == SetEntry(live, e)
    <3>1. /\ ListGood(R)
          /\ \E k \in DOMAIN R : R[k] = e
          /\ \A k \in DOMAIN live : OnionOf(live[k]) # OnionOf(e) => k \in DOMAIN R /\ R[k] = live[k]
          /\ \A k \in DOMAIN R : R[k] = e \/ \E j \in DOMAIN live : R[k] = live[j]
      <4>1. ListGood(live) /\ e \in EntryType /\ EntryGood(e)
        BY <1>1, <2>4, <2>5
      <4> HIDE DEF R
      <4>2. R = SetEntry(live, e)
        BY DEF R
      <4> QED
        BY <4>1, <4>2, ListSet
    <3>2. R = live'
      BY <2>1
    <3> HIDE DEF R
    <3> QED
      BY <2>4, <3>1, <3>2
  <2>8. ListGood(live)' /\ store' \in FileType /\ FileGood'
    BY <2>1, <2>7, StillGood, FileWritten
  <2>9. AllBacked'
    <3>1. \A k \in DOMAIN live' : Backed(live'[k]) /\ (RequireStake => live'[k].staked)
      BY <1>1, <2>6, <2>7 DEF AllBacked
    <3> QED
      BY <3>1, SameWorld DEF AllBacked
  <2>10. \A w \in Workers \cup Pulls : \A p : p # o /\ promised'[p] = promised[p] /\ Outlasts(w, p) => Outlasts(w, p)'
    BY DEF Outlasts, NoneBegun
  <2>11. /\ promised' \in [Onions -> Nat]
         /\ \A p \in Onions \ {o} : promised'[p] = promised[p]
         /\ \/ promised'[o] = promised[o]
            \/ kind = "announce" /\ promised'[o] = x /\ ~GossipAwaited(o)
    <3>1. CASE kind = "announce" /\ ~GossipAwaited(o)
      <4>1. promised' = [promised EXCEPT ![o] = x]
        BY <2>1, <3>1 DEF Spend, Expiry, x
      <4> QED
        BY <1>1, <2>2, <2>3, <3>1, <4>1
    <3>2. CASE ~(kind = "announce" /\ ~GossipAwaited(o))
      BY <1>1, <2>1, <2>2, <3>2 DEF Spend
    <3> QED
      BY <3>1, <3>2
  <2>12. promised[o] \in Nat /\ promised'[o] \in Nat /\ PromiseKept(o)
    BY <1>1, <2>2, <2>11 DEF PromisesKept
  <2>13. promised'[o] <= now + Ttl
    <3>1. kind = "announce" => x = now + Ttl
      BY DEF Expiry, x
    <3> QED
      BY <1>1, <2>11, <2>12, <3>1, Numbers DEF PromiseKept
  <2>14. ASSUME now < promised'[o] PROVE x >= promised'[o]
    <3>1. CASE kind = "announce"
      <4>1. x = now + Ttl
        BY <3>1 DEF Expiry, x
      <4> QED
        BY <2>3, <2>12, <2>13, <4>1
    <3>2. CASE kind = "gossip"
      <4>1. x = signed[i].ts + Ttl /\ promised'[o] = promised[o]
        BY <2>11, <3>2 DEF Expiry, x
      <4>2. promised[o] <= signed[i].ts + Ttl
        BY <2>14, <3>2, <4>1
      <4> QED
        BY <2>3, <2>12, <4>1, <4>2
    <3> QED
      BY <3>1, <3>2
  <2>15. ASSUME now < promised'[o], NEW w \in Workers \cup Pulls PROVE Outlasts(w, o)'
    <3>1. CASE promised'[o] = promised[o]
      <4>1. Outlasts(w, o)
        BY <2>12, <2>15, <3>1 DEF PromiseKept
      <4> QED
        BY <3>1, <4>1 DEF Outlasts, NoneBegun
    <3>2. CASE ~GossipAwaited(o)
      <4>1. ~(work[w] # Free /\ work[w].at = "gossip" /\ signed[work[w].rec].onion = o)
        BY <1>1, <3>2 DEF GossipAwaited
      <4> QED
        BY <4>1, SameWorld DEF Outlasts, NoneBegun
    <3> QED
      BY <2>11, <3>1, <3>2
  <2>16. PromiseKept(o)'
    <3>1. now < promised'[o] => \E k \in DOMAIN live' : OnionOf(live'[k]) = o /\ live'[k].expires >= promised'[o]
      BY <2>4, <2>7, <2>14
    <3> QED
      BY <2>13, <2>15, <3>1, SameWorld DEF PromiseKept
  <2>17. ASSUME NEW p \in Onions, p # o PROVE PromiseKept(p)'
    <3>1. PromiseKept(p) /\ promised'[p] = promised[p]
      BY <1>1, <2>11, <2>17 DEF PromisesKept
    <3>2. now < promised'[p] => \E k \in DOMAIN live' : OnionOf(live'[k]) = p /\ live'[k].expires >= promised'[p]
      BY <2>7, <2>17, <3>1 DEF PromiseKept
    <3> QED
      BY <2>10, <2>17, <3>1, <3>2, SameWorld DEF PromiseKept
  <2>18. PromisesKept'
    BY <2>16, <2>17 DEF PromisesKept
  <2> QED
    BY <2>8, <2>9, <2>11, <2>18
<1> QED
  BY <1>2, <1>3

-----------------------------------------------------------------------------
(* The steps.                                                              *)

\* A record that is fresh and fits is listed, or awaits the chain.
LEMMA VerifyInv ==
    ASSUME RegistryInv, UNCHANGED <<now, signed, reg, changed, cache>>,
           NEW w \in Workers \cup Pulls, NEW i \in DOMAIN signed, NEW op \in Presented,
           NEW kind \in {"announce", "gossip"},
           Verify(w, i, op, kind),
           kind = "announce" => Fresh(i),
           kind = "gossip" => News(i)
    PROVE  RegistryInv'
<1> DEFINE o == signed[i].onion
           until == signed[i].ts + Ttl
<1>1. /\ RegistryTypes /\ now \in Nat /\ i \in Nat /\ signed[i].ts \in Nat /\ o \in Onions
      /\ live \in Seq(EntryType) /\ ListGood(live) /\ PromisesKept /\ promised \in [Onions -> Nat]
      /\ work \in [Workers \cup Pulls -> {Free} \cup Waiting]
  BY RecordFields, RegistryFacts
<1>2. kind = "announce" =>
          now <= signed[i].ts + Skew /\ now <= signed[i].ts + Skew + Patience
  <2>1. kind = "announce" => now <= signed[i].ts + Skew
    BY DEF Fresh
  <2>2. now \in Nat /\ signed[i].ts \in Nat
    BY <1>1
  <2>3. Skew \in Nat /\ Patience \in Nat
    BY Numbers
  <2> QED
    BY <2>1, <2>2, <2>3
<1>3. /\ \A j \in DOMAIN signed : signed'[j].ts <= now' + Ahead
      /\ \A p \in Operators : CacheGood(p)' /\ changed'[p] <= now'
  BY DEF RegistryInv, CacheGood, IsStaked, HasStake
<1>4. ASSUME kind = "gossip", now < promised[o] PROVE promised[o] <= until
  <2>1. PICK j \in DOMAIN live : OnionOf(live[j]) = o /\ live[j].expires >= promised[o]
    BY <1>1, <1>4 DEF PromisesKept, PromiseKept
  <2>2. EntryFor(live, o) = live[j]
    BY <1>1, <2>1 DEF EntryFor, ListGood
  <2>3. live[j].expires < until
    BY <1>4, <2>1, <2>2 DEF News, Listed
  <2>4. live[j].expires \in Nat /\ promised[o] \in Nat /\ until \in Nat
    BY <1>1, EntryFields, Numbers
  <2> QED
    BY <2>1, <2>3, <2>4
<1> HIDE DEF until
<1>5. CASE op # NoOperator /\ ~Cached(op)
  <2>1. /\ work' = [work EXCEPT ![w] = [at |-> kind, rec |-> i, op |-> op, since |-> now]]
        /\ UNCHANGED <<live, store, nonces, promised>>
    BY <1>5 DEF Verify
  <2>2. op \in Operators
    BY <1>5 DEF Presented
  <2>3. work' \in [Workers \cup Pulls -> {Free} \cup Waiting]
    BY <1>1, <2>1, <2>2 DEF Waiting
  <2>4. /\ work'[w] = [at |-> kind, rec |-> i, op |-> op, since |-> now]
        /\ \A v \in (Workers \cup Pulls) \ {w} : work'[v] = work[v]
    BY <1>1, <2>1
  <2>5. ASSUME NEW v \in Workers \cup Pulls PROVE WorkGood(v)'
    <3>1. CASE v = w
      BY <1>1, <1>2, <2>4, <3>1, Numbers DEF WorkGood
    <3>2. CASE v # w
      BY <2>4, <3>2 DEF RegistryInv, WorkGood
    <3> QED
      BY <3>1, <3>2
  <2>6. ASSUME NEW p \in Onions PROVE PromiseKept(p)'
    <3>1. PromiseKept(p) /\ promised' = promised /\ live' = live /\ now' = now /\ signed' = signed
      BY <1>1, <2>1 DEF PromisesKept
    <3>2. ASSUME now < promised[p], NEW v \in Workers \cup Pulls PROVE Outlasts(v, p)'
      <4>1. CASE v = w
        <5>1. kind = "gossip" /\ o = p => promised[p] <= signed[i].ts + Ttl
          BY <1>4, <3>2 DEF until
        <5> QED
          BY <2>4, <3>1, <4>1, <5>1 DEF Outlasts
      <4>2. CASE v # w
        BY <2>4, <3>1, <3>2, <4>2 DEF PromiseKept, Outlasts
      <4> QED
        BY <4>1, <4>2
    <3> QED
      BY <3>1, <3>2, SameWorld DEF PromiseKept
  <2>7. ListGood(live)' /\ AllBacked' /\ FileGood'
    BY <2>1, StillGood, SameWorld, RegistryFacts DEF AllBacked, FileGood
  <2>8. RegistryTypes' /\ PromisesKept'
    BY <1>1, <2>1, <2>3, <2>6 DEF RegistryTypes, PromisesKept
  <2> QED
    BY <1>3, <2>5, <2>7, <2>8 DEF RegistryInv
<1>6. CASE ~(op # NoOperator /\ ~Cached(op))
  <2> DEFINE staked == op # NoOperator /\ cache[op].value
  <2>1. Verified(i, op, kind, staked) /\ UNCHANGED work
    BY <1>6 DEF Verify
  <2>2. ASSUME staked
        PROVE  /\ op \in Operators
               /\ IsStaked(reg, op) \/ now + Ttl + Ahead <= changed[op] + Believed
    <3>1. op \in Operators /\ now < cache[op].until /\ cache[op].value /\ CacheGood(op)
      BY <1>6, <2>2 DEF Cached, RegistryInv, Presented
    <3>2. IsStaked(reg, op) \/ cache[op].until <= changed[op] + Lag + CacheTime
      BY <3>1 DEF CacheGood
    <3>3. changed[op] \in Int /\ cache[op].until \in Nat /\ now \in Nat
      BY <1>1, <3>1, RegistryFacts DEF AnswerType
    <3>4. now < cache[op].until /\ cache[op].until <= changed[op] + Lag + CacheTime =>
              now + Ttl + Ahead <= changed[op] + Believed
      BY <3>3, Numbers
    <3> QED
      BY <3>1, <3>2, <3>4
  <2>3. staked \in BOOLEAN
    <3>1. op # NoOperator => cache[op] \in AnswerType
      BY RegistryFacts DEF Presented
    <3> QED
      BY <3>1 DEF AnswerType
  <2>4. kind = "announce" => now <= signed[i].ts + Skew + Patience
    BY <1>2
  <2>5. kind = "gossip" /\ now < promised[o] => promised[o] <= signed[i].ts + Ttl
    BY <1>4 DEF until
  <2>6. NoneBegun
    BY <2>1 DEF NoneBegun
  <2> HIDE DEF staked
  <2>7. /\ ListGood(live)' /\ AllBacked' /\ PromisesKept' /\ promised' \in [Onions -> Nat]
        /\ store' \in FileType /\ FileGood'
    BY <2>1, <2>2, <2>3, <2>4, <2>5, <2>6, VerifiedStep
  <2>8. \A v \in Workers \cup Pulls : WorkGood(v)'
    BY <2>1 DEF RegistryInv, WorkGood
  <2>9. RegistryTypes'
    BY <1>1, <2>1, <2>7 DEF RegistryTypes, ListGood
  <2> QED
    BY <1>3, <2>7, <2>8, <2>9 DEF RegistryInv
<1> QED
  BY <1>5, <1>6

\* A step that touches nothing of the registry.
LEMMA QuietVerify ==
    ASSUME RegistryInv, UNCHANGED <<now, signed, live, store, work, cache, reg, changed, promised>>
    PROVE  RegistryInv'
<1>1. ListGood(live)' /\ AllBacked' /\ FileGood'
  BY StillGood, SameWorld, RegistryFacts DEF AllBacked, FileGood
<1>2. PromisesKept'
  BY SameWorld, RegistryFacts DEF PromisesKept, PromiseKept, Outlasts
<1>3. \A o \in Operators : CacheGood(o)' /\ changed'[o] <= now'
  BY DEF RegistryInv, CacheGood, IsStaked, HasStake
<1>4. \A w \in Workers \cup Pulls : WorkGood(w)'
  BY DEF RegistryInv, WorkGood
<1>5. RegistryTypes' /\ \A i \in DOMAIN signed' : signed'[i].ts <= now' + Ahead
  BY DEF RegistryInv, RegistryTypes
<1> QED
  BY <1>1, <1>2, <1>3, <1>4, <1>5 DEF RegistryInv

\* POST /announce, refusals included.
LEMMA AnnounceInv ==
    ASSUME RegistryInv, NEW w \in Workers, NEW i \in DOMAIN signed, NEW op \in Presented,
           Announce(w, i, op)
    PROVE  RegistryInv'
<1>1. CASE Fresh(i) /\ ~Replayed(i)
  <2>1. Verify(w, i, op, "announce") /\ UNCHANGED <<now, signed, reg, changed, cache>>
    BY <1>1 DEF Announce, chain
  <2> QED
    BY <1>1, <2>1, VerifyInv
<1>2. CASE ~(Fresh(i) /\ ~Replayed(i))
  <2>1. UNCHANGED <<now, signed, live, store, work, cache, reg, changed, promised>>
    BY <1>2 DEF Announce, chain
  <2> QED
    BY <2>1, QuietVerify
<1> QED
  BY <1>1, <1>2

\* A pull from a peer.
LEMMA PullInv ==
    ASSUME RegistryInv, NEW w \in Pulls, PullPeer(w)
    PROVE  RegistryInv'
<1>1. PICK i \in DOMAIN signed, op \in Presented : Gossip(w, i, op)
  BY DEF PullPeer
<1>2. Verify(w, i, op, "gossip") /\ News(i) /\ UNCHANGED <<now, signed, reg, changed, cache>>
  BY <1>1 DEF Gossip, chain
<1> QED
  BY <1>2, VerifyInv

\* An answer is of the chain as it was since shortly before the call.
LEMMA ToldRecent ==
    ASSUME RegistryInv, NEW o \in Operators, NEW since \in Nat, NEW staked \in Told(o, since)
    PROVE  staked \in BOOLEAN /\ (staked => IsStaked(reg, o) \/ changed[o] >= since - Lag)
  BY DEF Told, IsStaked, HasStake

\* The chain answers a verification, or does not.
LEMMA AnswerInv ==
    ASSUME RegistryInv, NEW w \in Workers \cup Pulls, Answered(w) \/ Unanswered(w)
    PROVE  RegistryInv'
<1> DEFINE c == work[w]
           i == c.rec
           o == signed[i].onion
<1>1. /\ RegistryTypes /\ now \in Nat /\ WorkGood(w) /\ c # Free /\ c \in Waiting
      /\ promised \in [Onions -> Nat] /\ changed \in [Operators -> Int] /\ cache \in [Operators -> AnswerType]
      /\ UNCHANGED <<now, signed, reg, changed>> /\ work' = [work EXCEPT ![w] = Free]
  BY RegistryFacts DEF Answered, Unanswered, chain, RegistryInv
<1>2. /\ i \in DOMAIN signed /\ c.op \in Operators /\ c.op \in Presented /\ c.at \in {"announce", "gossip"}
      /\ c.since \in Nat /\ c.since <= now /\ now <= c.since + Patience
      /\ c.at = "announce" => c.since <= signed[i].ts + Skew
  BY <1>1 DEF WorkGood, Waiting, Presented
<1>3. signed[i].ts \in Nat /\ o \in Onions
  BY <1>2, RecordFields
<1>4. c.at = "announce" => now <= signed[i].ts + Skew + Patience
  BY <1>1, <1>2, <1>3, Numbers
<1>5. c.at = "gossip" /\ now < promised[o] => promised[o] <= signed[i].ts + Ttl
  BY <1>1, <1>3, RegistryFacts DEF PromisesKept, PromiseKept, Outlasts
<1>6. PICK staked \in BOOLEAN :
          /\ Verified(i, c.op, c.at, staked)
          /\ \/ /\ staked \in Told(c.op, c.since)
                /\ cache' = [cache EXCEPT ![c.op] = StakeAnswer(staked, c.since)]
             \/ ~staked /\ cache' = cache
  <2>1. CASE Unanswered(w)
    BY <2>1 DEF Unanswered, chain
  <2>2. CASE Answered(w)
    <3>1. PICK staked \in Told(c.op, c.since) :
              /\ cache' = [cache EXCEPT ![c.op] = StakeAnswer(staked, c.since)]
              /\ Verified(i, c.op, c.at, staked)
      BY <2>2 DEF Answered
    <3>2. staked \in BOOLEAN
      BY <1>2, ToldRecent
    <3> QED
      BY <3>1, <3>2
  <2> QED
    BY <2>1, <2>2
<1>7. staked => IsStaked(reg, c.op) \/ changed[c.op] >= c.since - Lag
  BY <1>2, <1>6, ToldRecent
<1>8. changed[c.op] \in Int
  BY <1>1, <1>2
<1>9. staked => /\ c.op \in Operators
                /\ IsStaked(reg, c.op) \/ now + Ttl + Ahead <= changed[c.op] + Believed
  <2>1. changed[c.op] >= c.since - Lag => now + Ttl + Ahead <= changed[c.op] + Believed
    BY <1>1, <1>2, <1>8, Numbers
  <2> QED
    BY <1>2, <1>7, <2>1
<1>10. NoneBegun /\ work' \in [Workers \cup Pulls -> {Free} \cup Waiting]
  BY <1>1, RegistryFacts DEF NoneBegun
<1>11. /\ ListGood(live)' /\ AllBacked' /\ PromisesKept' /\ promised' \in [Onions -> Nat]
       /\ store' \in FileType /\ FileGood'
  <2> HIDE DEF c, i, o
  <2>1. o = signed[i].onion /\ i \in DOMAIN signed
    BY <1>2 DEF o
  <2> QED
    BY <1>1, <1>2, <1>4, <1>5, <1>6, <1>9, <1>10, <2>1, VerifiedStep
<1>12. /\ cache' \in [Operators -> AnswerType]
       /\ \A p \in Operators : CacheGood(p)' /\ changed'[p] <= now'
  <2>1. CASE cache' = cache
    BY <1>1, <2>1 DEF RegistryInv, CacheGood, IsStaked, HasStake
  <2>2. CASE cache' = [cache EXCEPT ![c.op] = StakeAnswer(staked, c.since)]
    <3>1. /\ cache' \in [Operators -> AnswerType]
          /\ cache'[c.op].value = staked /\ cache'[c.op].until = c.since + CacheTime
          /\ \A p \in Operators \ {c.op} : cache'[p] = cache[p]
      BY <1>1, <1>2, <2>2, Numbers DEF StakeAnswer, AnswerType
    <3>2. ASSUME NEW p \in Operators, p = c.op PROVE CacheGood(p)'
      <4>1. c.since + CacheTime <= now + CacheTime
        BY <1>1, <1>2, Numbers
      <4>2. changed[p] >= c.since - Lag => c.since + CacheTime <= changed[p] + Lag + CacheTime
        BY <1>2, <1>8, <3>2, Numbers
      <4> QED
        BY <1>1, <1>7, <3>1, <3>2, <4>1, <4>2, SameWorld DEF CacheGood
    <3>3. ASSUME NEW p \in Operators, p # c.op PROVE CacheGood(p)'
      BY <1>1, <3>1, <3>3, SameWorld DEF RegistryInv, CacheGood
    <3> QED
      BY <1>1, <3>1, <3>2, <3>3 DEF RegistryInv
  <2> QED
    BY <1>6, <2>1, <2>2
<1>13. \A v \in Workers \cup Pulls : WorkGood(v)'
  BY <1>1, RegistryFacts DEF RegistryInv, WorkGood
<1>14. RegistryTypes' /\ \A j \in DOMAIN signed' : signed'[j].ts <= now' + Ahead
  BY <1>1, <1>10, <1>11, <1>12 DEF RegistryTypes, RegistryInv, ListGood
<1> QED
  BY <1>11, <1>12, <1>13, <1>14 DEF RegistryInv

\* What a step that may drop entries, and changes no record, clock or stake, does
\* for the rest of the invariant.
LEMMA Thinned ==
    ASSUME RegistryInv, UNCHANGED <<now, signed, reg, changed>>,
           ListGood(live'), Persist(live'), AllBacked', PromisesKept', promised' \in [Onions -> Nat],
           \A w \in Workers \cup Pulls : work'[w] = Free \/ work'[w] = work[w],
           work' \in [Workers \cup Pulls -> {Free} \cup Waiting],
           cache' \in [Operators -> AnswerType], \A o \in Operators : CacheGood(o)'
    PROVE  RegistryInv'
<1>1. ListGood(live)' /\ store' \in FileType /\ FileGood'
  BY FileWritten, StillGood
<1>2. \A w \in Workers \cup Pulls : WorkGood(w)'
  BY DEF RegistryInv, WorkGood
<1>3. \A o \in Operators : changed'[o] <= now'
  BY DEF RegistryInv
<1>4. RegistryTypes' /\ \A j \in DOMAIN signed' : signed'[j].ts <= now' + Ahead
  BY <1>1 DEF RegistryInv, RegistryTypes, ListGood
<1> QED
  BY <1>1, <1>2, <1>3, <1>4 DEF RegistryInv

\* The sweep.
LEMMA SweepInv ==
    ASSUME RegistryInv, Sweep
    PROVE  RegistryInv'
<1>1. /\ live \in Seq(EntryType) /\ ListGood(live) /\ AllBacked /\ PromisesKept /\ DOMAIN live = 1..Len(live)
      /\ now \in Nat /\ promised \in [Onions -> Nat] /\ cache \in [Operators -> AnswerType]
      /\ UNCHANGED <<now, signed, reg, changed, work, cache, promised>>
      /\ live' = Unexpired(live)
  BY RegistryFacts DEF Sweep, chain
<1> DEFINE F == {j \in 1..Len(live) : live[j].expires > now}
<1>2. PICK m : Thins(m, live', live, F)
  BY <1>1, UnexpiredThins
<1>3. /\ ListGood(live')
      /\ \A i \in DOMAIN live' : \E j \in DOMAIN live : live'[i] = live[j]
      /\ \A j \in F : \E i \in DOMAIN live' : live'[i] = live[j]
  BY <1>1, <1>2, ListThinned
<1>4. AllBacked'
  <2>1. \A i \in DOMAIN live' : Backed(live'[i]) /\ (RequireStake => live'[i].staked)
    BY <1>1, <1>3 DEF AllBacked
  <2> QED
    BY <1>1, <2>1, SameWorld DEF AllBacked
<1>5. ASSUME NEW o \in Onions PROVE PromiseKept(o)'
  <2>1. PromiseKept(o) /\ promised[o] \in Nat
    BY <1>1 DEF PromisesKept
  <2>2. ASSUME now < promised[o]
        PROVE  \E i \in DOMAIN live' : OnionOf(live'[i]) = o /\ live'[i].expires >= promised[o]
    <3>1. PICK j \in DOMAIN live : OnionOf(live[j]) = o /\ live[j].expires >= promised[o]
      BY <2>1, <2>2 DEF PromiseKept
    <3>2. live[j].expires > now
      BY <1>1, <2>1, <2>2, <3>1, EntryFields
    <3>3. j \in F
      BY <1>1, <3>1, <3>2
    <3> QED
      BY <1>3, <3>1, <3>3
  <2>3. \A w \in Workers \cup Pulls : Outlasts(w, o) => Outlasts(w, o)'
    BY <1>1 DEF Outlasts
  <2> QED
    BY <1>1, <2>1, <2>2, <2>3, SameWorld DEF PromiseKept
<1>6. RegistryTypes
  BY RegistryFacts
<1>7. ASSUME live' = live, store' = store PROVE RegistryInv'
  BY <1>1, <1>7, QuietVerify
<1>8. ASSUME Persist(live') PROVE RegistryInv'
  <2>1. PromisesKept'
    BY <1>5 DEF PromisesKept
  <2>2. \A o \in Operators : CacheGood(o)'
    BY <1>1 DEF RegistryInv, CacheGood, IsStaked, HasStake
  <2> HIDE DEF F
  <2> QED
    BY <1>1, <1>3, <1>4, <1>6, <1>8, <2>1, <2>2, Thinned DEF RegistryTypes
<1> QED
  BY <1>7, <1>8 DEF Sweep

\* A crash and the reload of the file.
LEMMA RestartInv ==
    ASSUME RegistryInv, Restart
    PROVE  RegistryInv'
<1>1. /\ store \in FileType /\ store.entries \in Seq(EntryType) /\ FileGood /\ ListGood(store.entries)
      /\ now \in Nat /\ promised \in [Onions -> Nat] /\ changed \in [Operators -> Int] /\ PromisesKept
      /\ RegistryTypes /\ work \in [Workers \cup Pulls -> {Free} \cup Waiting]
      /\ UNCHANGED <<now, signed, reg, changed>> /\ work' = [w \in DOMAIN work |-> Free]
      /\ Persist(live')
  BY RegistryFacts DEF Restart, FileGood
<1>20. PICK known \in SUBSET Operators, heard \in SUBSET DOMAIN store.entries :
           \E told \in [known -> BOOLEAN] : Reload(told, heard)
  BY DEF Restart
<1>2. PICK told \in [known -> BOOLEAN] : Reload(told, heard)
  BY <1>20
<1> DEFINE S == store.entries
           Heard(i) == i \in heard /\ S[i].op \in DOMAIN told /\ told[S[i].op]
           L == [i \in DOMAIN S |-> Reverified(S[i], Heard(i))]
           F == {j \in 1..Len(L) : Admissible(L[j].staked) /\ j <= MaxEntries /\ L[j].expires > now}
<1>3. /\ \A o \in known : told[o] \in BOOLEAN /\ told[o] \in Told(o, now)
      /\ live' = FoldLeft(Reloaded, << >>, L)
      /\ cache' = [o \in Operators |-> IF o \in known THEN StakeAnswer(told[o], now) ELSE NoAnswer]
      /\ promised' = [o \in Onions |-> IF store.current /\ o \in Owed(L) THEN promised[o] ELSE 0]
  BY <1>2 DEF Reload
<1>4. ASSUME NEW i \in DOMAIN S
      PROVE  /\ L[i] \in EntryType /\ L[i].rec = S[i].rec /\ L[i].expires = S[i].expires /\ L[i].op = S[i].op
             /\ L[i].staked => S[i].op \in known /\ told[S[i].op]
             /\ OnionOf(L[i]) = OnionOf(S[i])
  <2>1. S[i] \in EntryType
    BY <1>1, EntryFields
  <2>2. Heard(i) \in BOOLEAN
    BY <1>3
  <2> HIDE DEF S
  <2> QED
    BY <1>1, <2>1, <2>2 DEF Reverified, EntryType, OnionOf
<1>21. S \in Seq(EntryType) /\ DOMAIN S = 1..Len(S) /\ Len(S) \in Nat /\ ListGood(S)
  BY <1>1
<1>22. DOMAIN L = DOMAIN S
  OBVIOUS
<1>23. L = [i \in DOMAIN S |-> L[i]]
  OBVIOUS
<1>5. L \in Seq(EntryType) /\ Len(L) = Len(S) /\ DOMAIN L = DOMAIN S /\ DOMAIN S = 1..Len(S)
  <2> HIDE DEF L, S
  <2>1. L \in [1..Len(S) -> EntryType]
    BY <1>4, <1>21, <1>22, <1>23
  <2> QED
    BY <1>21, <1>22, <2>1
<1>6. ListGood(L)
  <2> HIDE DEF L, S
  <2>1. \A i \in DOMAIN L : EntryGood(L[i])
    BY <1>4, <1>21, <1>22 DEF ListGood, EntryGood
  <2>2. \A i, j \in DOMAIN L : OnionOf(L[i]) = OnionOf(L[j]) => i = j
    <3> SUFFICES ASSUME NEW i \in DOMAIN L, NEW j \in DOMAIN L, OnionOf(L[i]) = OnionOf(L[j]) PROVE i = j
      OBVIOUS
    <3>1. OnionOf(S[i]) = OnionOf(S[j])
      BY <1>4, <1>22
    <3> QED
      BY <1>21, <1>22, <3>1 DEF ListGood
  <2> QED
    BY <1>5, <2>1, <2>2 DEF ListGood
<1>7. \A o \in known : o \in Operators /\ (told[o] => IsStaked(reg, o) \/ changed[o] >= now - Lag)
  <2>1. \A o \in known : o \in Operators /\ told[o] \in Told(o, now)
    BY <1>3
  <2> QED
    BY <1>1, <2>1, ToldRecent
<1>8. ASSUME NEW i \in DOMAIN L PROVE Backed(L[i])
  <2> DEFINE o == S[i].op
  <2>1. L[i].staked => o \in Operators /\ L[i].op = o /\ (IsStaked(reg, o) \/ changed[o] >= now - Lag)
    BY <1>4, <1>5, <1>7
  <2>2. L[i].expires \in Nat /\ L[i].expires <= now + Ttl + Ahead
    BY <1>5, <1>6, EntryFields DEF ListGood, EntryGood
  <2>3. ASSUME NEW t \in Int, t >= now - Lag PROVE L[i].expires <= t + Believed
    <3> HIDE DEF L
    <3>1. now + Ttl + Ahead <= t + Believed
      BY <1>1, <2>3, Numbers
    <3> QED
      BY <1>1, <2>2, <2>3, <3>1, Numbers
  <2> HIDE DEF o
  <2> QED
    BY <1>1, <2>1, <2>3 DEF Backed
<1>9. \A j \in DOMAIN S : L[j].expires > now /\ j <= MaxEntries /\ Admissible(L[j].staked) => j \in F
  BY <1>5
<1>10. \A o \in Owed(L) : \E j \in DOMAIN S : j <= MaxEntries /\ Admissible(L[j].staked) /\ OnionOf(S[j]) = o
  <2> HIDE DEF L, S
  <2> SUFFICES ASSUME NEW o \in Owed(L)
               PROVE  \E j \in DOMAIN S : j <= MaxEntries /\ Admissible(L[j].staked) /\ OnionOf(S[j]) = o
    OBVIOUS
  <2>1. PICK j \in DOMAIN L : j <= MaxEntries /\ Admissible(L[j].staked) /\ OnionOf(L[j]) = o
    BY DEF Owed
  <2> QED
    BY <1>4, <1>22, <2>1
<1> HIDE DEF L, Heard
<1>11. /\ \E m : Thins(m, live', L, F)
       /\ \A i \in 1..Len(live') : RequireStake => live'[i].staked
  BY <1>3, <1>5, ReloadThins
<1>12. PICK m : Thins(m, live', L, F)
  BY <1>11
<1> HIDE DEF F
<1>13. /\ ListGood(live')
       /\ \A i \in DOMAIN live' : \E j \in DOMAIN L : live'[i] = L[j]
       /\ \A j \in F : \E i \in DOMAIN live' : live'[i] = L[j]
  BY <1>6, <1>12, ListThinned
<1>14. AllBacked'
  <2>1. DOMAIN live' = 1..Len(live')
    BY <1>12 DEF Thins
  <2>2. \A i \in DOMAIN live' : Backed(live'[i]) /\ (RequireStake => live'[i].staked)
    BY <1>8, <1>11, <1>13, <2>1
  <2> QED
    BY <1>1, <2>2, SameWorld DEF AllBacked
<1>15. promised' \in [Onions -> Nat]
  BY <1>1, <1>3
<1>16. ASSUME NEW o \in Onions PROVE PromiseKept(o)'
  <2>1. PromiseKept(o) /\ promised[o] \in Nat /\ promised'[o] \in {0, promised[o]}
    BY <1>1, <1>3 DEF PromisesKept
  <2>2. ASSUME now < promised'[o]
        PROVE  \E i \in DOMAIN live' : OnionOf(live'[i]) = o /\ live'[i].expires >= promised'[o]
    <3>1. store.current /\ o \in Owed(L) /\ promised'[o] = promised[o] /\ now < promised[o]
      BY <1>1, <1>3, <2>1, <2>2
    <3>2. live = S
      BY <1>1, <3>1 DEF FileGood
    <3>3. PICK k \in DOMAIN S : OnionOf(S[k]) = o /\ S[k].expires >= promised[o]
      BY <2>1, <3>1, <3>2 DEF PromiseKept
    <3>4. PICK j \in DOMAIN S : j <= MaxEntries /\ Admissible(L[j].staked) /\ OnionOf(S[j]) = o
      BY <1>10, <3>1
    <3>5. j = k
      BY <1>1, <3>3, <3>4 DEF ListGood
    <3>6. S[j].expires > now
      BY <1>1, <2>1, <3>1, <3>3, <3>5, EntryFields
    <3>7. j \in F
      BY <1>4, <1>9, <3>4, <3>6
    <3>8. PICK i \in DOMAIN live' : live'[i] = L[j]
      BY <1>13, <3>7
    <3> QED
      BY <1>4, <3>1, <3>3, <3>5, <3>8
  <2>3. promised'[o] <= now' + Ttl
    BY <1>1, <2>1, Numbers DEF PromiseKept
  <2>4. \A w \in Workers \cup Pulls : Outlasts(w, o)'
    BY <1>1 DEF Outlasts
  <2> QED
    BY <1>1, <2>2, <2>3, <2>4, SameWorld DEF PromiseKept
<1>17. /\ cache' \in [Operators -> AnswerType]
       /\ \A o \in Operators : CacheGood(o)'
  <2>1. ASSUME NEW o \in Operators, o \in known
        PROVE  /\ cache'[o] \in AnswerType
               /\ cache'[o].until = now + CacheTime /\ cache'[o].value = told[o]
    BY <1>1, <1>3, <2>1, Numbers DEF StakeAnswer, AnswerType
  <2>2. ASSUME NEW o \in Operators, o \notin known
        PROVE  cache'[o] \in AnswerType /\ cache'[o].until = 0 /\ ~cache'[o].value
    BY <1>3, <2>2 DEF NoAnswer, AnswerType
  <2>3. ASSUME NEW o \in Operators PROVE CacheGood(o)'
    <3>1. changed[o] \in Int /\ (changed[o] >= now - Lag => now + CacheTime <= changed[o] + Lag + CacheTime)
      BY <1>1, Numbers
    <3>2. 0 <= now + CacheTime
      BY <1>1, Numbers
    <3>3. CASE o \in known
      <4>1. now + CacheTime <= now + CacheTime
        BY <1>1, Numbers
      <4> QED
        BY <1>1, <1>7, <2>1, <3>1, <3>3, <4>1, SameWorld DEF CacheGood
    <3>4. CASE o \notin known
      BY <1>1, <2>2, <3>2, <3>4 DEF CacheGood
    <3> QED
      BY <3>3, <3>4
  <2>4. \A o \in Operators : cache'[o] \in AnswerType
    BY <2>1, <2>2
  <2> QED
    BY <1>3, <2>3, <2>4
<1>18. /\ work' \in [Workers \cup Pulls -> {Free} \cup Waiting]
       /\ \A w \in Workers \cup Pulls : work'[w] = Free
  BY <1>1
<1>19. PromisesKept'
  BY <1>16 DEF PromisesKept
<1> QED
  BY <1>1, <1>13, <1>14, <1>15, <1>17, <1>18, <1>19, Thinned


\* A gateway signs a record.
LEMMA BeatInv ==
    ASSUME RegistryInv, NEW o \in Onions, Beat(o)
    PROVE  RegistryInv'
<1>1. /\ RegistryTypes /\ now \in Nat /\ signed \in Seq(Record)
      /\ ListGood(live) /\ AllBacked /\ FileGood /\ PromisesKept
      /\ UNCHANGED <<now, live, store, work, cache, reg, changed, promised>>
  BY RegistryFacts DEF Beat, chain
<1>20. PICK ts \in now..now + Ahead : signed' = Append(signed, [onion |-> o, ts |-> ts])
  BY DEF Beat, Announcement
<1>2. /\ signed' \in Seq(Record)
      /\ \A i \in DOMAIN signed : i \in DOMAIN signed' /\ signed'[i] = signed[i]
      /\ \A i \in DOMAIN signed' : i \in DOMAIN signed \/ signed'[i] = [onion |-> o, ts |-> ts]
  <2>1. ts \in Nat
    BY <1>1, <1>20, Numbers
  <2> QED
    BY <1>1, <1>20, <2>1 DEF Record
<1>3. ASSUME NEW i \in DOMAIN signed' PROVE signed'[i].ts <= now' + Ahead
  <2>1. CASE i \in DOMAIN signed
    BY <1>1, <1>2, <2>1 DEF RegistryInv
  <2>2. CASE signed'[i] = [onion |-> o, ts |-> ts]
    BY <1>1, <1>20, <2>2, Numbers
  <2> QED
    BY <1>2, <2>1, <2>2
<1>4. ASSUME NEW e, EntryGood(e)
      PROVE  EntryGood(e)' /\ OnionOf(e)' = OnionOf(e)
  BY <1>1, <1>2, <1>4 DEF EntryGood, OnionOf
<1>5. ASSUME NEW L, ListGood(L)
      PROVE  /\ \A i \in DOMAIN L : EntryGood(L[i])' /\ OnionOf(L[i])' = OnionOf(L[i])
             /\ \A i, j \in DOMAIN L : OnionOf(L[i])' = OnionOf(L[j])' => i = j
  BY <1>4, <1>5 DEF ListGood
<1>6. ListGood(live)' /\ FileGood'
  <2>1. ListGood(live)'
    BY <1>1, <1>5 DEF ListGood
  <2>2. ListGood(store.entries)'
    <3>1. ListGood(store.entries)
      BY <1>1 DEF FileGood
    <3> QED
      BY <1>1, <1>5, <3>1 DEF ListGood
  <2> QED
    BY <1>1, <2>1, <2>2 DEF FileGood
<1>7. AllBacked'
  BY <1>1 DEF AllBacked, Backed, IsStaked, HasStake
<1>8. \A w \in Workers \cup Pulls : WorkGood(w)' /\ \A p : Outlasts(w, p) => Outlasts(w, p)'
  <2> SUFFICES ASSUME NEW w \in Workers \cup Pulls
               PROVE  WorkGood(w)' /\ \A p : Outlasts(w, p) => Outlasts(w, p)'
    OBVIOUS
  <2>1. WorkGood(w)
    BY DEF RegistryInv
  <2>2. work[w] # Free => work[w].rec \in DOMAIN signed' /\ signed'[work[w].rec] = signed[work[w].rec]
    BY <1>2, <2>1 DEF WorkGood
  <2> QED
    BY <1>1, <2>1, <2>2 DEF WorkGood, Outlasts
<1>9. PromisesKept'
  <2> SUFFICES ASSUME NEW p \in Onions PROVE PromiseKept(p)'
    BY DEF PromisesKept
  <2>1. PromiseKept(p)
    BY <1>1 DEF PromisesKept
  <2>2. \A i \in DOMAIN live : OnionOf(live[i])' = OnionOf(live[i])
    BY <1>1, <1>5
  <2> QED
    BY <1>1, <1>8, <2>1, <2>2 DEF PromiseKept
<1>10. \A p \in Operators : CacheGood(p)' /\ changed'[p] <= now'
  BY <1>1 DEF RegistryInv, CacheGood, IsStaked, HasStake
<1>11. RegistryTypes'
  BY <1>1, <1>2 DEF RegistryTypes
<1> QED
  BY <1>3, <1>6, <1>7, <1>8, <1>9, <1>10, <1>11 DEF RegistryInv

\* Time passes.
LEMMA TickInv ==
    ASSUME RegistryInv, Tick
    PROVE  RegistryInv'
<1>1. /\ RegistryTypes /\ now \in Nat /\ now' = now + 1
      /\ ListGood(live) /\ AllBacked /\ FileGood /\ PromisesKept
      /\ UNCHANGED <<signed, live, store, work, cache, reg, changed, promised>>
      /\ \A w \in DOMAIN work : work[w] # Free => now < work[w].since + Patience
  BY RegistryFacts DEF Tick, chain
<1>2. ASSUME NEW i \in DOMAIN signed' PROVE signed'[i].ts <= now' + Ahead
  <2>1. signed[i].ts \in Nat /\ signed[i].ts <= now + Ahead
    BY <1>1, RecordFields
  <2> QED
    BY <1>1, <2>1, Numbers
<1>3. ASSUME NEW L, ListGood(L), NEW i \in DOMAIN L
      PROVE  EntryGood(L[i])' /\ OnionOf(L[i])' = OnionOf(L[i])
  <2>1. EntryGood(L[i]) /\ L[i].expires \in Nat
    BY <1>3, EntryFields DEF ListGood
  <2>2. L[i].expires <= now + 1 + Ttl + Ahead
    <3>1. L[i].expires <= now + Ttl + Ahead
      BY <2>1 DEF EntryGood
    <3> QED
      BY <1>1, <2>1, <3>1, Numbers
  <2> QED
    BY <1>1, <2>1, <2>2 DEF EntryGood, OnionOf
<1>4. ListGood(live)' /\ FileGood'
  <2>1. ListGood(live)'
    BY <1>1, <1>3 DEF ListGood, OnionOf
  <2>2. ListGood(store.entries)'
    <3>1. ListGood(store.entries)
      BY <1>1 DEF FileGood
    <3> QED
      BY <1>1, <1>3, <3>1 DEF ListGood, OnionOf
  <2> QED
    BY <1>1, <2>1, <2>2 DEF FileGood
<1>5. ASSUME NEW o \in Onions PROVE PromiseKept(o)'
  <2>1. promised[o] \in Nat /\ PromiseKept(o)
    BY <1>1 DEF RegistryTypes, PromisesKept
  <2>2. (now + 1 < promised[o] => now < promised[o]) /\ promised[o] <= now + 1 + Ttl
    BY <1>1, <2>1, Numbers DEF PromiseKept
  <2>3. \A w \in Workers \cup Pulls : Outlasts(w, o) => Outlasts(w, o)'
    BY <1>1 DEF Outlasts
  <2> QED
    BY <1>1, <2>1, <2>2, <2>3 DEF PromiseKept, OnionOf
<1>6. ASSUME NEW o \in Operators PROVE CacheGood(o)' /\ changed'[o] <= now'
  <2>1. CacheGood(o) /\ cache[o].until \in Nat /\ changed[o] \in Int /\ changed[o] <= now
    BY <1>1 DEF RegistryInv, RegistryTypes, AnswerType
  <2> QED
    BY <1>1, <2>1, Numbers DEF CacheGood, IsStaked, HasStake
<1>7. ASSUME NEW w \in Workers \cup Pulls PROVE WorkGood(w)'
  <2>1. WorkGood(w) /\ (work[w] # Free => work[w] \in Waiting)
    BY <1>1 DEF RegistryInv, RegistryTypes
  <2>2. work[w] # Free => work[w].since \in Nat /\ now < work[w].since + Patience
    BY <1>1, <2>1 DEF Waiting, RegistryTypes
  <2> QED
    BY <1>1, <2>1, <2>2, Numbers DEF WorkGood
<1>8. RegistryTypes'
  BY <1>1 DEF RegistryTypes
<1>9. AllBacked' /\ PromisesKept'
  BY <1>1, <1>5 DEF PromisesKept, AllBacked, Backed, IsStaked, HasStake
<1> QED
  BY <1>2, <1>4, <1>6, <1>7, <1>8, <1>9 DEF RegistryInv

\* The storage after one stake was replaced.
LEMMA StakeReplaced ==
    ASSUME NEW G \in RegistryType, NEW o \in Operators, NEW x \in StakeType,
           NEW n \in Nat, NEW a \in Int, NEW b \in Int, NEW H,
           H = [stakes |-> [G.stakes EXCEPT ![o] = x], nextIndex |-> n, activeCount |-> a,
                owner |-> G.owner, balance |-> b]
    PROVE  /\ H \in RegistryType /\ H.stakes[o] = x
           /\ \A p \in Operators \ {o} : H.stakes[p] = G.stakes[p]
<1>1. G.stakes \in [Operators -> StakeType] /\ G.owner \in {"owner"}
  BY DEF RegistryType
<1>2. [G.stakes EXCEPT ![o] = x] \in [Operators -> StakeType]
  BY <1>1
<1> QED
  BY <1>1, <1>2 DEF RegistryType

\* A transaction about the operator o leaves the stakes of the others alone.
LEMMA StakingInv ==
    ASSUME RegistryInv, NEW o \in Operators, Staking(o)
    PROVE  RegistryInv'
<1>1. /\ RegistryTypes /\ now \in Nat /\ reg \in RegistryType /\ changed \in [Operators -> Int]
      /\ UNCHANGED <<now, signed, live, store, work, cache, promised>>
      /\ changed' = IF IsStaked(reg, o) # IsStaked(reg', o) THEN [changed EXCEPT ![o] = now] ELSE changed
      /\ ListGood(live) /\ AllBacked /\ FileGood /\ PromisesKept
  BY RegistryFacts DEF Staking, RegistryTypes
<1> DEFINE s == reg.stakes[o]
<1>2. /\ s \in StakeType /\ s.bond \in Int
      /\ reg.stakes \in [Operators -> StakeType] /\ reg.nextIndex \in Nat /\ reg.activeCount \in Int
      /\ reg.balance \in Int
  BY <1>1, Numbers DEF RegistryType, StakeType
<1>3. /\ reg' \in RegistryType
      /\ \A p \in Operators \ {o} : reg'.stakes[p] = reg.stakes[p]
  <2>0. ASSUME NEW x \in StakeType, NEW n \in Nat, NEW a \in Int, NEW b \in Int,
               reg' = [stakes |-> [reg.stakes EXCEPT ![o] = x], nextIndex |-> n, activeCount |-> a,
                       owner |-> reg.owner, balance |-> b]
        PROVE  reg' \in RegistryType /\ \A p \in Operators \ {o} : reg'.stakes[p] = reg.stakes[p]
    BY <1>1, <2>0, StakeReplaced
  <2>1. CASE CanRegister(reg, o) /\ reg' = Registered(reg, o)
    <3> DEFINE x == [bond |-> Bond, index |-> reg.nextIndex, exitInitiatedAt |-> 0]
    <3>1. x \in StakeType
      BY <1>2 DEF StakeType
    <3>2. reg' = [stakes |-> [reg.stakes EXCEPT ![o] = x], nextIndex |-> reg.nextIndex + 1,
                  activeCount |-> reg.activeCount + 1, owner |-> reg.owner, balance |-> reg.balance + Bond]
      BY <1>1, <2>1 DEF Registered, RegistryType
    <3>3. reg.nextIndex + 1 \in Nat /\ reg.activeCount + 1 \in Int /\ reg.balance + Bond \in Int
      BY <1>2, Numbers
    <3> HIDE DEF x
    <3> QED
      BY <2>0, <3>1, <3>2, <3>3
  <2>2. CASE CanExit(reg, o) /\ reg' = Exiting(reg, o, now)
    <3> DEFINE x == [s EXCEPT !.exitInitiatedAt = now]
    <3>1. x \in StakeType
      BY <1>1, <1>2 DEF StakeType
    <3>2. reg' = [stakes |-> [reg.stakes EXCEPT ![o] = x], nextIndex |-> reg.nextIndex,
                  activeCount |-> reg.activeCount - 1, owner |-> reg.owner, balance |-> reg.balance]
      BY <1>1, <2>2 DEF Exiting, RegistryType
    <3>3. reg.activeCount - 1 \in Int
      BY <1>2
    <3> HIDE DEF x
    <3> QED
      BY <1>2, <2>0, <3>1, <3>2, <3>3
  <2>3. ASSUME NEW a \in Int,
               reg' = [stakes |-> [reg.stakes EXCEPT ![o] = NoStake], nextIndex |-> reg.nextIndex,
                       activeCount |-> a, owner |-> reg.owner, balance |-> reg.balance - s.bond]
        PROVE  reg' \in RegistryType /\ \A p \in Operators \ {o} : reg'.stakes[p] = reg.stakes[p]
    <3>1. NoStake \in StakeType
      BY DEF StakeType, NoStake
    <3>2. reg.balance - s.bond \in Int
      BY <1>2
    <3> QED
      BY <1>2, <2>0, <2>3, <3>1, <3>2
  <2>4. CASE CanWithdraw(reg, o, now) /\ reg' = Withdrawn(reg, o)
    <3>1. reg' = [stakes |-> [reg.stakes EXCEPT ![o] = NoStake], nextIndex |-> reg.nextIndex,
                  activeCount |-> reg.activeCount, owner |-> reg.owner, balance |-> reg.balance - s.bond]
      BY <1>1, <2>4 DEF Withdrawn, RegistryType
    <3> QED
      BY <1>2, <2>3, <3>1
  <2>5. CASE HasStake(reg, o) /\ reg' = SlashedGateway(reg, o)
    <3> DEFINE a == IF IsStaked(reg, o) THEN reg.activeCount - 1 ELSE reg.activeCount
    <3>1. reg' = [stakes |-> [reg.stakes EXCEPT ![o] = NoStake], nextIndex |-> reg.nextIndex,
                  activeCount |-> a, owner |-> reg.owner, balance |-> reg.balance - s.bond]
      BY <1>1, <2>5 DEF SlashedGateway, RegistryType
    <3>2. a \in Int
      BY <1>2
    <3> HIDE DEF a
    <3> QED
      BY <2>3, <3>1, <3>2
  <2> QED
    BY <2>1, <2>2, <2>4, <2>5 DEF Staking
<1> HIDE DEF s
<1>4. \A e : OnionOf(e)' = OnionOf(e) /\ (EntryGood(e)' <=> EntryGood(e))
  BY <1>1 DEF OnionOf, EntryGood
<1>5. /\ changed' \in [Operators -> Int]
      /\ \A p \in Operators : \/ IsStaked(reg', p)
                              \/ IsStaked(reg, p) /\ changed'[p] = now
                              \/ ~IsStaked(reg, p) /\ changed'[p] = changed[p]
      /\ \A p \in Operators : changed'[p] \in {now, changed[p]}
  <2>1. changed' \in [Operators -> Int]
    BY <1>1
  <2>2. ASSUME NEW p \in Operators
        PROVE  /\ \/ IsStaked(reg', p)
                  \/ IsStaked(reg, p) /\ changed'[p] = now
                  \/ ~IsStaked(reg, p) /\ changed'[p] = changed[p]
               /\ changed'[p] \in {now, changed[p]}
    <3>1. CASE p = o
      BY <1>1, <3>1 DEF IsStaked
    <3>2. CASE p # o
      <4>1. IsStaked(reg', p) <=> IsStaked(reg, p)
        BY <1>3, <3>2 DEF IsStaked, HasStake
      <4>2. changed'[p] = changed[p]
        BY <1>1, <3>2
      <4> QED
        BY <4>1, <4>2
    <3> QED
      BY <3>1, <3>2
  <2> QED
    BY <2>1, <2>2
<1>6. ASSUME NEW i \in DOMAIN live PROVE Backed(live[i])'
  <2> DEFINE e == live[i]
  <2>1. EntryGood(e) /\ Backed(e) /\ e.expires \in Nat
    BY <1>1, EntryFields DEF ListGood, AllBacked
  <2>2. now + Ttl + Ahead <= now + Believed /\ e.expires <= now + Ttl + Ahead
    BY <1>1, <2>1, Numbers DEF EntryGood
  <2>3. e.expires <= now + Believed
    BY <1>1, <2>1, <2>2, Numbers
  <2>4. e' = e
    BY <1>1
  <2> HIDE DEF e
  <2>5. ASSUME e.staked
        PROVE  e.op \in Operators /\ (IsStaked(reg', e.op) \/ e.expires <= changed'[e.op] + Believed)
    <3>1. e.op \in Operators /\ (IsStaked(reg, e.op) \/ e.expires <= changed[e.op] + Believed)
      BY <2>1, <2>5 DEF Backed
    <3> QED
      BY <1>5, <2>3, <3>1
  <2>6. Backed(e)'
    BY <2>4, <2>5 DEF Backed, IsStaked, HasStake
  <2> QED
    BY <2>6 DEF e
<1>7. ListGood(live)' /\ FileGood'
  BY <1>1, <1>4 DEF ListGood, FileGood
<1>8. PromisesKept'
  <2>1. \A w \in Workers \cup Pulls : \A p : Outlasts(w, p) => Outlasts(w, p)'
    BY <1>1 DEF Outlasts
  <2> QED
    BY <1>1, <1>4, <2>1 DEF PromisesKept, PromiseKept
<1>9. ASSUME NEW p \in Operators PROVE CacheGood(p)' /\ changed'[p] <= now'
  <2>1. /\ CacheGood(p) /\ cache[p].until \in Nat /\ changed[p] \in Int /\ changed[p] <= now
        /\ cache[p].value \in BOOLEAN
    BY <1>1 DEF RegistryInv, RegistryTypes, AnswerType
  <2>2. cache[p].until <= now + Lag + CacheTime
    BY <1>1, <2>1, Numbers DEF CacheGood
  <2>3. cache[p].value => IsStaked(reg', p) \/ cache[p].until <= changed'[p] + Lag + CacheTime
    BY <1>5, <2>1, <2>2 DEF CacheGood
  <2> QED
    BY <1>1, <1>5, <2>1, <2>3 DEF CacheGood, IsStaked, HasStake
<1>10. \A w \in Workers \cup Pulls : WorkGood(w)'
  BY <1>1 DEF RegistryInv, WorkGood
<1>11. RegistryTypes'
  BY <1>1, <1>3, <1>5 DEF RegistryTypes
<1>12. AllBacked'
  BY <1>1, <1>6 DEF AllBacked
<1>13. \A i \in DOMAIN signed' : signed'[i].ts <= now' + Ahead
  BY <1>1 DEF RegistryInv
<1> QED
  BY <1>7, <1>8, <1>9, <1>10, <1>11, <1>12, <1>13 DEF RegistryInv

-----------------------------------------------------------------------------
\* An empty registry.
LEMMA RegistryInitInv ==
    ASSUME Init PROVE RegistryInv
<1>1. RegistryTypes
  <2>1. NoStake \in StakeType
    BY DEF NoStake, StakeType
  <2>2. reg \in RegistryType
    BY <2>1 DEF Init, NewRegistry, RegistryType
  <2>3. NoAnswer \in AnswerType
    BY DEF NoAnswer, AnswerType
  <2>4. store \in FileType
    BY Numbers DEF Init, FileType
  <2>5. changed \in [Operators -> Int]
    BY Numbers DEF Init
  <2> QED
    BY <2>2, <2>3, <2>4, <2>5 DEF Init, RegistryTypes
<1>2. ListGood(live) /\ AllBacked /\ FileGood
  BY DEF Init, ListGood, AllBacked, FileGood
<1>3. PromisesKept
  BY Numbers DEF Init, PromisesKept, PromiseKept
<1>4. \A o \in Operators : CacheGood(o) /\ changed[o] <= now
  BY Numbers DEF Init, CacheGood, NoAnswer
<1>5. \A w \in Workers \cup Pulls : WorkGood(w)
  BY DEF Init, WorkGood
<1> QED
  BY <1>1, <1>2, <1>3, <1>4, <1>5 DEF RegistryInv, Init

\* Every step preserves RegistryInv.
LEMMA RegistryStepInv ==
    ASSUME RegistryInv, [Next]_vars PROVE RegistryInv'
<1>1. CASE UNCHANGED vars
  BY <1>1, QuietVerify, RegistryFacts DEF vars, chain
<1>2. ASSUME NEW o \in Onions, SweptForRoom(o) PROVE RegistryInv'
  BY <1>2, SweepInv DEF SweptForRoom
<1>3. DOMAIN work = Workers \cup Pulls
  BY DEF RegistryInv, RegistryTypes
<1> QED
  BY <1>1, <1>2, <1>3, BeatInv, StakingInv, AnnounceInv, PullInv, AnswerInv, SweepInv, RestartInv, TickInv
  DEF Next

\* RegistryInv holds in every reachable state.
THEOREM RegistryInvariant == Spec => []RegistryInv
<1>1. Init => RegistryInv
  BY RegistryInitInv
<1>2. RegistryInv /\ [Next]_vars => RegistryInv'
  BY RegistryStepInv
<1> QED
  BY <1>1, <1>2, PTL DEF Spec

\* A gateway that was told 200 while no gossip of it was awaited is listed until the
\* time it was told, whatever operator it or a peer presents its records with,
\* through sweeps, a full registry, gossip of its older records, and restarts that
\* find its entry stored and admissible.
THEOREM AnnouncedStaysListed == Spec => []StaysListed
<1>1. RegistryInv => StaysListed
  <2> SUFFICES ASSUME RegistryInv, NEW o \in Onions, now < promised[o] PROVE Serving(o)
    BY DEF StaysListed
  <2>1. live \in Seq(EntryType) /\ DOMAIN live = 1..Len(live) /\ now \in Nat /\ promised[o] \in Nat
    BY RegistryFacts
  <2>2. PICK j \in DOMAIN live : OnionOf(live[j]) = o /\ live[j].expires >= promised[o]
    BY RegistryFacts DEF PromisesKept, PromiseKept
  <2>3. live[j].expires > now
    BY <2>1, <2>2, EntryFields
  <2>4. PICK m : Thins(m, Unexpired(live), live, {k \in 1..Len(live) : live[k].expires > now})
    BY <2>1, UnexpiredThins
  <2>5. \E i \in DOMAIN Unexpired(live) : Unexpired(live)[i] = live[j]
    BY <2>1, <2>3, <2>4 DEF Thins
  <2> QED
    BY <2>2, <2>5 DEF Serving, Listed
<1> QED
  BY <1>1, RegistryInvariant, PTL

\* No gossip, repeated record or restart keeps an entry listed, or stored, for long after
\* the time its gateway signed.
THEOREM ListingIsBounded == Spec => []ListingBounded
<1>1. RegistryInv => ListingBounded
  BY DEF RegistryInv, ListGood, FileGood, EntryGood, ListingBounded
<1> QED
  BY <1>1, RegistryInvariant, PTL

\* An entry that has not expired and is staked, or should be.
LEMMA StakeRecent ==
    ASSUME RegistryInv, NEW i \in DOMAIN live, live[i].expires > now, RequireStake \/ live[i].staked
    PROVE  /\ live[i].op \in Operators
           /\ IsStaked(reg, live[i].op) \/ now < changed[live[i].op] + Believed
<1> DEFINE o == live[i].op
<1>1. live[i].staked /\ Backed(live[i])
  BY RegistryFacts DEF AllBacked
<1>2. o \in Operators /\ (IsStaked(reg, o) \/ live[i].expires <= changed[o] + Believed)
  BY <1>1 DEF Backed
<1>3. now \in Nat /\ live[i].expires \in Nat /\ changed[o] \in Int
  BY <1>2, RegistryFacts, EntryFields
<1> HIDE DEF o
<1> QED
  BY <1>2, <1>3, Numbers DEF o

\* What is published as staked names an operator whose stake is active, or ended less
\* than Believed ago: as long as an answer may be awaited or cached and its block be
\* behind, and an entry lasts.
THEOREM ListedIsStaked == Spec => []ListedWhileStaked
<1>1. RegistryInv => ListedWhileStaked
  BY StakeRecent DEF ListedWhileStaked
<1> QED
  BY <1>1, RegistryInvariant, PTL

OnlyStaked ==
    RequireStake =>
        \A o \in Onions : Serving(o) =>
            \E i \in DOMAIN live :
                /\ OnionOf(live[i]) = o
                /\ live[i].op \in Operators
                /\ IsStaked(reg, live[i].op) \/ now < changed[live[i].op] + Believed

\* Where a stake is required, every gateway that is served is listed with such an
\* operator.
THEOREM StakeIsRequired == Spec => []OnlyStaked
<1>1. RegistryInv => OnlyStaked
  <2> SUFFICES ASSUME RegistryInv, RequireStake, NEW o \in Onions, Serving(o)
               PROVE  \E i \in DOMAIN live :
                          /\ OnionOf(live[i]) = o
                          /\ live[i].op \in Operators
                          /\ IsStaked(reg, live[i].op) \/ now < changed[live[i].op] + Believed
    BY DEF OnlyStaked
  <2>1. live \in Seq(EntryType) /\ DOMAIN live = 1..Len(live)
    BY RegistryFacts
  <2>2. /\ \E m : Thins(m, Unexpired(live), live, {k \in 1..Len(live) : live[k].expires > now})
        /\ \A i \in 1..Len(Unexpired(live)) : Unexpired(live)[i].expires > now
    BY <2>1, UnexpiredThins
  <2>3. PICK m : Thins(m, Unexpired(live), live, {k \in 1..Len(live) : live[k].expires > now})
    BY <2>2
  <2>4. PICK i \in DOMAIN Unexpired(live) : OnionOf(Unexpired(live)[i]) = o
    BY DEF Serving, Listed
  <2>5. /\ i \in 1..Len(Unexpired(live)) /\ m[i] \in DOMAIN live
        /\ Unexpired(live)[i] = live[m[i]] /\ live[m[i]].expires > now
    BY <2>1, <2>2, <2>3, <2>4 DEF Thins
  <2> QED
    BY <2>4, <2>5, StakeRecent
<1> QED
  BY <1>1, RegistryInvariant, PTL

-----------------------------------------------------------------------------
(* The directory of a client.                                              *)

Fetch == [asked : Nat, issued : Nat, source : {"none", "bootnode", "cache"}]

\* The floor is never below what was used, and one refresh is in flight.
CanopyInv ==
    /\ time \in Nat /\ floor \in Nat /\ latest \in Nat
    /\ file \subseteq Nat /\ \A i, j \in file : i = j
    /\ refresh \subseteq Fetch /\ \A d, e \in refresh : d = e
    /\ latest <= floor

\* Every step preserves CanopyInv.
LEMMA CanopyStep ==
    ASSUME CanopyInv, [CanopyNext]_canopyVars PROVE CanopyInv'
<1>1. CASE UNCHANGED canopyVars
  BY <1>1 DEF CanopyInv, canopyVars
<1>2. CASE Second
  BY <1>2 DEF CanopyInv, Second
<1>3. CASE Ask
  BY <1>3 DEF CanopyInv, Ask, Fetch
<1>4. ASSUME NEW issued \in 1..time, Fetched(issued) PROVE CanopyInv'
  <2>1. issued \in Nat
    BY DEF CanopyInv
  <2>2. refresh' \subseteq Fetch /\ \A d, e \in refresh' : d = e
    BY <1>4, <2>1 DEF CanopyInv, Fetched, Fetch
  <2>3. file' \subseteq Nat /\ \A i, j \in file' : i = j
    BY <1>4, <2>1 DEF CanopyInv, Fetched
  <2> QED
    BY <1>4, <2>2, <2>3 DEF CanopyInv, Fetched
<1>5. CASE FetchFailed
  <2>1. refresh' \subseteq Fetch /\ \A d, e \in refresh' : d = e
    <3>1. CASE refresh' = {}
      BY <3>1
    <3>2. ASSUME NEW i \in file, refresh' = {[d EXCEPT !.issued = i, !.source = "cache"] : d \in refresh}
          PROVE  refresh' \subseteq Fetch /\ \A d, e \in refresh' : d = e
      <4>1. i \in Nat
        BY DEF CanopyInv
      <4> QED
        BY <3>2, <4>1 DEF CanopyInv, Fetch
    <3> QED
      BY <1>5, <3>1, <3>2 DEF FetchFailed
  <2> QED
    BY <1>5, <2>1 DEF CanopyInv, FetchFailed
<1>6. CASE Adopt
  <2>1. PICK d \in refresh \ Awaited :
            IF Refused(d)
            THEN UNCHANGED <<loaded, floor, latest>>
            ELSE /\ loaded' = {d.issued}
                 /\ floor' = Raised(d)
                 /\ latest' = IF d.issued > latest THEN d.issued ELSE latest
    BY <1>6 DEF Adopt
  <2>2. d.issued \in Nat
    BY <2>1 DEF CanopyInv, Fetch
  <2>3. floor' \in Nat /\ latest' \in Nat /\ latest' <= floor'
    BY <2>1, <2>2 DEF CanopyInv, Raised
  <2> QED
    BY <1>6, <2>3 DEF CanopyInv, Adopt
<1>7. CASE NewSession
  BY <1>7 DEF CanopyInv, NewSession
<1> QED
  BY <1>1, <1>2, <1>3, <1>4, <1>5, <1>6, <1>7 DEF CanopyNext

\* A directory that a session adopts from a bootnode is never older than one that
\* session used before, through late answers and fallbacks to the cache.  It says
\* nothing of the sessions before: a new one starts with no floor and nothing used.
THEOREM NoRollback == CanopySpec => FreshNeverBehind
<1> DEFINE A == \A d \in refresh : loaded' # loaded /\ loaded' = {d.issued} /\ d.source # "cache"
                    => d.issued >= latest
<1>1. CanopyInit => CanopyInv
  BY DEF CanopyInit, CanopyInv
<1>2. CanopyInv /\ [CanopyNext]_canopyVars => CanopyInv'
  BY CanopyStep
<1>3. ASSUME CanopyInv, [CanopyNext]_canopyVars PROVE [A]_canopyVars
  <2> SUFFICES ASSUME NEW d \in refresh, loaded' # loaded, loaded' = {d.issued}, d.source # "cache"
               PROVE  d.issued >= latest
    OBVIOUS
  <2>1. Adopt
    <3>1. loaded' # {} /\ loaded' # loaded
      OBVIOUS
    <3>2. \A issued : Fetched(issued) => loaded' = loaded
      BY DEF Fetched
    <3>3. (Second \/ Ask \/ FetchFailed \/ UNCHANGED canopyVars) => loaded' = loaded
      BY DEF Second, Ask, FetchFailed, canopyVars
    <3>4. NewSession => loaded' = {}
      BY DEF NewSession
    <3> QED
      BY <1>3, <3>1, <3>2, <3>3, <3>4 DEF CanopyNext
  <2>2. d \in refresh \ Awaited /\ ~Refused(d)
    BY <1>3, <2>1 DEF Adopt, CanopyInv
  <2>3. d.issued \in Nat /\ ~(d.issued < floor)
    BY <1>3, <2>2 DEF Refused, CanopyInv, Fetch
  <2> QED
    BY <1>3, <2>3 DEF CanopyInv
<1> QED
  BY <1>1, <1>2, <1>3, PTL DEF CanopySpec, FreshNeverBehind

-----------------------------------------------------------------------------
(* The payment registrar.                                                  *)

\* What the theorems assume: no block is undone below the depth asked for, and
\* a buyer waits for the answer before it posts an authorization again.
Deployment == RegistrarConstants /\ ~Overlap /\ Confirmations > ReorgDepth

Tasks == Handlers \cup {Boot}

Active(r) == req[r].at # "idle"

OrderStates == {"new", "settling", "settled", "inserting", "inserted", "failed"}

OrderRecords == [a : Auths, state : OrderStates, settleTx : Nat, insertTx : Nat]

Places == {"reconcile", "read", "settle", "settleSent", "settleWait",
           "limitOf", "insert", "insertSent", "insertWait"}

TaskRecords ==
    [at : Places, a : Auths, order : Nat, tx : Nat, kind : {"none", "settling", "inserting"}]

TxRecords == [kind : {"settle", "insert"}, a : Auths, known : BOOLEAN]

\* What the variables hold.
RegistrarTyped ==
    /\ orders \in Seq(OrderRecords)
    /\ kept \in [Auths -> Nat]
    /\ \A a \in Auths : kept[a] # 0 => kept[a] \in DOMAIN orders /\ orders[kept[a]].a = a
    /\ req \in [Tasks -> TaskRecords \cup {Resting}]
    /\ todo \subseteq {a \in Auths : kept[a] # 0}
    /\ txs \in Seq(TxRecords)

\* The chain: no transaction is mined twice, and no more than ReorgDepth blocks
\* can be undone.
ChainGood ==
    /\ \E S : blocks \in Seq(S)
    /\ \A i \in DOMAIN blocks :
          {"tx", "ok"} \subseteq DOMAIN blocks[i] /\ blocks[i].tx \in Nat /\ blocks[i].ok \in BOOLEAN
    /\ \A i, j \in DOMAIN blocks : blocks[i].tx = blocks[j].tx /\ blocks[i].tx # 0 => i = j
    /\ final \in Nat
    /\ final <= Len(blocks) /\ Len(blocks) <= final + ReorgDepth

\* What became of a transaction, for good.
Done(t) == \E i \in DOMAIN blocks : i <= final /\ blocks[i].tx = t /\ blocks[i].ok

Dead(t) == \E i \in DOMAIN blocks : i <= final /\ blocks[i].tx = t /\ ~blocks[i].ok

\* A transaction of one kind for one authorization.
Sent(t, kind, a) == t \in DOMAIN txs /\ txs[t].kind = kind /\ txs[t].a = a

PaidStates == {"settled", "inserting", "inserted"}

\* An order in the store: it is past its first put, and what it waits for is
\* its own; one that counts as paid was paid for good.
BookGood(a) ==
    kept[a] # 0 =>
        /\ orders[kept[a]].state # "new"
        /\ orders[kept[a]].state = "settling" => Sent(orders[kept[a]].settleTx, "settle", a)
        /\ orders[kept[a]].state = "inserting" => Sent(orders[kept[a]].insertTx, "insert", a)
        /\ orders[kept[a]].state \in PaidStates => \E t \in DOMAIN txs : Sent(t, "settle", a) /\ Done(t)

\* A transaction whose hash was stored has failed for good, or the order kept
\* for it still accounts for it.
TxGood(t) ==
    txs[t].known =>
        \/ Dead(t)
        \/ /\ txs[t].kind = "settle" /\ kept[txs[t].a] # 0
           /\ \/ orders[kept[txs[t].a]].state \in PaidStates
              \/ orders[kept[txs[t].a]].state = "settling" /\ orders[kept[txs[t].a]].settleTx = t
        \/ /\ txs[t].kind = "insert" /\ kept[txs[t].a] # 0
           /\ orders[kept[txs[t].a]].state \in {"inserting", "inserted"}
           /\ orders[kept[txs[t].a]].insertTx = t

\* The order at hand is the one in the store.
Holds(r) == req[r].order = kept[req[r].a] /\ kept[req[r].a] # 0

\* What a task may rely on between its awaits.
TaskGood(r) ==
    /\ req[r].at = "read" =>
          /\ req[r].order = kept[req[r].a]
          /\ kept[req[r].a] # 0 => Order(r).state = "failed"
    /\ req[r].at \in {"settle", "settleSent"} =>
          /\ req[r].order \in DOMAIN orders
          /\ Order(r).a = req[r].a
          /\ \/ Holds(r) /\ Order(r).state = "failed"
             \/ kept[req[r].a] = 0 /\ Order(r).state = "new" /\ Order(r).settleTx = 0
    /\ req[r].at = "settleSent" => Sent(req[r].tx, "settle", req[r].a)
    /\ req[r].at = "settleWait" =>
          Holds(r) /\ Order(r).state = "settling" /\ Order(r).settleTx = req[r].tx
    /\ req[r].at = "reconcile" =>
          /\ Holds(r) /\ req[r].kind \in Pending
          /\ Order(r).state = req[r].kind /\ req[r].tx = Pursued(req[r].order)
    /\ req[r].at \in {"limitOf", "insert", "insertSent"} => Holds(r) /\ Order(r).state = "settled"
    /\ req[r].at = "insertSent" => Sent(req[r].tx, "insert", req[r].a)
    /\ req[r].at = "insertWait" =>
          Holds(r) /\ Order(r).state = "inserting" /\ Order(r).insertTx = req[r].tx

\* No two tasks are at work on one authorization, and requests wait for recover().
Alone ==
    /\ \A r, s \in Tasks : Active(r) /\ Active(s) /\ req[r].a = req[s].a => r = s
    /\ todo # {} \/ Active(Boot) => \A h \in Handlers : ~Active(h)

\* The inductive invariant.
RegistrarInv ==
    /\ RegistrarTyped /\ ChainGood /\ Alone
    /\ \A a \in Auths : BookGood(a)
    /\ \A t \in DOMAIN txs : TxGood(t)
    /\ \A r \in Tasks : TaskGood(r)

\* Only transactions of a change.
SameTxs(a) ==
    /\ txs' \in Seq(TxRecords) /\ DOMAIN txs' = DOMAIN txs
    /\ \A t \in DOMAIN txs : txs'[t].kind = txs[t].kind /\ txs'[t].a = txs[t].a
    /\ \A t \in DOMAIN txs : txs[t].a # a => txs'[t] = txs[t]

\* A step of task r, at work on a, changes nothing of the others.
Local(r, a) ==
    /\ UNCHANGED <<blocks, final>>
    /\ DOMAIN orders \subseteq DOMAIN orders'
    /\ \A i \in DOMAIN orders : orders[i].a # a => orders'[i] = orders[i]
    /\ \A b \in Auths : b # a => kept'[b] = kept[b]
    /\ DOMAIN txs \subseteq DOMAIN txs'
    /\ \A t \in DOMAIN txs : txs'[t].kind = txs[t].kind /\ txs'[t].a = txs[t].a
    /\ \A t \in DOMAIN txs : txs[t].a # a => txs'[t] = txs[t]
    /\ \A t \in DOMAIN txs' : t \notin DOMAIN txs => ~txs'[t].known
    /\ \A s \in Tasks : s # r => req'[s] = req[s]

\* The order n may replace the one that r has at hand.
Booked(r, n) ==
    /\ n \in OrderRecords /\ n.a = req[r].a /\ n.state # "new"
    /\ n.state = "settling" => Sent(n.settleTx, "settle", n.a)
    /\ n.state = "inserting" => Sent(n.insertTx, "insert", n.a)
    /\ n.state \in PaidStates => \E t \in DOMAIN txs : Sent(t, "settle", n.a) /\ Done(t)
    /\ StateOf(n.a) \in {"settled", "inserting"} => n.state \in PaidStates
    /\ StateOf(n.a) # "inserted"

\* With n in the store, every stored hash of its authorization is accounted for.
Accounted(n) ==
    \A t \in DOMAIN txs : txs'[t].known /\ txs[t].a = n.a =>
        \/ Dead(t)
        \/ txs[t].kind = "settle" /\ n.state \in PaidStates
        \/ txs[t].kind = "settle" /\ n.state = "settling" /\ n.settleTx = t
        \/ txs[t].kind = "insert" /\ n.state \in {"inserting", "inserted"} /\ n.insertTx = t

\* After n was put the task goes on as q.
GoesOn(r, n, q) ==
    \/ q = Resting
    \/ /\ q \in TaskRecords /\ q.a = n.a /\ q.order = req[r].order
       /\ \/ q.at = "limitOf" /\ n.state = "settled"
          \/ q.at = "read" /\ n.state = "failed"
          \/ q.at = "settleWait" /\ n.state = "settling" /\ n.settleTx = q.tx
          \/ q.at = "insertWait" /\ n.state = "inserting" /\ n.insertTx = q.tx

\* The constants of the registrar.
LEMMA ConstantTypes ==
    ASSUME Deployment
    PROVE  /\ Confirmations \in Nat /\ ReorgDepth \in Nat /\ Confirmations > ReorgDepth
           /\ Boot \notin Handlers /\ ~Overlap
BY DEF Deployment, RegistrarConstants

\* At the depth the registrar waits for, a receipt is final.
LEMMA FinalReceipt ==
    ASSUME Deployment, ChainGood, NEW t \in Nat \ {0}, Confirmed(t)
    PROVE  /\ Succeeded(t) => Done(t)
           /\ ~Succeeded(t) => Dead(t)
<1>1. PICK S : blocks \in Seq(S)
  BY DEF ChainGood
<1>2. PICK i \in DOMAIN blocks : blocks[i].tx = t /\ Len(blocks) - i + 1 >= Confirmations
  BY DEF Confirmed, Height
<1>3. i <= final
  BY <1>1, <1>2, ConstantTypes DEF ChainGood
<1>4. ASSUME Succeeded(t) PROVE Done(t)
  BY <1>2, <1>3, <1>4 DEF Succeeded, Height, Done, ChainGood
<1>5. ASSUME ~Succeeded(t) PROVE Dead(t)
  BY <1>2, <1>3, <1>5 DEF Succeeded, Height, Dead, ChainGood
<1> QED
  BY <1>4, <1>5

\* What failed for good has not succeeded,
LEMMA DeadFails ==
    ASSUME ChainGood, NEW t \in Nat \ {0}, Dead(t)
    PROVE  ~Succeeded(t)
BY DEF ChainGood, Dead, Succeeded, Height

\* and what succeeded for good has.
LEMMA DoneSucceeds ==
    ASSUME NEW t, Done(t)
    PROVE  Succeeded(t)
BY DEF Done, Succeeded, Height

\* The state after the last block.
LEMMA LatestGood ==
    ASSUME ChainGood
    PROVE  {"tx", "ok"} \subseteq DOMAIN Latest /\ Latest.ok \in BOOLEAN
<1>1. PICK S : blocks \in Seq(S)
  BY DEF ChainGood
<1>2. CASE blocks = << >>
  BY <1>2 DEF Latest, Genesis
<1>3. CASE blocks # << >>
  <2>1. Len(blocks) \in DOMAIN blocks
    BY <1>1, <1>3
  <2> QED
    BY <1>3, <2>1 DEF Latest, ChainGood
<1> QED
  BY <1>2, <1>3

\* A block is appended: what was final stays final.
LEMMA BlockKeeps ==
    ASSUME Deployment, ChainGood, NEW b, {"tx", "ok"} \subseteq DOMAIN b, b.tx \in Nat, b.ok \in BOOLEAN,
           b.tx = 0 \/ ~IsMined(b.tx), Block(b)
    PROVE  ChainGood' /\ \A t : (Done(t) => Done(t)') /\ (Dead(t) => Dead(t)')
<1>1. PICK S : blocks \in Seq(S)
  BY DEF ChainGood
<1>2. /\ blocks \in Seq(S \cup {b}) /\ b \in S \cup {b} /\ blocks' = Append(blocks, b)
      /\ Len(blocks) \in Nat /\ DOMAIN blocks = 1..Len(blocks)
  BY <1>1 DEF Block
<1>3. /\ blocks' \in Seq(S \cup {b}) /\ Len(blocks') = Len(blocks) + 1
      /\ DOMAIN blocks' = 1..(Len(blocks) + 1)
      /\ \A i \in 1..Len(blocks) : blocks'[i] = blocks[i]
      /\ blocks'[Len(blocks) + 1] = b
  BY <1>2
<1>4. /\ final \in Nat /\ final' \in Nat /\ final <= final'
      /\ final <= Len(blocks) /\ final' <= Len(blocks') /\ Len(blocks') <= final' + ReorgDepth
  BY <1>2, <1>3, ConstantTypes DEF ChainGood, Block
<1>5. ASSUME NEW t PROVE (Done(t) => Done(t)') /\ (Dead(t) => Dead(t)')
  BY <1>2, <1>3, <1>4 DEF Done, Dead
<1>6. \A i \in DOMAIN blocks' :
          {"tx", "ok"} \subseteq DOMAIN blocks'[i] /\ blocks'[i].tx \in Nat /\ blocks'[i].ok \in BOOLEAN
  BY <1>2, <1>3 DEF ChainGood
<1>7. \A i \in 1..Len(blocks) : b.tx # 0 => blocks[i].tx # b.tx
  BY <1>2 DEF IsMined, Height
<1>8. ASSUME NEW i \in DOMAIN blocks', NEW j \in DOMAIN blocks',
             blocks'[i].tx = blocks'[j].tx, blocks'[i].tx # 0
      PROVE  i = j
  BY <1>2, <1>3, <1>7, <1>8 DEF ChainGood
<1> QED
  BY <1>3, <1>4, <1>5, <1>6, <1>8 DEF ChainGood

\* The last block is undone: it was not final.
LEMMA ReorgKeeps ==
    ASSUME Deployment, ChainGood, Reorg
    PROVE  ChainGood' /\ \A t : (Done(t) => Done(t)') /\ (Dead(t) => Dead(t)')
<1>1. PICK S : blocks \in Seq(S)
  BY DEF ChainGood
<1>2. /\ Len(blocks) \in Nat /\ DOMAIN blocks = 1..Len(blocks)
      /\ final \in Nat /\ final < Len(blocks) /\ final' = final /\ Len(blocks) <= final + ReorgDepth
      /\ blocks' = SubSeq(blocks, 1, Len(blocks) - 1)
  BY <1>1 DEF ChainGood, Reorg
<1>3. /\ blocks' \in Seq(S) /\ Len(blocks') = Len(blocks) - 1
      /\ DOMAIN blocks' = 1..(Len(blocks) - 1)
      /\ \A i \in 1..(Len(blocks) - 1) : blocks'[i] = blocks[i]
  BY <1>1, <1>2
<1>10. \A i \in DOMAIN blocks : i <= final => i \in DOMAIN blocks' /\ blocks'[i] = blocks[i]
  BY <1>2, <1>3
<1>4. ASSUME NEW t PROVE (Done(t) => Done(t)') /\ (Dead(t) => Dead(t)')
  BY <1>2, <1>10 DEF Done, Dead
<1>5. final' <= Len(blocks') /\ Len(blocks') <= final' + ReorgDepth
  BY <1>2, <1>3, ConstantTypes
<1>6. DOMAIN blocks' \subseteq DOMAIN blocks /\ \A i \in DOMAIN blocks' : blocks'[i] = blocks[i]
  BY <1>2, <1>3
<1>7. \E T : blocks' \in Seq(T)
  BY <1>3
<1>8. \A i \in DOMAIN blocks' :
          {"tx", "ok"} \subseteq DOMAIN blocks'[i] /\ blocks'[i].tx \in Nat /\ blocks'[i].ok \in BOOLEAN
  BY <1>6 DEF ChainGood
<1>9. \A i, j \in DOMAIN blocks' : blocks'[i].tx = blocks'[j].tx /\ blocks'[i].tx # 0 => i = j
  BY <1>6 DEF ChainGood
<1> QED
  BY <1>2, <1>4, <1>5, <1>7, <1>8, <1>9 DEF ChainGood

\* The invariant outlives any change of the chain that keeps what is final.
LEMMA ChainStepKeeps ==
    ASSUME RegistrarInv, ChainGood', UNCHANGED <<process, txs>>,
           \A t : (Done(t) => Done(t)') /\ (Dead(t) => Dead(t)')
    PROVE  RegistrarInv' /\ StaysPaid
<1>1. /\ orders' = orders /\ kept' = kept /\ inflight' = inflight /\ req' = req
      /\ todo' = todo /\ txs' = txs
  BY DEF process
<1>2. RegistrarTyped' /\ Alone'
  BY <1>1 DEF RegistrarInv, RegistrarTyped, Alone, Active
<1>3. ASSUME NEW a \in Auths PROVE BookGood(a)'
  BY <1>1 DEF RegistrarInv, BookGood, Sent
<1>4. ASSUME NEW t \in DOMAIN txs' PROVE TxGood(t)'
  BY <1>1 DEF RegistrarInv, TxGood
<1>5. ASSUME NEW r \in Tasks PROVE TaskGood(r)'
  <2>1. TaskGood(r)
    BY DEF RegistrarInv
  <2> QED
    BY <1>1, <2>1 DEF TaskGood, Order, Holds, Pursued, Sent
<1>6. StaysPaid
  BY <1>1 DEF StaysPaid, StateOf
<1> QED
  BY <1>2, <1>3, <1>4, <1>5, <1>6 DEF RegistrarInv

\* Mining, the blocks of others and reorganizations.
LEMMA ChainNextKeeps ==
    ASSUME Deployment, RegistrarInv, (\E t \in DOMAIN txs : Mine(t)) \/ MineOther \/ Reorg
    PROVE  RegistrarInv' /\ StaysPaid
<1>1. ChainGood /\ txs \in Seq(TxRecords)
  BY DEF RegistrarInv, RegistrarTyped
<1>2. {"tx", "ok"} \subseteq DOMAIN Latest /\ Latest.ok \in BOOLEAN
  BY <1>1, LatestGood
<1> DEFINE Stable == ChainGood' /\ \A t : (Done(t) => Done(t)') /\ (Dead(t) => Dead(t)')
<1>3. ASSUME NEW t \in DOMAIN txs, Mine(t) PROVE Stable /\ UNCHANGED <<process, txs>>
  <2>1. t \in Nat
    BY <1>1
  <2>4. ~IsMined(t) /\ UNCHANGED <<process, txs>>
    BY <1>3 DEF Mine
  <2>2. \E b : /\ {"tx", "ok"} \subseteq DOMAIN b /\ b.tx = t /\ b.ok \in BOOLEAN
               /\ Block(b)
    <3>1. CASE \E S, U : Block([tx |-> t, ok |-> TRUE, set |-> S, used |-> U])
      <4>1. PICK S, U : Block([tx |-> t, ok |-> TRUE, set |-> S, used |-> U])
        BY <3>1
      <4> WITNESS [tx |-> t, ok |-> TRUE, set |-> S, used |-> U]
      <4> QED
        BY <4>1
    <3>2. CASE Block([Latest EXCEPT !.tx = t, !.ok = FALSE])
      <4> DEFINE b == [Latest EXCEPT !.tx = t, !.ok = FALSE]
      <4>1. DOMAIN b = DOMAIN Latest /\ b.tx = t /\ b.ok = FALSE
        BY <1>2
      <4> QED
        BY <3>2, <4>1, <1>2
    <3> QED
      BY <1>3, <3>1, <3>2 DEF Mine
  <2>3. PICK b : {"tx", "ok"} \subseteq DOMAIN b /\ b.tx = t /\ b.ok \in BOOLEAN /\ Block(b)
    BY <2>2
  <2> QED
    BY <1>1, <2>1, <2>3, <2>4, BlockKeeps
<1>4. ASSUME MineOther PROVE Stable /\ UNCHANGED <<process, txs>>
  <2>1. \E b : {"tx", "ok"} \subseteq DOMAIN b /\ b.tx = 0 /\ b.ok \in BOOLEAN /\ Block(b)
    <3>1. CASE Block([Latest EXCEPT !.tx = 0])
      <4> DEFINE b == [Latest EXCEPT !.tx = 0]
      <4>1. DOMAIN b = DOMAIN Latest /\ b.tx = 0 /\ b.ok = Latest.ok
        BY <1>2
      <4> QED
        BY <3>1, <4>1, <1>2
    <3>2. ASSUME NEW S, Block([Latest EXCEPT !.tx = 0, !.set = S])
          PROVE  \E b : {"tx", "ok"} \subseteq DOMAIN b /\ b.tx = 0 /\ b.ok \in BOOLEAN /\ Block(b)
      <4> DEFINE b == [Latest EXCEPT !.tx = 0, !.set = S]
      <4>1. DOMAIN b = DOMAIN Latest /\ b.tx = 0 /\ b.ok = Latest.ok
        BY <1>2
      <4> QED
        BY <3>2, <4>1, <1>2
    <3> QED
      BY <1>4, <3>1, <3>2 DEF MineOther
  <2>2. PICK b : {"tx", "ok"} \subseteq DOMAIN b /\ b.tx = 0 /\ b.ok \in BOOLEAN /\ Block(b)
    BY <2>1
  <2>3. UNCHANGED <<process, txs>>
    BY <1>4 DEF MineOther
  <2> QED
    BY <1>1, <2>2, <2>3, BlockKeeps
<1>5. ASSUME Reorg PROVE Stable /\ UNCHANGED <<process, txs>>
  BY <1>1, <1>5, ReorgKeeps DEF Reorg
<1>6. Stable /\ UNCHANGED <<process, txs>>
  BY <1>3, <1>4, <1>5
<1> QED
  BY <1>6, ChainStepKeeps

\* A step of a task need only answer for its own authorization.
LEMMA StepKeeps ==
    ASSUME Deployment, RegistrarInv, NEW r \in Tasks, Active(r),
           NEW a \in Auths, req[r].a = a, Local(r, a),
           RegistrarTyped', todo' \subseteq todo,
           req'[r] = Resting \/ req'[r].a = a,
           BookGood(a)', TaskGood(r)',
           \A t \in DOMAIN txs' : txs'[t].a = a => TxGood(t)'
    PROVE  RegistrarInv'
<1>1. RegistrarTyped /\ ChainGood /\ Alone
  BY DEF RegistrarInv
<1>2. ChainGood' /\ \A t : (Done(t)' <=> Done(t)) /\ (Dead(t)' <=> Dead(t))
  BY <1>1 DEF Local, ChainGood, Done, Dead
<1>3. \A i \in DOMAIN orders : orders[i].a # a => i \in DOMAIN orders' /\ orders'[i] = orders[i]
  BY DEF Local
<1>4. \A t, k, b : Sent(t, k, b) => Sent(t, k, b)'
  BY DEF Local, Sent
<1>5. ASSUME NEW b \in Auths, b # a, kept[b] # 0
      PROVE  kept'[b] = kept[b] /\ orders'[kept[b]] = orders[kept[b]]
  BY <1>1, <1>3, <1>5 DEF Local, RegistrarTyped
<1>6. \A b \in Auths : b # a => kept'[b] = kept[b]
  BY DEF Local
<1>7. ASSUME NEW b \in Auths PROVE BookGood(b)'
  <2>1. CASE b = a
    BY <2>1
  <2>2. CASE b # a
    <3> SUFFICES ASSUME kept'[b] # 0 PROVE BookGood(b)'
      BY DEF BookGood
    <3>1. kept[b] # 0 /\ kept'[b] = kept[b] /\ orders'[kept[b]] = orders[kept[b]]
      BY <2>2, <1>5, <1>6
    <3>2. BookGood(b)
      BY DEF RegistrarInv
    <3>3. DOMAIN txs \subseteq DOMAIN txs'
      BY DEF Local
    <3> QED
      BY <3>1, <3>2, <3>3, <1>2, <1>4 DEF BookGood
  <2> QED
    BY <2>1, <2>2
<1>8. ASSUME NEW t \in DOMAIN txs' PROVE TxGood(t)'
  <2> SUFFICES ASSUME txs'[t].known, txs'[t].a # a PROVE TxGood(t)'
    BY DEF TxGood
  <2>1. t \in DOMAIN txs /\ txs'[t] = txs[t] /\ txs[t].a # a
    BY DEF Local
  <2>5. txs[t] \in TxRecords
    BY <2>1, <1>1 DEF RegistrarTyped
  <2>2. txs[t].a \in Auths
    BY <2>5 DEF TxRecords
  <2>3. TxGood(t)
    BY <2>1 DEF RegistrarInv
  <2>4. kept[txs[t].a] # 0 => /\ kept'[txs[t].a] = kept[txs[t].a]
                              /\ orders'[kept[txs[t].a]] = orders[kept[txs[t].a]]
    BY <2>1, <2>2, <1>5
  <2> QED
    BY <2>1, <2>3, <2>4, <1>2 DEF TxGood
<1>9. ASSUME NEW s \in Tasks PROVE TaskGood(s)'
  <2>1. CASE s = r
    BY <2>1
  <2>2. CASE s # r /\ ~Active(s)
    BY <2>2 DEF Local, Active, TaskGood
  <2>3. CASE s # r /\ Active(s)
    <3>1. req'[s] = req[s] /\ req[s].a # a /\ req[s].a \in Auths
      BY <1>1, <2>3 DEF Local, Alone, RegistrarTyped, Active, Resting, TaskRecords
    <3>2. TaskGood(s)
      BY DEF RegistrarInv
    <3>3. kept'[req[s].a] = kept[req[s].a]
      BY <3>1, <1>6
    <3>4. Holds(s) => orders'[req[s].order] = orders[req[s].order]
      BY <3>1, <1>5 DEF Holds
    <3>5. req[s].order \in DOMAIN orders /\ orders[req[s].order].a = req[s].a =>
             req[s].order \in DOMAIN orders' /\ orders'[req[s].order] = orders[req[s].order]
      BY <3>1, <1>3
    <3>6. (req[s].at = "read" => /\ req[s].order = kept[req[s].a]
                                 /\ kept[req[s].a] # 0 => Order(s).state = "failed")'
      BY <3>1, <3>2, <3>3, <3>4 DEF TaskGood, Order, Holds
    <3>7. (req[s].at \in {"settle", "settleSent"} =>
              /\ req[s].order \in DOMAIN orders
              /\ Order(s).a = req[s].a
              /\ \/ Holds(s) /\ Order(s).state = "failed"
                 \/ kept[req[s].a] = 0 /\ Order(s).state = "new" /\ Order(s).settleTx = 0)'
      BY <3>1, <3>2, <3>3, <3>5 DEF TaskGood, Order, Holds
    <3>8. /\ (req[s].at = "settleSent" => Sent(req[s].tx, "settle", req[s].a))'
          /\ (req[s].at = "insertSent" => Sent(req[s].tx, "insert", req[s].a))'
      BY <3>1, <3>2, <1>4 DEF TaskGood
    <3>9. req[s].at \in {"settleWait", "reconcile", "limitOf", "insert", "insertSent", "insertWait"} =>
             Holds(s) /\ Holds(s)' /\ orders'[req[s].order] = orders[req[s].order]
      BY <3>1, <3>2, <3>3, <3>4 DEF TaskGood, Holds
    <3> QED
      BY <3>1, <3>2, <3>6, <3>7, <3>8, <3>9 DEF TaskGood, Order, Pursued
  <2> QED
    BY <2>1, <2>2, <2>3
<1>10. Alone'
  <2>1. \A s \in Tasks : Active(s)' => Active(s) /\ req'[s].a = req[s].a
    BY DEF Local, Active, Resting
  <2>2. \A h \in Handlers : h \in Tasks
    BY DEF Tasks
  <2>3. Boot \in Tasks
    BY DEF Tasks
  <2> QED
    BY <1>1, <2>1, <2>2, <2>3 DEF Alone
<1> QED
  BY <1>2, <1>7, <1>8, <1>9, <1>10 DEF RegistrarInv

\* The fields of a task.
LEMMA TaskTypes ==
    ASSUME RegistrarInv, NEW r \in Tasks, Active(r)
    PROVE  req[r] \in TaskRecords /\ req[r].a \in Auths
BY DEF RegistrarInv, RegistrarTyped, Active, Resting, TaskRecords

\* A step that moves a task only.
LEMMA QuietKeeps ==
    ASSUME Deployment, RegistrarInv, NEW r \in Tasks, Active(r),
           NEW q \in TaskRecords \cup {Resting}, q = Resting \/ q.a = req[r].a,
           UNCHANGED <<orders, kept, world>>, todo' \subseteq todo,
           Goto(r, q), TaskGood(r)'
    PROVE  RegistrarInv' /\ StaysPaid
<1> DEFINE a == req[r].a
<1>1. /\ orders' = orders /\ kept' = kept /\ txs' = txs /\ blocks' = blocks /\ final' = final
      /\ req' = [req EXCEPT ![r] = q]
  BY DEF world, Goto
<1>2. RegistrarTyped /\ a \in Auths
  BY TaskTypes DEF RegistrarInv
<1>3. req'[r] = q /\ \A s \in Tasks : s # r => req'[s] = req[s]
  BY <1>1, <1>2 DEF RegistrarTyped
<1>4. RegistrarTyped'
  BY <1>1, <1>2 DEF RegistrarTyped
<1>5. ASSUME NEW b \in Auths PROVE BookGood(b)'
  BY <1>1 DEF RegistrarInv, BookGood, Sent, Done
<1>6. ASSUME NEW t \in DOMAIN txs' PROVE TxGood(t)'
  BY <1>1 DEF RegistrarInv, TxGood, Dead
<1>7. Local(r, a)
  BY <1>1, <1>3 DEF Local
<1>8. StaysPaid
  BY <1>1 DEF StaysPaid, StateOf
<1>9. PICK b \in Auths : b = a
  BY <1>2
<1> HIDE DEF a
<1> QED
  BY <1>3, <1>4, <1>5, <1>6, <1>7, <1>8, <1>9, StepKeeps DEF a

\* A sequence with one element replaced.
LEMMA SeqUpdated ==
    ASSUME NEW S, NEW s \in Seq(S), NEW i \in DOMAIN s, NEW e \in S
    PROVE  /\ [s EXCEPT ![i] = e] \in Seq(S)
           /\ DOMAIN [s EXCEPT ![i] = e] = DOMAIN s
           /\ [s EXCEPT ![i] = e][i] = e
           /\ \A j \in DOMAIN s : j # i => [s EXCEPT ![i] = e][j] = s[j]
OBVIOUS

\* A step that puts an order: what is to be shown of the new order.
LEMMA PutKeeps ==
    ASSUME Deployment, RegistrarInv, NEW r \in Tasks, Active(r),
           req[r].order \in DOMAIN orders, Order(r).a = req[r].a,
           NEW n, Booked(r, n), Put(r, n),
           UNCHANGED <<blocks, final>>, SameTxs(req[r].a), Accounted(n), todo' \subseteq todo,
           NEW q, GoesOn(r, n, q), Goto(r, q)
    PROVE  RegistrarInv' /\ StaysPaid
<1>1. RegistrarTyped /\ req[r].a \in Auths
  BY TaskTypes DEF RegistrarInv
<1>2. PICK a \in Auths : a = req[r].a
  BY <1>1
<1>3. PICK o \in DOMAIN orders : o = req[r].order
  OBVIOUS
<1>4. n \in OrderRecords /\ n.a = a /\ o # 0 /\ o \in Nat /\ orders[o].a = a
  BY <1>1, <1>2, <1>3 DEF Booked, RegistrarTyped, Order
<1>5. /\ orders' \in Seq(OrderRecords) /\ DOMAIN orders' = DOMAIN orders
      /\ orders'[o] = n /\ \A i \in DOMAIN orders : i # o => orders'[i] = orders[i]
  BY <1>1, <1>3, <1>4, SeqUpdated DEF Put, RegistrarTyped
<1>6. /\ kept' \in [Auths -> Nat] /\ kept'[a] = o
      /\ \A b \in Auths : b # a => kept'[b] = kept[b]
  BY <1>1, <1>2, <1>3, <1>4 DEF Put, RegistrarTyped
<1>7. q \in TaskRecords \cup {Resting} /\ (q = Resting \/ q.a = a)
  BY <1>4 DEF GoesOn
<1>8. /\ req' \in [Tasks -> TaskRecords \cup {Resting}] /\ req'[r] = q
      /\ \A s \in Tasks : s # r => req'[s] = req[s]
  BY <1>1, <1>7 DEF Goto, RegistrarTyped
<1>9. \A b \in Auths : kept'[b] # 0 => kept'[b] \in DOMAIN orders' /\ orders'[kept'[b]].a = b
  <2> SUFFICES ASSUME NEW b \in Auths, kept'[b] # 0
               PROVE  kept'[b] \in DOMAIN orders' /\ orders'[kept'[b]].a = b
    OBVIOUS
  <2>1. CASE b = a
    BY <2>1, <1>4, <1>5, <1>6
  <2>2. CASE b # a
    <3>1. kept'[b] = kept[b] /\ kept[b] \in DOMAIN orders /\ orders[kept[b]].a = b
      BY <2>2, <1>1, <1>6 DEF RegistrarTyped
    <3> QED
      BY <3>1, <2>2, <1>4, <1>5
  <2> QED
    BY <2>1, <2>2
<1>10. todo' \subseteq {b \in Auths : kept'[b] # 0}
  BY <1>1, <1>4, <1>6 DEF RegistrarTyped
<1>11. RegistrarTyped'
  BY <1>5, <1>6, <1>8, <1>9, <1>10 DEF RegistrarTyped, SameTxs
<1>12. Local(r, a)
  <2>1. \A i \in DOMAIN orders : orders[i].a # a => orders'[i] = orders[i]
    BY <1>4, <1>5
  <2> QED
    BY <2>1, <1>2, <1>5, <1>6, <1>8 DEF Local, SameTxs
<1>13. \A t : Done(t)' <=> Done(t)
  BY DEF Done
<1>14. \A t : Dead(t)' <=> Dead(t)
  BY DEF Dead
<1>15. \A t, k : Sent(t, k, a) => Sent(t, k, a)'
  BY DEF Sent, SameTxs
<1>16. BookGood(a)'
  BY <1>4, <1>5, <1>6, <1>13, <1>15 DEF BookGood, Booked, SameTxs
<1>17. TaskGood(r)'
  <2>1. CASE q = Resting
    BY <2>1, <1>8 DEF TaskGood, Resting
  <2>2. CASE q # Resting
    <3>1. q.order = o /\ q.a = a /\ \/ q.at = "limitOf" /\ n.state = "settled"
                                    \/ q.at = "read" /\ n.state = "failed"
                                    \/ q.at = "settleWait" /\ n.state = "settling" /\ n.settleTx = q.tx
                                    \/ q.at = "insertWait" /\ n.state = "inserting" /\ n.insertTx = q.tx
      BY <2>2, <1>3, <1>4 DEF GoesOn
    <3> QED
      BY <3>1, <1>4, <1>5, <1>6, <1>8 DEF TaskGood, Holds, Order
  <2> QED
    BY <2>1, <2>2
<1>18. ASSUME NEW t \in DOMAIN txs', txs'[t].a = a PROVE TxGood(t)'
  <2>1. t \in DOMAIN txs /\ txs'[t].kind = txs[t].kind /\ txs[t].a = n.a
    BY <1>4, <1>18 DEF SameTxs
  <2> QED
    BY <2>1, <1>4, <1>5, <1>6, <1>14, <1>18 DEF TxGood, Accounted
<1>19. StaysPaid
  <2>1. DOMAIN kept = Auths
    BY <1>1 DEF RegistrarTyped
  <2>2. ASSUME NEW b \in Auths, b # a PROVE StateOf(b)' = StateOf(b)
    <3>1. kept'[b] = kept[b] /\ (kept[b] # 0 => kept[b] \in DOMAIN orders /\ orders[kept[b]].a = b)
      BY <2>2, <1>1, <1>6 DEF RegistrarTyped
    <3>2. kept[b] # 0 => orders'[kept[b]] = orders[kept[b]]
      BY <2>2, <3>1, <1>4, <1>5
    <3> QED
      BY <3>1, <3>2 DEF StateOf
  <2>3. StateOf(a)' = n.state
    BY <1>4, <1>5, <1>6 DEF StateOf
  <2>4. /\ StateOf(a) \in {"settled", "inserting"} => n.state \in {"settled", "inserting", "inserted"}
        /\ StateOf(a) # "inserted"
    BY <1>4 DEF Booked, PaidStates
  <2> QED
    BY <2>1, <2>2, <2>3, <2>4 DEF StaysPaid
<1> QED
  BY <1>2, <1>7, <1>8, <1>11, <1>12, <1>16, <1>17, <1>18, <1>19, StepKeeps

\* The order at hand, when it is the one in the store.
LEMMA HeldOrder ==
    ASSUME RegistrarInv, NEW r \in Tasks, Active(r), Holds(r)
    PROVE  /\ req[r].order \in DOMAIN orders /\ req[r].order = kept[req[r].a] /\ kept[req[r].a] # 0
           /\ Order(r) \in OrderRecords /\ Order(r).a = req[r].a
           /\ BookGood(req[r].a) /\ StateOf(req[r].a) = Order(r).state
<1>1. req[r].a \in Auths /\ RegistrarTyped /\ BookGood(req[r].a)
  BY TaskTypes DEF RegistrarInv
<1>2. kept[req[r].a] \in DOMAIN orders /\ orders[kept[req[r].a]].a = req[r].a
  BY <1>1 DEF Holds, RegistrarTyped
<1>3. orders[kept[req[r].a]] \in OrderRecords
  BY <1>1, <1>2 DEF RegistrarTyped
<1> QED
  BY <1>1, <1>2, <1>3 DEF Holds, Order, StateOf

\* What the state of the stored order says of a stored hash.
LEMMA KnownAccounted ==
    ASSUME RegistrarInv, NEW a \in Auths, NEW t \in DOMAIN txs, txs[t].known, txs[t].a = a
    PROVE  /\ txs[t].kind \in {"settle", "insert"}
           /\ \/ Dead(t)
              \/ txs[t].kind = "settle" /\ StateOf(a) \in PaidStates
              \/ txs[t].kind = "settle" /\ StateOf(a) = "settling" /\ orders[kept[a]].settleTx = t
              \/ /\ txs[t].kind = "insert" /\ StateOf(a) \in {"inserting", "inserted"}
                 /\ orders[kept[a]].insertTx = t
<1>1. txs[t] \in TxRecords
  BY DEF RegistrarInv, RegistrarTyped
<1>2. TxGood(t)
  BY DEF RegistrarInv
<1> QED
  BY <1>1, <1>2 DEF TxGood, TxRecords, StateOf

\* A step that sends and learns nothing.
LEMMA UnchangedTxs ==
    ASSUME RegistrarInv, UNCHANGED txs, NEW a
    PROVE  SameTxs(a)
BY DEF RegistrarInv, RegistrarTyped, SameTxs

\* A task that ends leaves recover() no more to do.
LEMMA FinishFrees ==
    ASSUME NEW r, Finish(r) \/ Answer(r)
    PROVE  todo' \subseteq todo /\ Goto(r, Resting)
BY DEF Finish, Answer

\* The catch around insertLeaf() puts the order as it is.
LEMMA PutAgain ==
    ASSUME Deployment, RegistrarInv, NEW r \in Tasks, Active(r), Holds(r),
           Order(r).state # "inserted", Put(r, Order(r)), UNCHANGED world,
           todo' \subseteq todo, Goto(r, Resting)
    PROVE  RegistrarInv' /\ StaysPaid
<1> DEFINE a == req[r].a
<1>1. /\ req[r].order \in DOMAIN orders /\ req[r].order = kept[a] /\ kept[a] # 0
      /\ Order(r) \in OrderRecords /\ Order(r).a = a
      /\ BookGood(a) /\ StateOf(a) = Order(r).state /\ a \in Auths
  BY HeldOrder, TaskTypes
<1>2. Booked(r, Order(r))
  BY <1>1 DEF Booked, BookGood, PaidStates, Order
<1>3. txs' = txs /\ UNCHANGED <<blocks, final>> /\ SameTxs(a)
  BY UnchangedTxs DEF world
<1>4. Accounted(Order(r))
  BY <1>1, <1>3, KnownAccounted DEF Accounted, Order
<1>5. GoesOn(r, Order(r), Resting)
  BY DEF GoesOn
<1> QED
  BY <1>1, <1>2, <1>3, <1>4, <1>5, PutKeeps

\* An order fails: nothing it sent can be mined as a payment.
LEMMA BookFailed ==
    ASSUME RegistrarInv, NEW r \in Tasks, Active(r), Order(r) \in OrderRecords,
           Order(r).a = req[r].a, UNCHANGED txs,
           \/ StateOf(req[r].a) \in {"none", "failed"}
           \/ StateOf(req[r].a) = "settling" /\ Dead(orders[kept[req[r].a]].settleTx),
           NEW n, n = [Order(r) EXCEPT !.state = "failed"]
    PROVE  Booked(r, n) /\ Accounted(n)
<1>1. n \in OrderRecords /\ n.a = req[r].a /\ n.state = "failed" /\ req[r].a \in Auths
  BY TaskTypes DEF OrderRecords, OrderStates
<1>2. Booked(r, n)
  BY <1>1 DEF Booked, PaidStates
<1>3. Accounted(n)
  BY <1>1, KnownAccounted DEF Accounted, PaidStates
<1> QED
  BY <1>2, <1>3

\* A payment is final, or an insert failed for good.
LEMMA BookSettled ==
    ASSUME RegistrarInv, NEW r \in Tasks, Active(r), Holds(r), UNCHANGED txs,
           \/ Order(r).state = "settling" /\ Done(Order(r).settleTx)
           \/ Order(r).state = "inserting" /\ Dead(Order(r).insertTx),
           NEW n, n = [Order(r) EXCEPT !.state = "settled"]
    PROVE  Booked(r, n) /\ Accounted(n)
<1>1. /\ Order(r) \in OrderRecords /\ Order(r).a = req[r].a /\ req[r].order = kept[req[r].a]
      /\ BookGood(req[r].a) /\ StateOf(req[r].a) = Order(r).state /\ req[r].a \in Auths
      /\ kept[req[r].a] # 0
  BY HeldOrder, TaskTypes
<1>2. n \in OrderRecords /\ n.a = req[r].a /\ n.state = "settled"
  BY <1>1 DEF OrderRecords, OrderStates
<1>3. \E t \in DOMAIN txs : Sent(t, "settle", n.a) /\ Done(t)
  BY <1>1, <1>2 DEF BookGood, Order, PaidStates, Sent
<1>4. Booked(r, n)
  BY <1>1, <1>2, <1>3 DEF Booked, PaidStates
<1>5. Accounted(n)
  BY <1>1, <1>2, KnownAccounted DEF Accounted, PaidStates, Order
<1> QED
  BY <1>4, <1>5

\* The leaf is live, or its insert is final.
LEMMA BookInserted ==
    ASSUME RegistrarInv, NEW r \in Tasks, Active(r), Holds(r), UNCHANGED txs,
           Order(r).state \in {"settled", "inserting"},
           NEW n, n = [Order(r) EXCEPT !.state = "inserted"]
    PROVE  Booked(r, n) /\ Accounted(n)
<1>1. /\ Order(r) \in OrderRecords /\ Order(r).a = req[r].a /\ req[r].order = kept[req[r].a]
      /\ BookGood(req[r].a) /\ StateOf(req[r].a) = Order(r).state /\ req[r].a \in Auths
      /\ kept[req[r].a] # 0
  BY HeldOrder, TaskTypes
<1>2. n \in OrderRecords /\ n.a = req[r].a /\ n.state = "inserted" /\ n.insertTx = Order(r).insertTx
  BY <1>1 DEF OrderRecords, OrderStates
<1>3. \E t \in DOMAIN txs : Sent(t, "settle", n.a) /\ Done(t)
  BY <1>1, <1>2 DEF BookGood, Order, PaidStates
<1>4. Booked(r, n)
  BY <1>1, <1>2, <1>3 DEF Booked, PaidStates
<1>5. Accounted(n)
  BY <1>1, <1>2, KnownAccounted DEF Accounted, PaidStates, Order
<1> QED
  BY <1>4, <1>5

\* The answer to a broadcast.
LEMMA LearnKeeps ==
    ASSUME RegistrarInv, NEW r \in Tasks, NEW a \in Auths, NEW k, Sent(req[r].tx, k, a), Learn(r)
    PROVE  /\ SameTxs(a)
           /\ \A t \in DOMAIN txs : t # req[r].tx => txs'[t] = txs[t]
<1> DEFINE u == req[r].tx
           e == [txs[u] EXCEPT !.known = TRUE]
<1>1. txs \in Seq(TxRecords) /\ u \in DOMAIN txs /\ txs[u].a = a
  BY DEF RegistrarInv, RegistrarTyped, Sent
<1>2. txs[u] \in TxRecords
  BY <1>1
<1>3. e \in TxRecords /\ e.kind = txs[u].kind /\ e.a = txs[u].a
  BY <1>2 DEF TxRecords
<1>4. txs' = [txs EXCEPT ![u] = e]
  BY <1>1 DEF Learn
<1> HIDE DEF e
<1>5. /\ txs' \in Seq(TxRecords) /\ DOMAIN txs' = DOMAIN txs /\ txs'[u] = e
      /\ \A t \in DOMAIN txs : t # u => txs'[t] = txs[t]
  BY <1>1, <1>3, <1>4, SeqUpdated
<1> QED
  BY <1>1, <1>3, <1>5 DEF SameTxs

\* The hash of a payment is stored: all earlier ones failed for good.
LEMMA BookSettling ==
    ASSUME RegistrarInv, NEW r \in Tasks, Active(r), Order(r) \in OrderRecords,
           Order(r).a = req[r].a, StateOf(req[r].a) \in {"none", "failed"},
           Sent(req[r].tx, "settle", req[r].a), Learn(r),
           NEW n, n = [Order(r) EXCEPT !.settleTx = req[r].tx, !.state = "settling"]
    PROVE  Booked(r, n) /\ Accounted(n)
<1>1. req[r] \in TaskRecords /\ req[r].a \in Auths
  BY TaskTypes
<1>2. n \in OrderRecords /\ n.a = req[r].a /\ n.state = "settling" /\ n.settleTx = req[r].tx
  BY <1>1 DEF OrderRecords, OrderStates, TaskRecords
<1>3. Booked(r, n)
  BY <1>2 DEF Booked, PaidStates
<1>4. \A t \in DOMAIN txs : t # req[r].tx => txs'[t] = txs[t]
  BY <1>1, LearnKeeps
<1>5. Accounted(n)
  <2> SUFFICES ASSUME NEW t \in DOMAIN txs, txs'[t].known, txs[t].a = n.a
               PROVE  Dead(t) \/ (txs[t].kind = "settle" /\ n.settleTx = t)
    BY <1>2 DEF Accounted
  <2>1. CASE t = req[r].tx
    BY <2>1, <1>2 DEF Sent
  <2>2. CASE t # req[r].tx
    <3>1. txs[t].known /\ txs[t].a = req[r].a
      BY <2>2, <1>2, <1>4
    <3>2. \/ Dead(t) \/ StateOf(req[r].a) \in PaidStates
          \/ StateOf(req[r].a) \in {"settling", "inserting", "inserted"}
      BY <3>1, <1>1, KnownAccounted
    <3> QED
      BY <3>2 DEF PaidStates
  <2> QED
    BY <2>1, <2>2
<1> QED
  BY <1>3, <1>5

\* The hash of an insert is stored: all earlier ones failed for good.
LEMMA BookInserting ==
    ASSUME RegistrarInv, NEW r \in Tasks, Active(r), Holds(r), Order(r).state = "settled",
           Sent(req[r].tx, "insert", req[r].a), Learn(r),
           NEW n, n = [Order(r) EXCEPT !.insertTx = req[r].tx, !.state = "inserting"]
    PROVE  Booked(r, n) /\ Accounted(n)
<1>1. /\ Order(r) \in OrderRecords /\ Order(r).a = req[r].a /\ req[r].order = kept[req[r].a]
      /\ BookGood(req[r].a) /\ StateOf(req[r].a) = Order(r).state /\ req[r].a \in Auths
      /\ kept[req[r].a] # 0 /\ req[r] \in TaskRecords
  BY HeldOrder, TaskTypes
<1>2. n \in OrderRecords /\ n.a = req[r].a /\ n.state = "inserting" /\ n.insertTx = req[r].tx
  BY <1>1 DEF OrderRecords, OrderStates, TaskRecords
<1>3. \E t \in DOMAIN txs : Sent(t, "settle", n.a) /\ Done(t)
  BY <1>1, <1>2 DEF BookGood, Order, PaidStates
<1>4. Booked(r, n)
  BY <1>1, <1>2, <1>3 DEF Booked, PaidStates
<1>5. \A t \in DOMAIN txs : t # req[r].tx => txs'[t] = txs[t]
  BY <1>1, LearnKeeps
<1>6. Accounted(n)
  <2> SUFFICES ASSUME NEW t \in DOMAIN txs, txs'[t].known, txs[t].a = n.a
               PROVE  \/ Dead(t)
                      \/ txs[t].kind = "settle" /\ n.state \in PaidStates
                      \/ txs[t].kind = "insert" /\ n.insertTx = t
    BY <1>2 DEF Accounted
  <2>1. CASE t = req[r].tx
    BY <2>1, <1>2 DEF Sent
  <2>2. CASE t # req[r].tx
    <3>1. txs[t].known /\ txs[t].a = req[r].a
      BY <2>2, <1>2, <1>5
    <3> QED
      BY <3>1, <1>1, <1>2, KnownAccounted DEF PaidStates
  <2> QED
    BY <2>1, <2>2
<1> QED
  BY <1>4, <1>6

\* The fields of a task that goes on.
LEMMA GoesOnTypes ==
    ASSUME NEW r, req[r] \in TaskRecords, NEW at \in Places
    PROVE  /\ [req[r] EXCEPT !.at = at] \in TaskRecords
           /\ [req[r] EXCEPT !.at = at].at = at
           /\ [req[r] EXCEPT !.at = at].a = req[r].a
           /\ [req[r] EXCEPT !.at = at].order = req[r].order
           /\ [req[r] EXCEPT !.at = at].tx = req[r].tx
           /\ Onward(r, at) \in TaskRecords
           /\ Onward(r, at).at = at
           /\ Onward(r, at).a = req[r].a
           /\ Onward(r, at).order = req[r].order
BY DEF TaskRecords, Onward

\* Transactions are numbered from 1.
LEMMA SentTx ==
    ASSUME RegistrarInv, NEW t, NEW k, NEW a, Sent(t, k, a)
    PROVE  t \in Nat \ {0}
BY DEF RegistrarInv, RegistrarTyped, Sent

\* reconcilePending() with a final receipt.
LEMMA ReconcileKeeps ==
    ASSUME Deployment, RegistrarInv, NEW r \in Tasks, Reconcile(r)
    PROVE  RegistrarInv' /\ StaysPaid
<1> DEFINE a == req[r].a
           n == Reconciled(r)
           t == req[r].tx
<1>1. Active(r) /\ ReceiptIsFinal(t) /\ Put(r, n) /\ UNCHANGED world
  BY DEF Reconcile, Active
<1>2. /\ Holds(r) /\ req[r].kind \in Pending
      /\ Order(r).state = req[r].kind /\ t = Pursued(req[r].order)
  BY DEF RegistrarInv, TaskGood, Reconcile
<1>3. /\ req[r].order \in DOMAIN orders /\ req[r].order = kept[a] /\ kept[a] # 0
      /\ Order(r) \in OrderRecords /\ Order(r).a = a
      /\ BookGood(a) /\ StateOf(a) = Order(r).state /\ a \in Auths /\ req[r] \in TaskRecords
  BY <1>1, <1>2, HeldOrder, TaskTypes
<1>4. t \in Nat \ {0}
  <2>1. CASE Order(r).state = "settling"
    BY <2>1, <1>2, <1>3, SentTx DEF Pursued, BookGood, Order
  <2>2. CASE Order(r).state = "inserting"
    BY <2>2, <1>2, <1>3, SentTx DEF Pursued, BookGood, Order
  <2> QED
    BY <2>1, <2>2, <1>2 DEF Pending
<1>5. (Succeeded(t) => Done(t)) /\ (~Succeeded(t) => Dead(t))
  BY <1>1, <1>4, FinalReceipt DEF RegistrarInv, ReceiptIsFinal
<1>6. txs' = txs /\ UNCHANGED <<blocks, final>> /\ SameTxs(a)
  BY <1>1, UnchangedTxs DEF world
<1>7. n.state \in {"settled", "failed", "inserted"} /\ Booked(r, n) /\ Accounted(n)
  <2>1. CASE req[r].kind = "settling" /\ Succeeded(t)
    <3>1. n = [Order(r) EXCEPT !.state = "settled"] /\ t = Order(r).settleTx
      BY <2>1, <1>2 DEF Reconciled, Pursued, Order
    <3>2. n.state = "settled"
      BY <3>1, <1>3 DEF OrderRecords
    <3> HIDE DEF n
    <3> QED
      BY <2>1, <3>1, <3>2, <1>1, <1>2, <1>5, <1>6, BookSettled
  <2>2. CASE req[r].kind = "settling" /\ ~Succeeded(t)
    <3>1. n = [Order(r) EXCEPT !.state = "failed"] /\ t = orders[kept[a]].settleTx
      BY <2>2, <1>2, <1>3 DEF Reconciled, Pursued, Order
    <3>2. n.state = "failed"
      BY <3>1, <1>3 DEF OrderRecords
    <3> HIDE DEF n
    <3> QED
      BY <2>2, <3>1, <3>2, <1>1, <1>2, <1>3, <1>5, <1>6, BookFailed
  <2>3. CASE req[r].kind = "inserting" /\ Succeeded(t)
    <3>1. n = [Order(r) EXCEPT !.state = "inserted"]
      BY <2>3 DEF Reconciled
    <3>2. n.state = "inserted"
      BY <3>1, <1>3 DEF OrderRecords
    <3> HIDE DEF n
    <3> QED
      BY <2>3, <3>1, <3>2, <1>1, <1>2, <1>6, BookInserted
  <2>4. CASE req[r].kind = "inserting" /\ ~Succeeded(t)
    <3>1. n = [Order(r) EXCEPT !.state = "settled"] /\ t = Order(r).insertTx
      BY <2>4, <1>2 DEF Reconciled, Pursued, Order
    <3>2. n.state = "settled"
      BY <3>1, <1>3 DEF OrderRecords
    <3> HIDE DEF n
    <3> QED
      BY <2>4, <3>1, <3>2, <1>1, <1>2, <1>5, <1>6, BookSettled
  <2> QED
    BY <2>1, <2>2, <2>3, <2>4, <1>2 DEF Pending
<1> HIDE DEF n
<1>8. n.a = a
  BY <1>7 DEF Booked
<1>11. ASSUME NEW at \in Places
       PROVE  /\ Onward(r, at) \in TaskRecords /\ Onward(r, at).at = at
              /\ Onward(r, at).a = a /\ Onward(r, at).order = req[r].order
  BY <1>3, GoesOnTypes
<1>12. "limitOf" \in Places /\ "read" \in Places
  BY DEF Places
<1>9. \E q : GoesOn(r, n, q) /\ Goto(r, q) /\ todo' \subseteq todo
  <2>1. CASE n.state = "settled"
    <3>1. Goto(r, Onward(r, "limitOf")) /\ todo' = todo
      BY <2>1 DEF n, Reconcile, Take
    <3>2. GoesOn(r, n, Onward(r, "limitOf"))
      BY <2>1, <1>8, <1>11, <1>12 DEF GoesOn
    <3> QED
      BY <3>1, <3>2
  <2>2. CASE n.state = "failed" /\ r # Boot /\ Cardinality(inflight) < MaxInflight
    <3>1. Goto(r, Onward(r, "read")) /\ todo' = todo
      BY <2>2 DEF n, Reconcile
    <3>2. GoesOn(r, n, Onward(r, "read"))
      BY <2>2, <1>8, <1>11, <1>12 DEF GoesOn
    <3> QED
      BY <3>1, <3>2
  <2>3. CASE n.state # "settled" /\ ~(n.state = "failed" /\ r # Boot /\ Cardinality(inflight) < MaxInflight)
    <3>1. Answer(r)
      BY <2>3 DEF n, Reconcile
    <3> QED
      BY <3>1, FinishFrees DEF GoesOn
  <2> QED
    BY <2>1, <2>2, <2>3
<1>10. PICK q : GoesOn(r, n, q) /\ Goto(r, q) /\ todo' \subseteq todo
  BY <1>9
<1> QED
  BY <1>1, <1>3, <1>6, <1>7, <1>10, PutKeeps

\* A task that gives up and changes nothing.
LEMMA AnswerKeeps ==
    ASSUME Deployment, RegistrarInv, NEW r \in Tasks, Active(r),
           Answer(r), Untouched, UNCHANGED world
    PROVE  RegistrarInv' /\ StaysPaid
<1>1. /\ Goto(r, Resting) /\ todo' \subseteq todo /\ UNCHANGED <<orders, kept, world>>
  BY FinishFrees DEF Untouched
<1>2. req'[r] = Resting
  BY <1>1 DEF Goto, RegistrarInv, RegistrarTyped
<1>3. TaskGood(r)'
  BY <1>2 DEF TaskGood, Resting
<1> QED
  BY <1>1, <1>3, QuietKeeps

\* The checks before a settlement, and the new order object.
LEMMA ReadChainKeeps ==
    ASSUME Deployment, RegistrarInv, NEW r \in Tasks, ReadChain(r)
    PROVE  RegistrarInv' /\ StaysPaid
<1> DEFINE fresh == req[r].order = 0
           e == [a |-> req[r].a, state |-> "new", settleTx |-> 0, insertTx |-> 0]
<1>1. Active(r) /\ req[r].at = "read" /\ UNCHANGED world
  BY DEF ReadChain, Active
<1>2. req[r].order = kept[req[r].a] /\ (kept[req[r].a] # 0 => Order(r).state = "failed")
  BY <1>1 DEF RegistrarInv, TaskGood
<1>3. PICK a \in Auths : a = req[r].a /\ req[r] \in TaskRecords
  BY <1>1, TaskTypes
<1>4. RegistrarTyped
  BY DEF RegistrarInv
<1>5. CASE Answer(r) /\ Untouched
  BY <1>1, <1>5, AnswerKeeps
<1>6. CASE /\ ~fresh /\ UNCHANGED <<orders, kept, todo>>
           /\ Goto(r, [req[r] EXCEPT !.at = "settle"])
  <2> DEFINE q == [req[r] EXCEPT !.at = "settle"]
  <2>1. q \in TaskRecords /\ q.at = "settle" /\ q.a = a /\ q.order = req[r].order
    BY <1>3 DEF TaskRecords, Places
  <2> HIDE DEF q
  <2>2. req'[r] = q
    BY <1>4, <1>6 DEF Goto, RegistrarTyped, q
  <2>3. Holds(r)
    BY <1>2, <1>6 DEF Holds
  <2>4. req[r].order \in DOMAIN orders /\ Order(r).a = a
    BY <2>3, <1>1, <1>3, HeldOrder
  <2>5. TaskGood(r)'
    BY <2>1, <2>2, <2>3, <2>4, <1>2, <1>3, <1>6 DEF TaskGood, Holds, Order
  <2> QED
    BY <2>1, <2>5, <1>1, <1>3, <1>6, QuietKeeps DEF q
<1>7. CASE /\ fresh /\ orders' = Append(orders, e) /\ UNCHANGED <<kept, todo>>
           /\ Goto(r, [req[r] EXCEPT !.at = "settle", !.order = Len(orders) + 1])
  <2> DEFINE q == [req[r] EXCEPT !.at = "settle", !.order = Len(orders) + 1]
             o == Len(orders) + 1
  <2>1. orders \in Seq(OrderRecords) /\ DOMAIN orders = 1..Len(orders) /\ Len(orders) \in Nat
    BY <1>4 DEF RegistrarTyped
  <2>2. e \in OrderRecords /\ e.a = a /\ e.state = "new" /\ e.settleTx = 0
    BY <1>3 DEF OrderRecords, OrderStates
  <2>3. q \in TaskRecords /\ q.at = "settle" /\ q.a = a /\ q.order = o
    <3>1. "settle" \in Places /\ Len(orders) + 1 \in Nat
      BY <2>1 DEF Places
    <3> QED
      BY ONLY <1>3, <3>1 DEF TaskRecords
  <2> HIDE DEF q, e
  <2>4. /\ orders' \in Seq(OrderRecords) /\ DOMAIN orders' = 1..o
        /\ orders'[o] = e /\ \A i \in DOMAIN orders : orders'[i] = orders[i]
    BY <1>7, <2>1, <2>2
  <2>5. /\ req' \in [Tasks -> TaskRecords \cup {Resting}] /\ req'[r] = q
        /\ \A s \in Tasks : s # r => req'[s] = req[s]
    BY <1>4, <1>7, <2>3 DEF Goto, RegistrarTyped, q
  <2>6. /\ kept' = kept /\ todo' = todo /\ txs' = txs /\ blocks' = blocks /\ final' = final
        /\ kept[a] = 0
    BY <1>1, <1>2, <1>3, <1>7 DEF world
  <2>7. \A b \in Auths : kept[b] # 0 => kept[b] \in DOMAIN orders /\ orders'[kept[b]] = orders[kept[b]]
    BY <1>4, <2>4 DEF RegistrarTyped
  <2>8. DOMAIN orders \subseteq DOMAIN orders' /\ o \in DOMAIN orders'
    BY <2>1, <2>4
  <2>9. RegistrarTyped'
    BY <1>4, <2>4, <2>5, <2>6, <2>7, <2>8 DEF RegistrarTyped
  <2>10. Local(r, a)
    BY <2>4, <2>5, <2>6, <2>8 DEF Local
  <2>11. BookGood(a)'
    BY <2>6 DEF BookGood
  <2>12. ASSUME NEW t \in DOMAIN txs', txs'[t].a = a PROVE TxGood(t)'
    <3>1. TxGood(t)
      BY <2>6 DEF RegistrarInv
    <3> QED
      BY <2>6, <2>12, <3>1 DEF TxGood, Dead
  <2>13. TaskGood(r)'
    BY <2>2, <2>3, <2>4, <2>5, <2>6, <2>8 DEF TaskGood, Order
  <2>14. RegistrarInv'
    BY <1>1, <1>3, <2>3, <2>5, <2>6, <2>9, <2>10, <2>11, <2>12, <2>13, StepKeeps
  <2>15. StaysPaid
    <3>1. DOMAIN kept = Auths
      BY <1>4 DEF RegistrarTyped
    <3>2. ASSUME NEW b \in Auths PROVE StateOf(b)' = StateOf(b)
      BY <2>6, <2>7 DEF StateOf
    <3> QED
      BY <3>1, <3>2 DEF StaysPaid
  <2> QED
    BY <2>14, <2>15
<1> QED
  <2>1. CASE fresh
    BY <2>1, <1>5, <1>7 DEF ReadChain, Take
  <2>2. CASE ~fresh
    <3>1. [req[r] EXCEPT !.at = "settle", !.order = @] = [req[r] EXCEPT !.at = "settle"]
      BY <1>3 DEF TaskRecords
    <3> QED
      BY <2>2, <3>1, <1>5, <1>6 DEF ReadChain, Take
  <2> QED
    BY <2>1, <2>2

\* A broadcast.
LEMMA BroadcastKeeps ==
    ASSUME Deployment, RegistrarInv, NEW r \in Tasks, Active(r),
           NEW kind, NEW next, Broadcast(r, kind, next),
           \/ req[r].at = "settle" /\ kind = "settle" /\ next = "settleSent"
           \/ req[r].at = "insert" /\ kind = "insert" /\ next = "insertSent"
    PROVE  RegistrarInv' /\ StaysPaid
<1>1. RegistrarTyped /\ TaskGood(r)
  BY DEF RegistrarInv
<1>16. PICK u \in Nat : u = Len(txs) + 1
  BY <1>1 DEF RegistrarTyped
<1> DEFINE e == [kind |-> kind, a |-> req[r].a, known |-> FALSE]
           q == [req[r] EXCEPT !.at = next, !.tx = u]
<1>2. PICK a \in Auths : a = req[r].a /\ req[r] \in TaskRecords
  BY TaskTypes
<1>3. txs \in Seq(TxRecords) /\ DOMAIN txs = 1..Len(txs) /\ Len(txs) \in Nat
  BY <1>1 DEF RegistrarTyped
<1>4. e \in TxRecords /\ e.kind = kind /\ e.a = a /\ ~e.known
  BY <1>2 DEF TxRecords
<1>5. q \in TaskRecords /\ q.at = next /\ q.a = a /\ q.order = req[r].order /\ q.tx = u
  <2>1. u \in Nat /\ next \in Places
    BY DEF Places
  <2> QED
    BY ONLY <2>1, <1>2 DEF TaskRecords
<1>6. /\ txs' = Append(txs, e) /\ req' = [req EXCEPT ![r] = q]
      /\ orders' = orders /\ kept' = kept /\ todo' = todo /\ blocks' = blocks /\ final' = final
  BY <1>16 DEF Broadcast, Goto
<1> HIDE DEF q, e
<1>7. /\ txs' \in Seq(TxRecords) /\ DOMAIN txs' = 1..u
      /\ txs'[u] = e /\ \A t \in DOMAIN txs : txs'[t] = txs[t]
  BY <1>3, <1>4, <1>6, <1>16
<1>8. DOMAIN txs \subseteq DOMAIN txs' /\ u \in DOMAIN txs' /\ \A t \in DOMAIN txs' : t \in DOMAIN txs \/ t = u
  BY <1>3, <1>7, <1>16
<1>9. /\ req' \in [Tasks -> TaskRecords \cup {Resting}] /\ req'[r] = q
      /\ \A s \in Tasks : s # r => req'[s] = req[s]
  BY <1>1, <1>5, <1>6 DEF RegistrarTyped
<1>10. RegistrarTyped'
  BY <1>1, <1>6, <1>7, <1>9 DEF RegistrarTyped
<1>11. Local(r, a)
  BY <1>4, <1>6, <1>7, <1>8, <1>9 DEF Local
<1>12. BookGood(a)'
  <2>1. BookGood(a)
    BY DEF RegistrarInv
  <2>2. \A t, k : Sent(t, k, a) => Sent(t, k, a)'
    BY <1>7, <1>8 DEF Sent
  <2>3. \A t : Done(t) => Done(t)'
    BY <1>6 DEF Done
  <2> QED
    BY <2>1, <2>2, <2>3, <1>6, <1>8 DEF BookGood
<1>13. ASSUME NEW t \in DOMAIN txs', txs'[t].a = a PROVE TxGood(t)'
  <2>1. CASE t = u
    BY <2>1, <1>4, <1>7 DEF TxGood
  <2>2. CASE t # u
    <3>1. t \in DOMAIN txs /\ txs'[t] = txs[t]
      BY <2>2, <1>7, <1>8
    <3>2. TxGood(t)
      BY <3>1 DEF RegistrarInv
    <3> QED
      BY <3>1, <3>2, <1>6 DEF TxGood, Dead
  <2> QED
    BY <2>1, <2>2
<1>14. TaskGood(r)'
  <2>1. CASE next = "settleSent"
    <3>1. req[r].at = "settle" /\ kind = "settle"
      BY <2>1
    <3>2. Sent(u, "settle", a)'
      BY <3>1, <1>4, <1>7, <1>8 DEF Sent
    <3> QED
      BY <3>1, <3>2, <2>1, <1>1, <1>2, <1>5, <1>6, <1>9 DEF TaskGood, Holds, Order
  <2>2. CASE next = "insertSent"
    <3>1. req[r].at = "insert" /\ kind = "insert"
      BY <2>2
    <3>2. Sent(u, "insert", a)'
      BY <3>1, <1>4, <1>7, <1>8 DEF Sent
    <3> QED
      BY <3>1, <3>2, <2>2, <1>1, <1>2, <1>5, <1>6, <1>9 DEF TaskGood, Holds, Order
  <2> QED
    BY <2>1, <2>2
<1>15. StaysPaid
  BY <1>6 DEF StaysPaid, StateOf
<1> QED
  BY <1>2, <1>5, <1>6, <1>9, <1>10, <1>11, <1>12, <1>13, <1>14, <1>15, StepKeeps

\* The order at hand while a payment is sent.
LEMMA SettleOrder ==
    ASSUME RegistrarInv, NEW r \in Tasks, req[r].at \in {"settle", "settleSent"}
    PROVE  /\ Active(r) /\ req[r].order \in DOMAIN orders /\ Order(r).a = req[r].a
           /\ Order(r) \in OrderRecords /\ StateOf(req[r].a) \in {"none", "failed"}
           /\ Order(r).state = "failed" \/ (Order(r).state = "new" /\ Order(r).settleTx = 0)
           /\ req[r].at = "settleSent" => Sent(req[r].tx, "settle", req[r].a)
<1>1. TaskGood(r) /\ RegistrarTyped
  BY DEF RegistrarInv
<1>2. req[r].order \in DOMAIN orders
  BY <1>1 DEF TaskGood
<1>3. Order(r) \in OrderRecords
  BY <1>1, <1>2 DEF RegistrarTyped, Order
<1>4. /\ Order(r).a = req[r].a
      /\ \/ Holds(r) /\ Order(r).state = "failed"
         \/ kept[req[r].a] = 0 /\ Order(r).state = "new" /\ Order(r).settleTx = 0
  BY <1>1 DEF TaskGood
<1>5. StateOf(req[r].a) \in {"none", "failed"}
  BY <1>4 DEF Holds, StateOf, Order
<1>6. req[r].at = "settleSent" => Sent(req[r].tx, "settle", req[r].a)
  BY <1>1 DEF TaskGood
<1> QED
  BY <1>2, <1>3, <1>4, <1>5, <1>6 DEF Active

\* The catch around settle() before a hash is known.
LEMMA PutFailedKeeps ==
    ASSUME Deployment, RegistrarInv, NEW r \in Tasks, req[r].at \in {"settle", "settleSent"},
           Put(r, [Order(r) EXCEPT !.state = IF Order(r).settleTx # 0 THEN @ ELSE "failed"]),
           Finish(r), UNCHANGED world
    PROVE  RegistrarInv' /\ StaysPaid
<1> DEFINE n == [Order(r) EXCEPT !.state = "failed"]
<1>1. /\ Active(r) /\ req[r].order \in DOMAIN orders /\ Order(r).a = req[r].a
      /\ Order(r) \in OrderRecords /\ StateOf(req[r].a) \in {"none", "failed"}
      /\ Order(r).state = "failed" \/ (Order(r).state = "new" /\ Order(r).settleTx = 0)
  BY SettleOrder
<1>2. [Order(r) EXCEPT !.state = IF Order(r).settleTx # 0 THEN @ ELSE "failed"] = n
  <2>1. CASE Order(r).settleTx = 0
    BY <2>1
  <2>2. CASE Order(r).settleTx # 0
    <3>1. Order(r).state = "failed"
      BY <1>1, <2>2
    <3> QED
      BY <2>2, <3>1
  <2> QED
    BY <2>1, <2>2
<1>3. Put(r, n)
  BY <1>2
<1>4. UNCHANGED <<blocks, final>> /\ SameTxs(req[r].a) /\ UNCHANGED txs
  BY UnchangedTxs DEF world
<1>5. Booked(r, n) /\ Accounted(n)
  BY <1>1, <1>4, BookFailed
<1>6. GoesOn(r, n, Resting) /\ Goto(r, Resting) /\ todo' \subseteq todo
  BY FinishFrees DEF GoesOn
<1> HIDE DEF n
<1> QED
  BY <1>1, <1>3, <1>4, <1>5, <1>6, PutKeeps

\* The catch around settle() after its hash is stored: the order stays as it is.
LEMMA SettleThrowsKeeps ==
    ASSUME Deployment, RegistrarInv, NEW r \in Tasks, SettleThrows(r)
    PROVE  RegistrarInv' /\ StaysPaid
<1>1. /\ Active(r) /\ UNCHANGED world /\ Finish(r)
      /\ Put(r, [Order(r) EXCEPT !.state = IF Order(r).settleTx # 0 THEN @ ELSE "failed"])
  BY DEF SettleThrows, SettleFailed, Active
<1>2. Holds(r) /\ Order(r).state = "settling"
  BY DEF SettleThrows, RegistrarInv, TaskGood
<1>3. /\ Order(r) \in OrderRecords /\ BookGood(req[r].a)
      /\ req[r].order = kept[req[r].a] /\ kept[req[r].a] # 0
  BY <1>1, <1>2, HeldOrder
<1>4. Order(r).settleTx # 0
  BY <1>2, <1>3, SentTx DEF BookGood, Order
<1>5. [Order(r) EXCEPT !.state = IF Order(r).settleTx # 0 THEN @ ELSE "failed"] = Order(r)
  BY <1>3, <1>4 DEF OrderRecords
<1>6. Put(r, Order(r))
  BY <1>1, <1>5
<1> QED
  BY <1>1, <1>2, <1>6, PutAgain, FinishFrees

\* The hash of the payment.
LEMMA SettleSentKeeps ==
    ASSUME Deployment, RegistrarInv, NEW r \in Tasks, SettleSent(r)
    PROVE  RegistrarInv' /\ StaysPaid
<1> DEFINE n == [Order(r) EXCEPT !.settleTx = req[r].tx, !.state = "settling"]
           q == [req[r] EXCEPT !.at = "settleWait"]
<1>1. /\ Put(r, n) /\ Learn(r) /\ Goto(r, q) /\ UNCHANGED <<blocks, final>> /\ todo' = todo
      /\ req[r].at = "settleSent"
  BY DEF SettleSent, Await
<1>2. /\ Active(r) /\ req[r].order \in DOMAIN orders /\ Order(r).a = req[r].a
      /\ Order(r) \in OrderRecords /\ StateOf(req[r].a) \in {"none", "failed"}
      /\ Sent(req[r].tx, "settle", req[r].a)
  BY <1>1, SettleOrder
<1>3. req[r] \in TaskRecords /\ req[r].a \in Auths
  BY <1>2, TaskTypes
<1>4. q \in TaskRecords /\ q.at = "settleWait" /\ q.a = req[r].a /\ q.order = req[r].order /\ q.tx = req[r].tx
  BY <1>3 DEF TaskRecords, Places
<1>5. n.state = "settling" /\ n.settleTx = req[r].tx
  BY <1>2 DEF OrderRecords
<1> HIDE DEF n, q
<1>6. Booked(r, n) /\ Accounted(n)
  BY <1>1, <1>2, BookSettling DEF n
<1>7. SameTxs(req[r].a)
  BY <1>1, <1>2, <1>3, LearnKeeps
<1>8. GoesOn(r, n, q)
  BY <1>4, <1>5, <1>6 DEF GoesOn, Booked
<1> QED
  BY <1>1, <1>2, <1>6, <1>7, <1>8, PutKeeps

\* The hash of the insert.
LEMMA InsertSentKeeps ==
    ASSUME Deployment, RegistrarInv, NEW r \in Tasks, InsertSent(r)
    PROVE  RegistrarInv' /\ StaysPaid
<1> DEFINE n == [Order(r) EXCEPT !.insertTx = req[r].tx, !.state = "inserting"]
           q == [req[r] EXCEPT !.at = "insertWait"]
<1>1. /\ Put(r, n) /\ Learn(r) /\ Goto(r, q) /\ UNCHANGED <<blocks, final>> /\ todo' = todo
      /\ req[r].at = "insertSent" /\ Active(r)
  BY DEF InsertSent, Await, Active
<1>2. Holds(r) /\ Order(r).state = "settled" /\ Sent(req[r].tx, "insert", req[r].a)
  BY <1>1 DEF RegistrarInv, TaskGood
<1>3. req[r] \in TaskRecords /\ req[r].a \in Auths
  BY <1>1, TaskTypes
<1>4. q \in TaskRecords /\ q.at = "insertWait" /\ q.a = req[r].a /\ q.order = req[r].order /\ q.tx = req[r].tx
  BY <1>3 DEF TaskRecords, Places
<1>5. req[r].order \in DOMAIN orders /\ Order(r) \in OrderRecords /\ Order(r).a = req[r].a
  BY <1>1, <1>2, HeldOrder
<1>6. n.state = "inserting" /\ n.insertTx = req[r].tx
  BY <1>5 DEF OrderRecords
<1> HIDE DEF n, q
<1>7. Booked(r, n) /\ Accounted(n)
  BY <1>1, <1>2, BookInserting DEF n
<1>8. SameTxs(req[r].a)
  BY <1>1, <1>2, <1>3, LearnKeeps
<1>9. GoesOn(r, n, q)
  BY <1>4, <1>6, <1>7 DEF GoesOn, Booked
<1> QED
  BY <1>1, <1>5, <1>7, <1>8, <1>9, PutKeeps

\* The receipt of the payment.
LEMMA SettleReceiptKeeps ==
    ASSUME Deployment, RegistrarInv, NEW r \in Tasks, SettleReceipt(r)
    PROVE  RegistrarInv' /\ StaysPaid
<1> DEFINE t == req[r].tx
<1>1. Active(r) /\ Confirmed(t) /\ UNCHANGED world /\ req[r].at = "settleWait"
  BY DEF SettleReceipt, Active
<1>2. Holds(r) /\ Order(r).state = "settling" /\ Order(r).settleTx = t
  BY <1>1 DEF RegistrarInv, TaskGood
<1>3. /\ req[r].order \in DOMAIN orders /\ req[r].order = kept[req[r].a] /\ kept[req[r].a] # 0
      /\ Order(r) \in OrderRecords /\ Order(r).a = req[r].a
      /\ BookGood(req[r].a) /\ StateOf(req[r].a) = Order(r).state /\ req[r] \in TaskRecords
  BY <1>1, <1>2, HeldOrder, TaskTypes
<1>4. t \in Nat \ {0}
  BY <1>2, <1>3, SentTx DEF BookGood, Order
<1>5. (Succeeded(t) => Done(t)) /\ (~Succeeded(t) => Dead(t))
  BY <1>1, <1>4, FinalReceipt DEF RegistrarInv
<1>6. UNCHANGED txs /\ UNCHANGED <<blocks, final>> /\ SameTxs(req[r].a)
  BY <1>1, UnchangedTxs DEF world
<1>7. CASE Succeeded(t)
  <2> DEFINE n == [Order(r) EXCEPT !.state = "settled"]
             q == Onward(r, "limitOf")
  <2>1. Put(r, n) /\ Goto(r, q) /\ todo' = todo
    BY <1>7 DEF SettleReceipt
  <2>2. Booked(r, n) /\ Accounted(n)
    BY <1>1, <1>2, <1>5, <1>6, <1>7, BookSettled
  <2>3. n.state = "settled" /\ n.a = req[r].a
    BY <1>3 DEF OrderRecords
  <2>4. q \in TaskRecords /\ q.at = "limitOf" /\ q.a = req[r].a /\ q.order = req[r].order
    BY <1>3 DEF TaskRecords, Onward, Places
  <2>5. GoesOn(r, n, q)
    BY <2>3, <2>4 DEF GoesOn
  <2> HIDE DEF n, q
  <2> QED
    BY <1>1, <1>3, <1>6, <2>1, <2>2, <2>5, PutKeeps
<1>8. CASE ~Succeeded(t)
  <2> DEFINE n == [Order(r) EXCEPT !.state = "failed"]
  <2>1. Put(r, n) /\ Finish(r)
    BY <1>8 DEF SettleReceipt
  <2>2. Booked(r, n) /\ Accounted(n)
    BY <1>1, <1>2, <1>3, <1>5, <1>6, <1>8, BookFailed DEF Order
  <2>3. GoesOn(r, n, Resting)
    BY DEF GoesOn
  <2> HIDE DEF n
  <2> QED
    BY <1>1, <1>3, <1>6, <2>1, <2>2, <2>3, PutKeeps, FinishFrees
<1> QED
  BY <1>7, <1>8

\* limitOf().
LEMMA CheckLeafKeeps ==
    ASSUME Deployment, RegistrarInv, NEW r \in Tasks, CheckLeaf(r)
    PROVE  RegistrarInv' /\ StaysPaid
<1>1. Active(r) /\ UNCHANGED world /\ req[r].at = "limitOf"
  BY DEF CheckLeaf, Active
<1>2. Holds(r) /\ Order(r).state = "settled"
  BY <1>1 DEF RegistrarInv, TaskGood
<1>3. /\ req[r].order \in DOMAIN orders /\ Order(r).a = req[r].a /\ req[r] \in TaskRecords
      /\ RegistrarTyped
  BY <1>1, <1>2, HeldOrder, TaskTypes DEF RegistrarInv
<1>4. UNCHANGED txs /\ UNCHANGED <<blocks, final>> /\ SameTxs(req[r].a)
  BY <1>1, UnchangedTxs DEF world
<1>5. CASE Live(Latest.set, For[req[r].a])
  <2> DEFINE n == [Order(r) EXCEPT !.state = "inserted"]
  <2>1. Put(r, n) /\ Finish(r)
    BY <1>5 DEF CheckLeaf
  <2>2. Booked(r, n) /\ Accounted(n)
    BY <1>1, <1>2, <1>4, BookInserted
  <2>3. GoesOn(r, n, Resting)
    BY DEF GoesOn
  <2> HIDE DEF n
  <2> QED
    BY <1>1, <1>3, <1>4, <2>1, <2>2, <2>3, PutKeeps, FinishFrees
<1>6. CASE ~Live(Latest.set, For[req[r].a])
  <2> DEFINE q == [req[r] EXCEPT !.at = "insert"]
  <2>1. Goto(r, q) /\ UNCHANGED <<orders, kept>> /\ todo' = todo
    BY <1>6 DEF CheckLeaf, Await, Untouched
  <2>2. q \in TaskRecords /\ q.at = "insert" /\ q.a = req[r].a /\ q.order = req[r].order
    BY <1>3 DEF TaskRecords, Places
  <2> HIDE DEF q
  <2>3. req'[r] = q
    BY <1>3, <2>1 DEF Goto, RegistrarTyped
  <2>4. TaskGood(r)'
    BY <1>2, <2>1, <2>2, <2>3 DEF TaskGood, Holds, Order
  <2> QED
    BY <1>1, <2>1, <2>2, <2>4, QuietKeeps
<1> QED
  BY <1>5, <1>6

\* The receipt of the insert.
LEMMA InsertReceiptKeeps ==
    ASSUME Deployment, RegistrarInv, NEW r \in Tasks, InsertReceipt(r)
    PROVE  RegistrarInv' /\ StaysPaid
<1> DEFINE t == req[r].tx
           n == [Order(r) EXCEPT !.state = IF Succeeded(t) THEN "inserted" ELSE "settled"]
<1>1. Active(r) /\ Confirmed(t) /\ UNCHANGED world /\ req[r].at = "insertWait" /\ Put(r, n) /\ Finish(r)
  BY DEF InsertReceipt, Active
<1>2. Holds(r) /\ Order(r).state = "inserting" /\ Order(r).insertTx = t
  BY <1>1 DEF RegistrarInv, TaskGood
<1>3. /\ req[r].order \in DOMAIN orders /\ req[r].order = kept[req[r].a] /\ kept[req[r].a] # 0
      /\ Order(r).a = req[r].a /\ BookGood(req[r].a)
  BY <1>1, <1>2, HeldOrder
<1>4. t \in Nat \ {0}
  BY <1>2, <1>3, SentTx DEF BookGood, Order
<1>5. ~Succeeded(t) => Dead(t)
  BY <1>1, <1>4, FinalReceipt DEF RegistrarInv
<1>6. UNCHANGED txs /\ UNCHANGED <<blocks, final>> /\ SameTxs(req[r].a)
  BY <1>1, UnchangedTxs DEF world
<1>7. Booked(r, n) /\ Accounted(n)
  <2>1. CASE Succeeded(t)
    <3>1. n = [Order(r) EXCEPT !.state = "inserted"]
      BY <2>1
    <3> HIDE DEF n
    <3> QED
      BY <3>1, <1>1, <1>2, <1>6, BookInserted
  <2>2. CASE ~Succeeded(t)
    <3>1. n = [Order(r) EXCEPT !.state = "settled"]
      BY <2>2
    <3> HIDE DEF n
    <3> QED
      BY <2>2, <3>1, <1>1, <1>2, <1>5, <1>6, BookSettled
  <2> QED
    BY <2>1, <2>2
<1>8. GoesOn(r, n, Resting)
  BY DEF GoesOn
<1> HIDE DEF n
<1> QED
  BY <1>1, <1>3, <1>6, <1>7, <1>8, PutKeeps, FinishFrees

\* insertLeaf() throws.
LEMMA InsertEndsKeeps ==
    ASSUME Deployment, RegistrarInv, NEW r \in Tasks, InsertThrows(r) \/ InsertAnswerLost(r)
    PROVE  RegistrarInv' /\ StaysPaid
<1>1. /\ Active(r) /\ Put(r, Order(r)) /\ Finish(r) /\ UNCHANGED world
      /\ req[r].at \in {"limitOf", "insert", "insertWait", "insertSent"}
  BY DEF InsertThrows, InsertAnswerLost, Active
<1>2. Holds(r) /\ Order(r).state # "inserted"
  BY <1>1 DEF RegistrarInv, TaskGood
<1> QED
  BY <1>1, <1>2, PutAgain, FinishFrees

\* Every step of a task.
LEMMA TaskStepKeeps ==
    ASSUME Deployment, RegistrarInv, NEW r \in Tasks, Step(r)
    PROVE  RegistrarInv' /\ StaysPaid
<1>1. CASE Reconcile(r)
  BY <1>1, ReconcileKeeps
<1>2. CASE ReconcileLater(r) \/ ReadFails(r)
  BY <1>2, AnswerKeeps DEF ReconcileLater, ReadFails, Active
<1>3. CASE ReadChain(r)
  BY <1>3, ReadChainKeeps
<1>4. CASE SettleSend(r)
  BY <1>4, BroadcastKeeps DEF SettleSend, Active
<1>5. CASE SettleRefused(r) \/ SettleAnswerLost(r)
  BY <1>5, PutFailedKeeps DEF SettleRefused, SettleFailed, SettleAnswerLost
<1>6. CASE SettleSent(r)
  BY <1>6, SettleSentKeeps
<1>7. CASE SettleReceipt(r)
  BY <1>7, SettleReceiptKeeps
<1>8. CASE SettleThrows(r)
  BY <1>8, SettleThrowsKeeps
<1>9. CASE CheckLeaf(r)
  BY <1>9, CheckLeafKeeps
<1>10. CASE InsertSend(r)
  BY <1>10, BroadcastKeeps DEF InsertSend, Active
<1>11. CASE InsertSent(r)
  BY <1>11, InsertSentKeeps
<1>12. CASE InsertReceipt(r)
  BY <1>12, InsertReceiptKeeps
<1>13. CASE InsertThrows(r) \/ InsertAnswerLost(r)
  BY <1>13, InsertEndsKeeps
<1> QED
  BY <1>1, <1>2, <1>3, <1>4, <1>5, <1>6, <1>7, <1>8, <1>9, <1>10, <1>11, <1>12, <1>13 DEF Step

\* A task begins.
LEMMA StartKeeps ==
    ASSUME Deployment, RegistrarInv, NEW r \in Tasks, req[r] = Resting,
           UNCHANGED <<orders, kept, todo, world>>,
           NEW q \in TaskRecords, Goto(r, q), TaskGood(r)',
           \A s \in Tasks : Active(s) => req[s].a # q.a,
           r # Boot => Booted,
           r = Boot => \A h \in Handlers : ~Active(h)
    PROVE  RegistrarInv' /\ StaysPaid
<1>1. /\ orders' = orders /\ kept' = kept /\ todo' = todo
      /\ txs' = txs /\ blocks' = blocks /\ final' = final
  BY DEF world
<1>2. RegistrarTyped /\ ChainGood /\ Alone
  BY DEF RegistrarInv
<1>3. /\ req' \in [Tasks -> TaskRecords \cup {Resting}] /\ req'[r] = q
      /\ \A s \in Tasks : s # r => req'[s] = req[s]
  BY <1>2 DEF RegistrarTyped, Goto
<1>4. RegistrarTyped' /\ ChainGood'
  BY <1>1, <1>2, <1>3 DEF RegistrarTyped, ChainGood
<1>5. Alone'
  <2>1. \A s, u \in Tasks : Active(s)' /\ Active(u)' /\ req'[s].a = req'[u].a => s = u
    BY <1>2, <1>3 DEF Alone, Active
  <2>2. ~Active(r) /\ Handlers \subseteq Tasks /\ Boot \in Tasks
    BY DEF Active, Resting, Tasks
  <2>3. CASE r = Boot
    BY <2>1, <2>3, <1>1, <1>3, <2>2, ConstantTypes DEF Alone, Active
  <2>4. CASE r # Boot
    <3>1. todo' = {} /\ ~Active(Boot)'
      BY <2>2, <2>4, <1>1, <1>3 DEF Booted, Active, Resting
    <3> QED
      BY <2>1, <3>1 DEF Alone
  <2> QED
    BY <2>3, <2>4
<1>6. ASSUME NEW b \in Auths PROVE BookGood(b)'
  BY <1>1 DEF RegistrarInv, BookGood, Sent, Done
<1>7. ASSUME NEW t \in DOMAIN txs' PROVE TxGood(t)'
  BY <1>1 DEF RegistrarInv, TxGood, Dead
<1>8. ASSUME NEW s \in Tasks PROVE TaskGood(s)'
  <2>1. CASE s = r
    BY <2>1
  <2>2. CASE s # r
    <3>1. TaskGood(s) /\ req'[s] = req[s]
      BY <2>2, <1>3 DEF RegistrarInv
    <3> QED
      BY <3>1, <1>1 DEF TaskGood, Holds, Order, Pursued, Sent
  <2> QED
    BY <2>1, <2>2
<1>9. StaysPaid
  BY <1>1 DEF StaysPaid, StateOf
<1> QED
  BY <1>4, <1>5, <1>6, <1>7, <1>8, <1>9 DEF RegistrarInv

\* The stored order.
LEMMA KeptOrder ==
    ASSUME RegistrarInv, NEW a \in Auths, kept[a] # 0
    PROVE  kept[a] \in Nat /\ orders[kept[a]] \in OrderRecords
BY DEF RegistrarInv, RegistrarTyped

\* The hash it waits for.
LEMMA PursuedType ==
    ASSUME RegistrarInv, NEW a \in Auths, kept[a] # 0
    PROVE  Pursued(kept[a]) \in Nat
BY KeptOrder DEF Pursued, OrderRecords

\* POST /pay.
LEMMA PostKeeps ==
    ASSUME Deployment, RegistrarInv, NEW r \in Handlers, NEW a \in Auths, Post(r, a)
    PROVE  RegistrarInv' /\ StaysPaid
<1> DEFINE o == kept[a]
           Begun(q) == q \in TaskRecords /\ q.a = a /\ Goto(r, q) /\ TaskGood(r)'
<1>1. /\ r \in Tasks /\ r # Boot /\ Booted /\ req[r] = Resting
      /\ UNCHANGED <<orders, kept, todo, world>> /\ ~Busy(a)
  BY ConstantTypes DEF Post, Untouched, Tasks
<1>2. RegistrarTyped /\ o \in Nat
  BY DEF RegistrarInv, RegistrarTyped
<1>3. \A s \in Tasks : Active(s) => req[s].a # a
  BY <1>1 DEF Busy, Active, Booted, Resting, Tasks
<1>4. ASSUME NEW q \in TaskRecords, Goto(r, q) PROVE req'[r] = q
  BY <1>1, <1>2, <1>4 DEF Goto, RegistrarTyped
<1>5. \E q : Begun(q)
  <2>1. CASE /\ o # 0 /\ orders[o].state \in Pending
             /\ Goto(r, Asking(a, o))
    <3> DEFINE q == Asking(a, o)
    <3>2. q \in TaskRecords
      BY <2>1, <1>2, PursuedType DEF TaskRecords, Places, Pending, Asking
    <3>3. req'[r] = q
      BY <3>2, <2>1, <1>4
    <3>4. TaskGood(r)'
      BY <3>3, <2>1, <1>1 DEF TaskGood, Holds, Order, Pursued, Asking
    <3>5. q.a = a
      BY DEF Asking
    <3> QED
      BY <2>1, <3>2, <3>4, <3>5
  <2>2. CASE o # 0 /\ orders[o].state = "settled" /\ Goto(r, At("limitOf", a, o))
    <3> DEFINE q == At("limitOf", a, o)
    <3>1. q \in TaskRecords
      BY <1>2 DEF TaskRecords, Places, At
    <3>2. req'[r] = q
      BY <3>1, <2>2, <1>4
    <3>3. TaskGood(r)'
      BY <3>2, <2>2, <1>1 DEF TaskGood, Holds, Order, At
    <3>4. q.a = a
      BY DEF At
    <3> QED
      BY <2>2, <3>1, <3>3, <3>4
  <2>3. CASE (o # 0 => orders[o].state = "failed") /\ Goto(r, At("read", a, o))
    <3> DEFINE q == At("read", a, o)
    <3>1. q \in TaskRecords
      BY <1>2 DEF TaskRecords, Places, At
    <3>2. req'[r] = q
      BY <3>1, <2>3, <1>4
    <3>3. TaskGood(r)'
      BY <3>2, <2>3, <1>1 DEF TaskGood, Order, At
    <3>4. q.a = a
      BY DEF At
    <3> QED
      BY <2>3, <3>1, <3>3, <3>4
  <2> QED
    BY <2>1, <2>2, <2>3 DEF Post, Take
<1>6. PICK q : Begun(q)
  BY <1>5
<1> QED
  BY <1>1, <1>3, <1>6, StartKeeps

\* recover() takes up a stored order.
LEMMA RecoverKeeps ==
    ASSUME Deployment, RegistrarInv, NEW a \in Auths, Recover(a)
    PROVE  RegistrarInv' /\ StaysPaid
<1> DEFINE o == kept[a]
           Begun(q) == q \in TaskRecords /\ q.a = a /\ Goto(Boot, q) /\ TaskGood(Boot)'
<1>1. /\ Boot \in Tasks /\ req[Boot] = Resting /\ a \in todo
      /\ UNCHANGED <<orders, kept, world>>
  BY DEF Recover, Untouched, Tasks
<1>2. RegistrarTyped /\ Alone /\ o \in Nat /\ o # 0
  BY <1>1 DEF RegistrarInv, RegistrarTyped
<1>3. \A s \in Tasks : ~Active(s)
  BY <1>1, <1>2 DEF Alone, Active, Resting, Tasks
<1>4. ASSUME NEW q \in TaskRecords, Goto(Boot, q) PROVE req'[Boot] = q
  BY <1>1, <1>2, <1>4 DEF Goto, RegistrarTyped
<1>5. CASE orders[o].state \in Pending
  <2> DEFINE q == Asking(a, o)
  <2>2. q \in TaskRecords /\ q.a = a
    BY <1>5, <1>2, PursuedType DEF TaskRecords, Places, Pending, Asking
  <2>3. Goto(Boot, q) /\ todo' = todo
    BY <1>5 DEF Recover, Pending
  <2>4. TaskGood(Boot)'
    BY <2>2, <2>3, <1>1, <1>2, <1>4, <1>5 DEF TaskGood, Holds, Order, Pursued, Asking
  <2> HIDE DEF q
  <2> QED
    BY <2>2, <2>3, <2>4, <1>1, <1>3, StartKeeps DEF Tasks
<1>6. CASE orders[o].state = "settled"
  <2> DEFINE q == At("limitOf", a, o)
  <2>1. q \in TaskRecords /\ q.a = a
    BY <1>2 DEF TaskRecords, Places, At
  <2>2. Goto(Boot, q) /\ todo' = todo
    BY <1>6 DEF Recover, Pending
  <2>3. TaskGood(Boot)'
    BY <2>1, <2>2, <1>1, <1>2, <1>4, <1>6 DEF TaskGood, Holds, Order, At
  <2> HIDE DEF q
  <2> QED
    BY <2>1, <2>2, <2>3, <1>1, <1>3, StartKeeps DEF Tasks
<1>7. CASE orders[o].state \notin Pending /\ orders[o].state # "settled"
  <2>1. todo' = todo \ {a} /\ req' = req
    BY <1>7 DEF Recover
  <2>2. /\ orders' = orders /\ kept' = kept /\ txs' = txs /\ blocks' = blocks /\ final' = final
    BY <1>1 DEF world
  <2>3. RegistrarTyped' /\ ChainGood'
    BY <1>2, <2>1, <2>2 DEF RegistrarInv, RegistrarTyped, ChainGood
  <2>4. Alone'
    BY <1>2, <1>3, <2>1 DEF Alone, Active, Tasks
  <2>5. ASSUME NEW b \in Auths PROVE BookGood(b)'
    BY <2>2 DEF RegistrarInv, BookGood, Sent, Done
  <2>6. ASSUME NEW t \in DOMAIN txs' PROVE TxGood(t)'
    BY <2>2 DEF RegistrarInv, TxGood, Dead
  <2>7. ASSUME NEW s \in Tasks PROVE TaskGood(s)'
    <3>1. TaskGood(s)
      BY DEF RegistrarInv
    <3> QED
      BY <3>1, <2>1, <2>2 DEF TaskGood, Holds, Order, Pursued, Sent
  <2>8. StaysPaid
    BY <2>2 DEF StaysPaid, StateOf
  <2> QED
    BY <2>3, <2>4, <2>5, <2>6, <2>7, <2>8 DEF RegistrarInv
<1> QED
  BY <1>5, <1>6, <1>7

\* A crash forgets the tasks, and nothing that was put.
LEMMA CrashKeeps ==
    ASSUME Deployment, RegistrarInv, Crash
    PROVE  RegistrarInv' /\ StaysPaid
<1>1. /\ orders' = orders /\ kept' = kept /\ txs' = txs /\ blocks' = blocks /\ final' = final
      /\ todo' = {a \in Auths : kept[a] # 0} /\ req' = [r \in DOMAIN req |-> Resting]
  BY DEF Crash, Untouched, world
<1>2. RegistrarTyped /\ ChainGood
  BY DEF RegistrarInv
<1>3. req' \in [Tasks -> TaskRecords \cup {Resting}] /\ \A r \in Tasks : req'[r] = Resting
  BY <1>1, <1>2 DEF RegistrarTyped
<1>4. RegistrarTyped' /\ ChainGood'
  BY <1>1, <1>2, <1>3 DEF RegistrarTyped, ChainGood
<1>5. Alone'
  BY <1>3 DEF Alone, Active, Resting, Tasks
<1>6. ASSUME NEW b \in Auths PROVE BookGood(b)'
  BY <1>1 DEF RegistrarInv, BookGood, Sent, Done
<1>7. ASSUME NEW t \in DOMAIN txs' PROVE TxGood(t)'
  BY <1>1 DEF RegistrarInv, TxGood, Dead
<1>8. ASSUME NEW s \in Tasks PROVE TaskGood(s)'
  BY <1>3 DEF TaskGood, Resting
<1>9. StaysPaid
  BY <1>1 DEF StaysPaid, StateOf
<1> QED
  BY <1>4, <1>5, <1>6, <1>7, <1>8, <1>9 DEF RegistrarInv

\* Before the first request.
LEMMA RegistrarInitially ==
    ASSUME Deployment, RegistrarInit
    PROVE  RegistrarInv
<1>1. RegistrarTyped
  BY DEF RegistrarInit, RegistrarTyped, Tasks
<1>2. blocks = << >> /\ blocks \in Seq({0}) /\ Len(blocks) = 0 /\ DOMAIN blocks = {}
  BY DEF RegistrarInit
<1>3. ChainGood
  BY <1>2, ConstantTypes DEF RegistrarInit, ChainGood
<1>4. \A r \in Tasks : req[r] = Resting
  BY DEF RegistrarInit, Tasks
<1>5. Alone
  BY <1>4 DEF Alone, Active, Resting, Tasks
<1>6. \A a \in Auths : BookGood(a)
  BY DEF RegistrarInit, BookGood
<1>7. \A t \in DOMAIN txs : TxGood(t)
  BY DEF RegistrarInit
<1>8. \A r \in Tasks : TaskGood(r)
  BY <1>4 DEF TaskGood, Resting
<1> QED
  BY <1>1, <1>3, <1>5, <1>6, <1>7, <1>8 DEF RegistrarInv

\* Every step preserves RegistrarInv, and no paid order is ever unpaid.
LEMMA RegistrarInductive ==
    ASSUME Deployment, RegistrarInv, [RegistrarNext]_registrarVars
    PROVE  RegistrarInv' /\ (StaysPaid \/ UNCHANGED registrarVars)
<1>1. CASE \E r \in Handlers, a \in Auths : Post(r, a)
  BY <1>1, PostKeeps
<1>2. CASE \E r \in Tasks : Step(r)
  BY <1>2, TaskStepKeeps
<1>3. CASE \E a \in Auths : Recover(a)
  BY <1>3, RecoverKeeps
<1>4. CASE (\E t \in DOMAIN txs : Mine(t)) \/ MineOther \/ Reorg
  BY <1>4, ChainNextKeeps
<1>5. CASE Crash
  BY <1>5, CrashKeeps
<1>6. CASE UNCHANGED registrarVars
  <2>1. UNCHANGED <<process, txs>> /\ blocks' = blocks /\ final' = final
    BY <1>6 DEF registrarVars, process
  <2>2. ChainGood' /\ \A t : (Done(t) => Done(t)') /\ (Dead(t) => Dead(t)')
    BY <2>1 DEF RegistrarInv, ChainGood, Done, Dead
  <2> QED
    BY <1>6, <2>1, <2>2, ChainStepKeeps
<1> QED
  BY <1>1, <1>2, <1>3, <1>4, <1>5, <1>6 DEF RegistrarNext, Tasks

\* RegistrarInv holds in every reachable state.
THEOREM RegistrarInvariant ==
    ASSUME Deployment
    PROVE  RegistrarSpec => []RegistrarInv
<1>1. RegistrarInit => RegistrarInv
  BY RegistrarInitially
<1>2. RegistrarInv /\ [RegistrarNext]_registrarVars => RegistrarInv'
  BY RegistrarInductive
<1> QED
  BY <1>1, <1>2, PTL DEF RegistrarSpec

\* An order whose payment was taken is never one to be paid again, and a finished order
\* stays finished, through crashes, lost answers, undone blocks and retries.
THEOREM PaidOrdersStay ==
    ASSUME Deployment
    PROVE  RegistrarSpec => PaidStaysPaid
<1>1. RegistrarInv /\ [RegistrarNext]_registrarVars => [StaysPaid]_registrarVars
  BY RegistrarInductive
<1> QED
  BY <1>1, RegistrarInvariant, PTL DEF RegistrarSpec, PaidStaysPaid

\* The order kept for a payment that was taken, and whose hash was once stored, still
\* leads to its leaf, whatever crashes, times out or is undone meanwhile.
THEOREM NoPaymentForgotten ==
    ASSUME Deployment
    PROVE  RegistrarSpec => []PaidIsServed
<1>1. ASSUME RegistrarInv PROVE PaidIsServed
  <2> SUFFICES ASSUME NEW t \in DOMAIN txs, Is(t, "settle"), txs[t].known
               PROVE  /\ kept[txs[t].a] # 0
                      /\ \/ orders[kept[txs[t].a]].state \in PaidStates
                         \/ /\ orders[kept[txs[t].a]].state = "settling"
                            /\ orders[kept[txs[t].a]].settleTx = t
    BY DEF PaidIsServed, PaidStates
  <2>1. TxGood(t) /\ ChainGood /\ txs \in Seq(TxRecords)
    BY <1>1 DEF RegistrarInv, RegistrarTyped
  <2>2. t \in Nat \ {0}
    BY <2>1
  <2>3. ~Dead(t)
    BY <2>1, <2>2, DeadFails DEF Is
  <2> QED
    BY <2>1, <2>3 DEF TxGood, Is
<1> QED
  BY <1>1, RegistrarInvariant, PTL

\* No commitment ever has more inserted leaves than payments, over all authorizations
\* that name it and however often each is retried.
THEOREM LeavesArePaidFor ==
    ASSUME Deployment
    PROVE  RegistrarSpec => []OneLeafPerPayment
<1>1. ASSUME RegistrarInv PROVE OneLeafPerPayment
  <2> SUFFICES ASSUME NEW c \in Commitments
               PROVE  LET Of(kind) == {t \in DOMAIN txs : Is(t, kind) /\ For[txs[t].a] = c}
                      IN  Cardinality({t \in Of("insert") : txs[t].known}) <= Cardinality(Of("settle"))
    BY DEF OneLeafPerPayment
  <2> DEFINE Inserts == {t \in DOMAIN txs : Is(t, "insert") /\ For[txs[t].a] = c /\ txs[t].known}
             Settles == {t \in DOMAIN txs : Is(t, "settle") /\ For[txs[t].a] = c}
             Pays(t, s) == s \in Settles /\ txs[s].a = txs[t].a
             f == [t \in Inserts |-> CHOOSE s : Pays(t, s)]
  <2>1. RegistrarTyped /\ ChainGood /\ txs \in Seq(TxRecords) /\ DOMAIN txs = 1..Len(txs)
    BY <1>1 DEF RegistrarInv, RegistrarTyped
  <2>2. ASSUME NEW t \in Inserts
        PROVE  /\ kept[txs[t].a] # 0 /\ txs[t].a \in Auths
               /\ orders[kept[txs[t].a]].state \in {"inserting", "inserted"}
               /\ orders[kept[txs[t].a]].insertTx = t
    <3>1. TxGood(t) /\ t \in Nat \ {0} /\ txs[t] \in TxRecords
      BY <1>1, <2>1 DEF RegistrarInv
    <3>2. ~Dead(t)
      BY <2>1, <3>1, DeadFails DEF Is
    <3> QED
      BY <3>1, <3>2 DEF TxGood, Is, TxRecords
  <2>3. ASSUME NEW t \in Inserts PROVE \E s : Pays(t, s)
    <3>1. BookGood(txs[t].a)
      BY <1>1, <2>2 DEF RegistrarInv
    <3>2. PICK s \in DOMAIN txs : Sent(s, "settle", txs[t].a) /\ Done(s)
      BY <2>2, <3>1 DEF BookGood, PaidStates
    <3>3. Pays(t, s)
      BY <3>2, DoneSucceeds DEF Is, Sent
    <3> QED
      BY <3>3
  <2>4. \A t \in Inserts : Pays(t, f[t])
    BY <2>3
  <2>5. f \in [Inserts -> Settles]
    BY <2>4
  <2>6. ASSUME NEW t \in Inserts, NEW u \in Inserts, f[t] = f[u]
        PROVE  t = u
    <3>1. Pays(t, f[t]) /\ Pays(u, f[u])
      BY <2>4
    <3> HIDE DEF f, Inserts
    <3>2. txs[t].a = txs[u].a
      BY <3>1, <2>6
    <3> QED
      BY <3>2, <2>2
  <2> HIDE DEF f
  <2>7. IsFiniteSet(DOMAIN txs)
    BY <2>1, FS_Interval
  <2>8. IsFiniteSet(Settles) /\ Settles \subseteq DOMAIN txs
    BY <2>7, FS_Subset
  <2>9. f \in Injection(Inserts, Settles)
    BY <2>5, <2>6 DEF Injection, IsInjective
  <2>10. Cardinality(Inserts) <= Cardinality(Settles)
    BY <2>8, <2>9, FS_Injection DEF ExistsInjection
  <2>11. {t \in {u \in DOMAIN txs : Is(u, "insert") /\ For[txs[u].a] = c} : txs[t].known} = Inserts
    OBVIOUS
  <2> QED
    BY <2>10, <2>11
<1> QED
  BY <1>1, RegistrarInvariant, PTL
=============================================================================
