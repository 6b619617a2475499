--------------------------- MODULE SpentSetProofs ---------------------------
(***************************************************************************)
(* Proofs about SpentSet: for any number of gateways, connections,         *)
(* nullifiers and signals, any epoch length, replay window and clock skew. *)
(***************************************************************************)
EXTENDS SpentSet, SequenceTheorems, FiniteSetTheorems, TLAPS

(* ----------------------------------------------------------------------- *)
(* Arithmetic of epochs.                                                   *)

\* The tick at which a gateway's clock stops accepting n.
Expiry(n) == (EpochOf[n] + 2) * EpochLen

\* The tick at which it starts.
Opening(n) == EpochOf[n] * EpochLen

\* An epoch number times the epoch length is at most the time.
LEMMA DivBelow ==
    ASSUME NEW a \in Nat, NEW d \in Nat \ {0}, NEW e \in Nat, a \div d >= e
    PROVE  a >= e * d
PROOF
<1>1. (a \div d) \in Nat /\ a >= (a \div d) * d
  BY SMT
<1>2. (a \div d) * d >= e * d
  BY <1>1, SMT
<1> QED BY <1>1, <1>2, SMT

\* A nullifier expires one TTL after its epoch opens.
LEMMA ExpiryOpening ==
    ASSUME NEW n \in Nullifiers
    PROVE  /\ Expiry(n) \in Nat /\ Opening(n) \in Nat
           /\ Expiry(n) = Opening(n) + TTL
PROOF
  BY TallyAssumption, SMT DEF Expiry, Opening, TTL

(* ----------------------------------------------------------------------- *)
(* The inductive invariant.                                                *)

\* An envelope in the handler was fresh when it was checked.
ConnOpened ==
    \A c \in Conns : conn[c] # Idle => Clock(conn[c].gw) >= Opening(conn[c].n)

\* So no entry is older than the nullifier's epoch.
EntryOpened ==
    \A g \in Gateways, n \in Nullifiers :
        seen[g][n] # NoEntry => seen[g][n].at >= Opening(n) /\ seen[g][n].at <= Clock(g)

\* Nothing happened in the future.
HistoryPast == \A i \in DOMAIN history : history[i].at <= Clock(history[i].gw)

Expired(g, n) == Clock(g) >= Expiry(n)

\* Until the nullifier of h expires at its gateway, the entry witnesses the
\* admission h, or the slash h.
AdmissionSeen(h) ==
    \/ Expired(h.gw, h.n)
    \/ LET s == seen[h.gw][h.n] IN s # NoEntry /\ s.x = h.x /\ s.at <= h.at

SlashSeen(h) ==
    \/ Expired(h.gw, h.n)
    \/ LET s == seen[h.gw][h.n] IN s # NoEntry /\ s.slashed

AdmissionWitnessed ==
    \A i \in DOMAIN history :
        history[i].what \in {"first", "replay"} => AdmissionSeen(history[i])

SlashWitnessed ==
    \A i \in DOMAIN history : history[i].what = "slash" => SlashSeen(history[i])

IInv ==
    /\ SpentTypeOK /\ ConnOpened /\ EntryOpened /\ HistoryPast
    /\ AdmissionWitnessed /\ SlashWitnessed
    /\ OneSignalPerSlot /\ RetriesInWindow /\ SlashedOnce

(* ----------------------------------------------------------------------- *)
(* What a step that logs an event does to the history.                     *)

\* The local clocks are natural numbers.
LEMMA ClockNat ==
    ASSUME SpentTypeOK, NEW g \in Gateways
    PROVE  Clock(g) \in Nat
PROOF
  BY TallyAssumption, SpentAssumption DEF SpentTypeOK, Clock

\* An event appended to the log is its last one; the earlier ones stay.
LEMMA AppendFacts ==
    ASSUME history \in Seq(Event), NEW e \in Event, history' = Append(history, e)
    PROVE  /\ history' \in Seq(Event)
           /\ \A i \in DOMAIN history' :
                 \/ i \in DOMAIN history /\ history'[i] = history[i]
                 \/ i \notin DOMAIN history /\ i = Len(history) + 1 /\ history'[i] = e
PROOF
  BY AppendProperties

\* Entries are only added or marked.
Kept ==
    \A g \in Gateways, n \in Nullifiers :
        seen[g][n] # NoEntry =>
            /\ seen'[g][n] # NoEntry
            /\ seen'[g][n].x = seen[g][n].x /\ seen'[g][n].at = seen[g][n].at
            /\ seen[g][n].slashed => seen'[g][n].slashed

\* The entry after the step vouches for the event e.
Vouched(e) ==
    LET s == seen[e.gw][e.n]
        t == seen'[e.gw][e.n]
    IN  /\ e.what \in {"first", "replay"} =>
              t # NoEntry /\ t.x = e.x /\ t.at <= e.at /\ e.at - t.at <= ReplayWindow
        /\ e.what = "slash" => s # NoEntry /\ ~s.slashed /\ t # NoEntry /\ t.slashed

\* What the events of the log are made of.
LEMMA EventFacts ==
    ASSUME NEW e \in Event
    PROVE  e.gw \in Gateways /\ e.n \in Nullifiers /\ e.at \in Nat /\ e.x \in Signals
PROOF
  BY DEF Event

\* Timely, in terms of the expiry.
LEMMA TimelyExpiry ==
    ASSUME SpentTypeOK, NEW e \in Event, Timely(e), e.at = Clock(e.gw)
    PROVE  ~Expired(e.gw, e.n)
PROOF
<1>1. e.at < Expiry(e.n)
  BY DEF Timely, Expiry
<1>2. Clock(e.gw) \in Nat /\ Expiry(e.n) \in Nat
  BY EventFacts, ClockNat, ExpiryOpening
<1> QED BY <1>1, <1>2 DEF Expired

\* An event the spent set vouches for keeps what is proved of the log.
LEMMA LogStep ==
    ASSUME IInv, SpentTypeOK', now' = now,
           NEW e \in Event, e.at = Clock(e.gw), history' = Append(history, e),
           Kept, Vouched(e)
    PROVE  /\ HistoryPast' /\ AdmissionWitnessed' /\ SlashWitnessed'
           /\ OneSignalPerSlot' /\ RetriesInWindow' /\ SlashedOnce'
PROOF
<1>t. SpentTypeOK /\ history \in Seq(Event)
  BY DEF IInv, SpentTypeOK
<1>a. \A i \in DOMAIN history' :
         \/ i \in DOMAIN history /\ history'[i] = history[i]
         \/ i \notin DOMAIN history /\ i = Len(history) + 1 /\ history'[i] = e
  BY <1>t, AppendFacts
<1>h. \A i \in DOMAIN history : history[i] \in Event
  BY <1>t
<1>c. \A g \in Gateways : Clock(g)' = Clock(g) /\ Clock(g) \in Nat
  BY <1>t, ClockNat DEF Clock
<1>x. \A h \in Event : Expired(h.gw, h.n)' <=> Expired(h.gw, h.n)
  BY <1>c, EventFacts DEF Expired, Expiry
<1>1. HistoryPast'
  BY <1>a, <1>h, <1>c, EventFacts DEF IInv, HistoryPast
<1>2. AdmissionWitnessed'
  <2>1. \A h \in Event : AdmissionSeen(h) => AdmissionSeen(h)'
    BY <1>x, EventFacts DEF AdmissionSeen, Kept
  <2>2. e.what \in {"first", "replay"} => AdmissionSeen(e)'
    BY DEF AdmissionSeen, Vouched
  <2> QED BY <2>1, <2>2, <1>a, <1>h DEF IInv, AdmissionWitnessed
<1>3. SlashWitnessed'
  <2>1. \A h \in Event : SlashSeen(h) => SlashSeen(h)'
    BY <1>x, EventFacts DEF SlashSeen, Kept
  <2>2. e.what = "slash" => SlashSeen(e)'
    BY DEF SlashSeen, Vouched
  <2> QED BY <2>1, <2>2, <1>a, <1>h DEF IInv, SlashWitnessed
\* A timely new event finds every earlier one of its slot witnessed.
<1>w. ASSUME NEW i \in DOMAIN history, history[i].what \in {"first", "replay"},
             history[i].gw = e.gw, history[i].n = e.n, Timely(e)
      PROVE  /\ seen'[e.gw][e.n] # NoEntry
             /\ seen'[e.gw][e.n].x = history[i].x
             /\ seen'[e.gw][e.n].at <= history[i].at
  <2>1. ~Expired(e.gw, e.n)
    BY <1>w, <1>t, TimelyExpiry
  <2>2. AdmissionSeen(history[i])
    BY <1>w DEF IInv, AdmissionWitnessed
  <2> QED BY <1>w, <2>1, <2>2, EventFacts DEF AdmissionSeen, Kept
<1>4. OneSignalPerSlot'
  <2> SUFFICES ASSUME NEW i \in DOMAIN history', NEW j \in DOMAIN history',
                      history'[i].what \in {"first", "replay"},
                      history'[j].what \in {"first", "replay"},
                      history'[i].gw = history'[j].gw, history'[i].n = history'[j].n,
                      Timely(history'[i]), Timely(history'[j])
               PROVE  history'[i].x = history'[j].x
    BY DEF OneSignalPerSlot, Events, SameSlot, Timely
  <2>1. CASE i \in DOMAIN history /\ j \in DOMAIN history
             /\ history'[i] = history[i] /\ history'[j] = history[j]
    BY <2>1 DEF IInv, OneSignalPerSlot, Events, SameSlot
  <2>2. CASE i \in DOMAIN history /\ history'[i] = history[i] /\ history'[j] = e
    BY <2>2, <1>w DEF Vouched
  <2>3. CASE history'[i] = e /\ j \in DOMAIN history /\ history'[j] = history[j]
    BY <2>3, <1>w DEF Vouched
  <2> QED BY <1>a, <2>1, <2>2, <2>3
<1>5. RetriesInWindow'
  <2> SUFFICES ASSUME NEW i \in DOMAIN history', NEW j \in DOMAIN history',
                      history'[i].what \in {"first", "replay"},
                      history'[j].what \in {"first", "replay"},
                      history'[i].gw = history'[j].gw, history'[i].n = history'[j].n,
                      Timely(history'[i]), Timely(history'[j])
               PROVE  history'[j].at - history'[i].at <= ReplayWindow
    BY DEF RetriesInWindow, Events, SameSlot, Timely
  <2>1. CASE i \in DOMAIN history /\ j \in DOMAIN history
             /\ history'[i] = history[i] /\ history'[j] = history[j]
    BY <2>1 DEF IInv, RetriesInWindow, Events, SameSlot
  <2>2. CASE i \in DOMAIN history /\ history'[i] = history[i] /\ history'[j] = e
    <3>1. /\ seen'[e.gw][e.n].at <= history[i].at
          /\ e.at - seen'[e.gw][e.n].at <= ReplayWindow
      BY <2>2, <1>w DEF Vouched
    <3>2. seen'[e.gw][e.n] \in Entry
      BY <2>2, <1>w, EventFacts DEF SpentTypeOK
    <3>3. seen'[e.gw][e.n].at \in Nat /\ e.at \in Nat /\ history[i].at \in Nat
      BY <3>2, <2>2, <1>h, EventFacts DEF Entry
    <3> QED BY <3>1, <3>3, <2>2, SpentAssumption
  <2>3. CASE history'[i] = e /\ j \in DOMAIN history /\ history'[j] = history[j]
    <3>1. history[j].at <= e.at
      BY <2>3 DEF IInv, HistoryPast
    <3>2. e.at \in Nat /\ history[j].at \in Nat
      BY <2>3, <1>h, EventFacts
    <3> QED BY <3>1, <3>2, <2>3, SpentAssumption
  <2>4. CASE history'[i] = e /\ history'[j] = e
    BY <2>4, EventFacts, SpentAssumption
  <2> QED BY <1>a, <2>1, <2>2, <2>3, <2>4
<1>6. SlashedOnce'
  <2> SUFFICES ASSUME NEW i \in DOMAIN history', NEW j \in DOMAIN history',
                      history'[i].what = "slash", history'[j].what = "slash",
                      history'[i].gw = history'[j].gw, history'[i].n = history'[j].n,
                      Timely(history'[i]), Timely(history'[j])
               PROVE  i = j
    BY DEF SlashedOnce, Events, SameSlot, Timely
  <2>0. ASSUME NEW k \in DOMAIN history, history[k].what = "slash", e.what = "slash",
               history[k].gw = e.gw, history[k].n = e.n, Timely(e)
        PROVE  FALSE
    <3>1. ~Expired(e.gw, e.n)
      BY <2>0, <1>t, TimelyExpiry
    <3>2. SlashSeen(history[k])
      BY <2>0 DEF IInv, SlashWitnessed
    <3> QED BY <2>0, <3>1, <3>2 DEF SlashSeen, Vouched
  <2>1. CASE i \in DOMAIN history /\ j \in DOMAIN history
             /\ history'[i] = history[i] /\ history'[j] = history[j]
    BY <2>1 DEF IInv, SlashedOnce, Events, SameSlot
  <2>2. CASE i \in DOMAIN history /\ history'[i] = history[i] /\ history'[j] = e
    BY <2>2, <2>0
  <2>3. CASE history'[i] = e /\ j \in DOMAIN history /\ history'[j] = history[j]
    BY <2>3, <2>0
  <2> QED BY <1>a, <2>1, <2>2, <2>3
<1> QED BY <1>1, <1>2, <1>3, <1>4, <1>5, <1>6

(* ----------------------------------------------------------------------- *)
(* Steps that log nothing.                                                 *)

\* Time may pass and entries may be forgotten, once their nullifier expired.
LEMMA QuietStep ==
    ASSUME IInv, SpentTypeOK', now' >= now, history' = history,
           \A g \in Gateways, n \in Nullifiers :
               \/ seen'[g][n] = seen[g][n]
               \/ seen[g][n] # NoEntry /\ seen'[g][n] = NoEntry /\ Expired(g, n)
    PROVE  /\ EntryOpened' /\ HistoryPast' /\ AdmissionWitnessed' /\ SlashWitnessed'
           /\ OneSignalPerSlot' /\ RetriesInWindow' /\ SlashedOnce'
PROOF
<1>t. SpentTypeOK /\ \A i \in DOMAIN history : history[i] \in Event
  BY DEF IInv, SpentTypeOK
<1>c. \A g \in Gateways : Clock(g) \in Nat /\ Clock(g)' \in Nat /\ Clock(g)' >= Clock(g)
  BY <1>t, TallyAssumption, SpentAssumption DEF Clock, SpentTypeOK
<1>x. \A h \in Event : Expired(h.gw, h.n) => Expired(h.gw, h.n)'
  BY <1>c, EventFacts, ExpiryOpening DEF Expired, Expiry
<1>1. EntryOpened'
  <2> SUFFICES ASSUME NEW g \in Gateways, NEW n \in Nullifiers, seen'[g][n] # NoEntry
               PROVE  seen'[g][n].at >= Opening(n) /\ seen'[g][n].at <= Clock(g)'
    BY DEF EntryOpened, Opening, Clock
  <2>1. seen'[g][n] = seen[g][n]
    OBVIOUS
  <2>2. seen[g][n].at >= Opening(n) /\ seen[g][n].at <= Clock(g)
    BY <2>1 DEF IInv, EntryOpened
  <2>3. seen[g][n].at \in Nat
    BY <1>t, <2>1 DEF SpentTypeOK, Entry
  <2> QED BY <2>1, <2>2, <2>3, <1>c
<1>2. HistoryPast'
  BY <1>t, <1>c, EventFacts DEF IInv, HistoryPast
<1>3. AdmissionWitnessed'
  <2>1. \A h \in Event : AdmissionSeen(h) => AdmissionSeen(h)'
    BY <1>x, EventFacts DEF AdmissionSeen
  <2> QED BY <2>1, <1>t DEF IInv, AdmissionWitnessed
<1>4. SlashWitnessed'
  <2>1. \A h \in Event : SlashSeen(h) => SlashSeen(h)'
    BY <1>x, EventFacts DEF SlashSeen
  <2> QED BY <2>1, <1>t DEF IInv, SlashWitnessed
<1>5. OneSignalPerSlot' /\ RetriesInWindow' /\ SlashedOnce'
  BY DEF IInv, OneSignalPerSlot, RetriesInWindow, SlashedOnce, Events, SameSlot, Timely
<1> QED BY <1>1, <1>2, <1>3, <1>4, <1>5

\* The envelope a connection carries.
LEMMA CallFacts ==
    ASSUME SpentTypeOK, NEW c \in Conns, conn[c] # Idle
    PROVE  /\ conn[c].gw \in Gateways /\ conn[c].n \in Nullifiers /\ conn[c].x \in Signals
           /\ Clock(conn[c].gw) \in Nat /\ conn[c] \in Call
           /\ EntryOf(c) = seen[conn[c].gw][conn[c].n]
           /\ EntryOf(c) \in Entry \cup {NoEntry}
PROOF
<1>1. conn[c] \in Call
  BY DEF SpentTypeOK
<1>2. conn[c].gw \in Gateways /\ conn[c].n \in Nullifiers /\ conn[c].x \in Signals
  BY <1>1 DEF Call
<1> QED BY <1>1, <1>2, ClockNat DEF EntryOf, SpentTypeOK

Ev(c, what) == [gw |-> conn[c].gw, n |-> conn[c].n, x |-> conn[c].x,
                at |-> Clock(conn[c].gw), what |-> what]

\* What logging a decision about an envelope does to the log.
LEMMA LogFacts ==
    ASSUME SpentTypeOK, NEW c \in Conns, conn[c] # Idle,
           NEW what \in Verdict \cup {"open"}, Log(c, what)
    PROVE  /\ Ev(c, what) \in Event
           /\ Ev(c, what).at = Clock(Ev(c, what).gw)
           /\ Ev(c, what).gw = conn[c].gw /\ Ev(c, what).n = conn[c].n
           /\ Ev(c, what).x = conn[c].x /\ Ev(c, what).what = what
           /\ history' = Append(history, Ev(c, what))
           /\ history' \in Seq(Event)
PROOF
<1>1. Ev(c, what) \in Event
  BY CallFacts DEF Ev, Event
<1>2. history' = Append(history, Ev(c, what))
  BY DEF Log, Ev
<1>3. history' \in Seq(Event)
  BY <1>1, <1>2 DEF SpentTypeOK
<1> QED BY <1>1, <1>2, <1>3 DEF Ev

\* A connection in some state but "idle" carries an envelope.
LEMMA NotIdle ==
    ASSUME NEW c \in Conns, conn[c].st # "idle"
    PROVE  conn[c] # Idle
PROOF
  BY DEF Idle

\* Waiting for something else, or being done, leaves the rest alone.
LEMMA ConnStep ==
    ASSUME SpentTypeOK, ConnOpened, now' = now, NEW c \in Conns, conn[c] # Idle,
           \/ Finished(c)
           \/ \E st \in {"slashing", "admitted", "open"} : Await(c, st)
    PROVE  /\ conn' \in [Conns -> Call \cup {Idle}]
           /\ ConnOpened'
PROOF
<1>1. conn \in [Conns -> Call \cup {Idle}] /\ conn[c] \in Call
  BY CallFacts DEF SpentTypeOK
<1>2. CASE Finished(c)
  BY <1>1, <1>2 DEF Finished, ConnOpened, Clock, Opening
<1>3. CASE \E st \in {"slashing", "admitted", "open"} : Await(c, st)
  <2>1. PICK st \in {"slashing", "admitted", "open"} : Await(c, st)
    BY <1>3
  <2>2. conn' = [conn EXCEPT ![c] = [conn[c] EXCEPT !.st = st]]
    BY <2>1 DEF Await
  <2>3. [conn[c] EXCEPT !.st = st] \in Call
    BY <1>1 DEF Call
  <2>4. /\ [conn[c] EXCEPT !.st = st].gw = conn[c].gw
        /\ [conn[c] EXCEPT !.st = st].n = conn[c].n
    BY <1>1 DEF Call
  <2>5. conn' \in [Conns -> Call \cup {Idle}]
    BY <1>1, <2>2, <2>3
  <2>6. ConnOpened'
    <3> SUFFICES ASSUME NEW d \in Conns, conn'[d] # Idle
                 PROVE  Clock(conn'[d].gw) >= Opening(conn'[d].n)
      BY DEF ConnOpened, Clock, Opening
    <3>1. CASE d = c
      BY <3>1, <1>1, <2>2, <2>4 DEF ConnOpened
    <3>2. CASE d # c
      BY <3>2, <1>1, <2>2 DEF ConnOpened
    <3> QED BY <3>1, <3>2
  <2> QED BY <2>5, <2>6
<1> QED BY <1>2, <1>3

(* ----------------------------------------------------------------------- *)
(* The actions.                                                            *)

\* Setting the entry of one nullifier leaves the others alone.
LEMMA SetEntryFacts ==
    ASSUME SpentTypeOK, NEW c \in Conns, conn[c] # Idle, NEW e \in Entry, SetEntry(c, e)
    PROVE  /\ seen' \in [Gateways -> [Nullifiers -> Entry \cup {NoEntry}]]
           /\ seen'[conn[c].gw][conn[c].n] = e /\ e # NoEntry
           /\ \A g \in Gateways, n \in Nullifiers :
                 seen'[g][n] = seen[g][n] \/ (g = conn[c].gw /\ n = conn[c].n)
PROOF
<1>1. e # NoEntry
  BY SpentAssumption DEF Entry, NoEntry
<1> QED BY <1>1, CallFacts DEF SetEntry, SpentTypeOK

\* An accepted envelope is of an epoch still acceptable to its gateway.
LEMMA CheckEnvelopeStep ==
    ASSUME IInv, NEW c \in Conns, NEW g \in Gateways, NEW n \in Nullifiers,
           NEW x \in Signals, CheckEnvelope(c, g, n, x)
    PROVE  IInv'
PROOF
<1> DEFINE k == [st |-> "proving", gw |-> g, n |-> n, x |-> x]
<1>0. SpentTypeOK /\ ConnOpened
  BY DEF IInv
<1>1. /\ k \in Call /\ k.gw = g /\ k.n = n
      /\ conn' = [conn EXCEPT ![c] = k]
      /\ presented' \in 0..MaxEnvelopes
      /\ UNCHANGED <<now, seen, history>>
  BY <1>0, SpentAssumption DEF CheckEnvelope, Call, SpentTypeOK
<1> HIDE DEF k
<1>2. SpentTypeOK'
  BY <1>0, <1>1 DEF SpentTypeOK
<1>3. Clock(g) >= Opening(n)
  <2>1. Clock(g) \in Nat /\ EpochOf[n] \in Nat /\ EpochLen \in Nat \ {0}
    BY <1>0, ClockNat, TallyAssumption
  <2>2. Clock(g) \div EpochLen \in Int
    BY <2>1
  <2>3. Clock(g) \div EpochLen >= EpochOf[n]
    BY <2>1, <2>2 DEF CheckEnvelope, Fresh, CurrentEpoch
  <2> QED BY <2>1, <2>3, DivBelow DEF Opening
<1>4. ConnOpened'
  <2> SUFFICES ASSUME NEW d \in Conns, conn'[d] # Idle
               PROVE  Clock(conn'[d].gw) >= Opening(conn'[d].n)
    BY <1>1 DEF ConnOpened, Clock, Opening
  <2>1. CASE d = c
    BY <2>1, <1>0, <1>1, <1>3 DEF SpentTypeOK
  <2>2. CASE d # c
    BY <2>2, <1>0, <1>1 DEF ConnOpened, SpentTypeOK
  <2> QED BY <2>1, <2>2
<1>5. now' >= now
  BY <1>0, <1>1, SpentAssumption DEF SpentTypeOK
<1> QED BY <1>1, <1>2, <1>4, <1>5, QuietStep DEF IInv

\* Steps after which the connection waits for something else or is done, and
\* nothing else that the invariant speaks of changes.
LEMMA QuietConnStep ==
    ASSUME IInv, NEW c \in Conns, conn[c] # Idle,
           \/ Finished(c)
           \/ \E st \in {"slashing", "admitted", "open"} : Await(c, st),
           UNCHANGED <<now, seen, presented, history>>
    PROVE  IInv'
PROOF
<1>0. SpentTypeOK /\ ConnOpened
  BY DEF IInv
<1>1. conn' \in [Conns -> Call \cup {Idle}] /\ ConnOpened'
  BY <1>0, ConnStep
<1>2. SpentTypeOK'
  BY <1>0, <1>1 DEF SpentTypeOK
<1>3. now' >= now
  BY <1>0, SpentAssumption DEF SpentTypeOK
<1> QED BY <1>1, <1>2, <1>3, QuietStep DEF IInv

\* Steps that log a decision about the envelope.
LEMMA LogConnStep ==
    ASSUME IInv, NEW c \in Conns, conn[c] # Idle,
           NEW what \in Verdict \cup {"open"}, Log(c, what),
           \/ Finished(c)
           \/ \E st \in {"slashing", "admitted", "open"} : Await(c, st),
           UNCHANGED <<now, presented>>,
           seen' \in [Gateways -> [Nullifiers -> Entry \cup {NoEntry}]],
           Kept, EntryOpened', Vouched(Ev(c, what))
    PROVE  IInv'
PROOF
<1>0. SpentTypeOK /\ ConnOpened
  BY DEF IInv
<1>1. conn' \in [Conns -> Call \cup {Idle}] /\ ConnOpened'
  BY <1>0, ConnStep
<1>2. SpentTypeOK'
  BY <1>0, <1>1, LogFacts DEF SpentTypeOK
<1> QED BY <1>0, <1>1, <1>2, LogFacts, LogStep DEF IInv

\* A step that leaves time and the spent sets alone keeps their part of the invariant.
LEMMA SameSeen ==
    ASSUME IInv, UNCHANGED <<now, seen>>
    PROVE  /\ seen' \in [Gateways -> [Nullifiers -> Entry \cup {NoEntry}]]
           /\ Kept /\ EntryOpened'
PROOF
  BY DEF IInv, SpentTypeOK, Kept, EntryOpened, Opening, Clock

\* The first signal of a nullifier makes its entry.
LEMMA AdmitFirstStep ==
    ASSUME IInv, NEW c \in Conns, AdmitFirst(c)
    PROVE  IInv'
PROOF
<1> DEFINE e == [x |-> conn[c].x, slashed |-> FALSE, at |-> Clock(conn[c].gw)]
<1>0. SpentTypeOK /\ conn[c] # Idle /\ EntryOf(c) = NoEntry
  BY NotIdle DEF IInv, AdmitFirst
<1>1. conn[c].gw \in Gateways /\ conn[c].n \in Nullifiers /\ conn[c].x \in Signals
      /\ Clock(conn[c].gw) \in Nat /\ seen[conn[c].gw][conn[c].n] = NoEntry
  BY <1>0, CallFacts
<1>2. e \in Entry /\ e.x = conn[c].x /\ e.at = Clock(conn[c].gw)
  BY <1>1 DEF Entry
<1>3. /\ SetEntry(c, e) /\ Log(c, "first") /\ Await(c, "admitted")
      /\ UNCHANGED <<now, presented>>
  BY DEF AdmitFirst
<1> HIDE DEF e
<1>4. /\ seen' \in [Gateways -> [Nullifiers -> Entry \cup {NoEntry}]]
      /\ seen'[conn[c].gw][conn[c].n] = e /\ e # NoEntry
      /\ \A g \in Gateways, n \in Nullifiers :
            seen'[g][n] = seen[g][n] \/ (g = conn[c].gw /\ n = conn[c].n)
  BY <1>0, <1>2, <1>3, SetEntryFacts
<1>5. Kept
  BY <1>1, <1>4 DEF Kept
<1>6. EntryOpened'
  <2> SUFFICES ASSUME NEW g \in Gateways, NEW n \in Nullifiers, seen'[g][n] # NoEntry
               PROVE  seen'[g][n].at >= Opening(n) /\ seen'[g][n].at <= Clock(g)
    BY <1>3 DEF EntryOpened, Opening, Clock
  <2>1. CASE seen'[g][n] = seen[g][n]
    BY <2>1 DEF IInv, EntryOpened
  <2>2. CASE g = conn[c].gw /\ n = conn[c].n
    BY <2>2, <1>0, <1>1, <1>2, <1>4 DEF IInv, ConnOpened
  <2> QED BY <2>1, <2>2, <1>4
<1>7. "first" \in Verdict \cup {"open"}
  BY DEF Verdict
<1>8. Vouched(Ev(c, "first"))
  <2>1. /\ Ev(c, "first").gw = conn[c].gw /\ Ev(c, "first").n = conn[c].n
        /\ Ev(c, "first").x = conn[c].x /\ Ev(c, "first").what = "first"
        /\ Ev(c, "first").at = Clock(conn[c].gw)
    BY DEF Ev
  <2> QED BY <2>1, <1>1, <1>2, <1>4, SpentAssumption DEF Vouched
<1> QED BY <1>0, <1>3, <1>4, <1>5, <1>6, <1>7, <1>8, LogConnStep

\* A second signal marks the entry as slashed, once.
LEMMA OverSpendStep ==
    ASSUME IInv, NEW c \in Conns, OverSpend(c)
    PROVE  IInv'
PROOF
<1> DEFINE s == seen[conn[c].gw][conn[c].n]
           e == [s EXCEPT !.slashed = TRUE]
<1>0. SpentTypeOK /\ conn[c] # Idle
  BY NotIdle DEF IInv, OverSpend
<1>1. /\ conn[c].gw \in Gateways /\ conn[c].n \in Nullifiers
      /\ Clock(conn[c].gw) \in Nat /\ EntryOf(c) = s
  BY <1>0, CallFacts
<1>2. s \in Entry /\ ~s.slashed /\ s # NoEntry
  BY <1>0, <1>1, CallFacts DEF OverSpend
<1>3. e \in Entry /\ e.x = s.x /\ e.at = s.at /\ e.slashed
  BY <1>2 DEF Entry
<1>4. /\ SetEntry(c, e) /\ Log(c, "slash") /\ Await(c, "slashing")
      /\ UNCHANGED <<now, presented>>
  BY <1>1 DEF OverSpend
<1> HIDE DEF e
<1>5. /\ seen' \in [Gateways -> [Nullifiers -> Entry \cup {NoEntry}]]
      /\ seen'[conn[c].gw][conn[c].n] = e /\ e # NoEntry
      /\ \A g \in Gateways, n \in Nullifiers :
            seen'[g][n] = seen[g][n] \/ (g = conn[c].gw /\ n = conn[c].n)
  BY <1>0, <1>3, <1>4, SetEntryFacts
<1>6. Kept
  BY <1>2, <1>3, <1>5 DEF Kept
<1>7. EntryOpened'
  <2> SUFFICES ASSUME NEW g \in Gateways, NEW n \in Nullifiers, seen'[g][n] # NoEntry
               PROVE  seen'[g][n].at >= Opening(n) /\ seen'[g][n].at <= Clock(g)
    BY <1>4 DEF EntryOpened, Opening, Clock
  <2>1. CASE seen'[g][n] = seen[g][n]
    BY <2>1 DEF IInv, EntryOpened
  <2>2. CASE g = conn[c].gw /\ n = conn[c].n
    BY <2>2, <1>1, <1>2, <1>3, <1>5 DEF IInv, EntryOpened
  <2> QED BY <2>1, <2>2, <1>5
<1>8. "slash" \in Verdict \cup {"open"}
  BY DEF Verdict
<1>9. Vouched(Ev(c, "slash"))
  <2>1. /\ Ev(c, "slash").gw = conn[c].gw /\ Ev(c, "slash").n = conn[c].n
        /\ Ev(c, "slash").what = "slash"
    BY DEF Ev
  <2> QED BY <2>1, <1>1, <1>2, <1>3, <1>5 DEF Vouched
<1> QED BY <1>0, <1>4, <1>5, <1>6, <1>7, <1>8, <1>9, LogConnStep

\* A retry is let through or turned away without changing the entry.
LEMMA SameSignalStep ==
    ASSUME IInv, NEW c \in Conns, SameSignal(c)
    PROVE  IInv'
PROOF
<1>0. SpentTypeOK /\ conn[c] # Idle /\ UNCHANGED <<now, seen, presented>>
  BY NotIdle DEF IInv, SameSignal
<1>1. /\ conn[c].gw \in Gateways /\ conn[c].n \in Nullifiers
      /\ Clock(conn[c].gw) \in Nat /\ EntryOf(c) = seen[conn[c].gw][conn[c].n]
  BY <1>0, CallFacts
<1>2. CASE InWindow(c) /\ Log(c, "replay") /\ Await(c, "admitted")
  <2>1. /\ Ev(c, "replay").gw = conn[c].gw /\ Ev(c, "replay").n = conn[c].n
        /\ Ev(c, "replay").x = conn[c].x /\ Ev(c, "replay").what = "replay"
        /\ Ev(c, "replay").at = Clock(conn[c].gw)
    BY DEF Ev
  <2>2. EntryOf(c) # NoEntry /\ EntryOf(c).x = conn[c].x
    BY DEF SameSignal
  <2>3. EntryOf(c).at <= Clock(conn[c].gw)
    BY <2>2, <1>1 DEF IInv, EntryOpened
  <2>4. Clock(conn[c].gw) - EntryOf(c).at <= ReplayWindow
    BY <1>2 DEF InWindow
  <2>5. Vouched(Ev(c, "replay"))
    BY <2>1, <2>2, <2>3, <2>4, <1>0, <1>1 DEF Vouched
  <2> QED BY <2>5, <1>2, <1>0, SameSeen, LogConnStep DEF Verdict
<1>3. CASE Log(c, "late-replay") /\ Finished(c)
  <2>1. Vouched(Ev(c, "late-replay"))
    BY DEF Vouched, Ev
  <2> QED BY <2>1, <1>3, <1>0, SameSeen, LogConnStep DEF Verdict
<1> QED BY <1>2, <1>3 DEF SameSignal

\* An envelope turned away, and a dial that succeeds, change no entry.
LEMMA RejectStep ==
    ASSUME IInv, NEW c \in Conns, RejectFleetReplay(c) \/ RejectSlashed(c) \/ Connect(c)
    PROVE  IInv'
PROOF
<1>0. SpentTypeOK /\ conn[c] # Idle /\ UNCHANGED <<now, seen, presented>>
  BY NotIdle DEF IInv, RejectFleetReplay, RejectSlashed, Connect
<1>1. PICK what \in {"fleet-replay", "rate-slashed", "open"} : Log(c, what)
  BY DEF RejectFleetReplay, RejectSlashed, Connect
<1>2. Finished(c) \/ Await(c, "open")
  BY DEF RejectFleetReplay, RejectSlashed, Connect
<1>3. Vouched(Ev(c, what))
  BY DEF Vouched, Ev
<1> QED BY <1>0, <1>1, <1>2, <1>3, SameSeen, LogConnStep DEF Verdict

\* The sweep forgets entries of expired nullifiers alone.
LEMMA SweepStep ==
    ASSUME IInv, NEW g \in Gateways, Sweep(g)
    PROVE  IInv'
PROOF
<1>0. SpentTypeOK /\ UNCHANGED <<now, conn, presented, history>>
  BY DEF IInv, Sweep
<1>1. seen' = [seen EXCEPT ![g] = [n \in Nullifiers |->
                   IF seen[g][n].at < Clock(g) - TTL THEN NoEntry ELSE seen[g][n]]]
  BY DEF Sweep
<1>2. SpentTypeOK' /\ now' >= now /\ ConnOpened'
  BY <1>0, <1>1, SpentAssumption DEF SpentTypeOK, IInv, ConnOpened, Clock, Opening
<1>3. ASSUME NEW h \in Gateways, NEW n \in Nullifiers, seen'[h][n] # seen[h][n]
      PROVE  seen[h][n] # NoEntry /\ seen'[h][n] = NoEntry /\ Expired(h, n)
  <2>1. /\ h = g /\ seen[g][n].at < Clock(g) - TTL
        /\ seen'[g][n] = NoEntry /\ seen[g][n] # NoEntry
    BY <1>0, <1>1, <1>3 DEF SpentTypeOK
  <2>2. seen[g][n].at >= Opening(n) /\ seen[g][n].at \in Nat
    BY <1>0, <2>1 DEF IInv, EntryOpened, SpentTypeOK, Entry
  <2>3. /\ Clock(g) \in Nat /\ Expiry(n) \in Nat /\ Opening(n) \in Nat
        /\ Expiry(n) = Opening(n) + TTL
    BY <1>0, ClockNat, ExpiryOpening
  <2>4. TTL \in Nat
    BY TallyAssumption DEF TTL
  <2> QED BY <2>1, <2>2, <2>3, <2>4 DEF Expired
<1> QED BY <1>0, <1>2, <1>3, QuietStep DEF IInv

\* Time passes: nullifiers expire and retry windows close.
LEMMA TickStep ==
    ASSUME IInv, Tick
    PROVE  IInv'
PROOF
<1>0. SpentTypeOK /\ UNCHANGED <<seen, conn, presented, history>>
  BY DEF IInv, Tick
<1>1. SpentTypeOK' /\ now' >= now
  BY <1>0, SpentAssumption DEF SpentTypeOK, Tick
<1>2. \A g \in Gateways : Clock(g) \in Nat /\ Clock(g)' \in Nat /\ Clock(g)' >= Clock(g)
  BY <1>0, <1>1, TallyAssumption, SpentAssumption DEF Clock, SpentTypeOK
<1>3. ConnOpened'
  <2> SUFFICES ASSUME NEW c \in Conns, conn[c] # Idle
               PROVE  Clock(conn[c].gw)' >= Opening(conn[c].n)
    BY <1>0 DEF ConnOpened, Clock, Opening
  <2>1. conn[c].gw \in Gateways /\ conn[c].n \in Nullifiers
    BY <1>0, CallFacts
  <2>2. Clock(conn[c].gw) >= Opening(conn[c].n)
    BY DEF IInv, ConnOpened
  <2>3. Clock(conn[c].gw)' >= Clock(conn[c].gw) /\ Clock(conn[c].gw)' \in Nat
    BY <2>1, <1>0, <1>1, TallyAssumption, SpentAssumption DEF Clock, SpentTypeOK
  <2> QED BY <2>1, <2>2, <2>3, <1>2, ExpiryOpening
<1> QED BY <1>0, <1>1, <1>3, QuietStep DEF IInv

\* With no entry and no event the invariant holds.
LEMMA Initial == Init => IInv
PROOF
<1> SUFFICES ASSUME Init PROVE IInv
  OBVIOUS
<1>1. SpentTypeOK
  BY SpentAssumption DEF Init, SpentTypeOK
<1> QED BY <1>1 DEF Init, IInv, ConnOpened, EntryOpened, HistoryPast, AdmissionWitnessed,
       SlashWitnessed, OneSignalPerSlot, RetriesInWindow, SlashedOnce, Events

\* Every step preserves the invariant.
LEMMA Inductive == IInv /\ [Next]_vars => IInv'
PROOF
<1> SUFFICES ASSUME IInv, [Next]_vars PROVE IInv'
  OBVIOUS
<1>1. ASSUME NEW c \in Conns, NEW g \in Gateways, NEW n \in Nullifiers, NEW x \in Signals,
             CheckEnvelope(c, g, n, x)
      PROVE  IInv'
  BY <1>1, CheckEnvelopeStep
<1>2. ASSUME NEW c \in Conns, InvalidProof(c) \/ SlashDone(c) \/ Drop(c)
      PROVE  IInv'
  BY <1>2, NotIdle, QuietConnStep DEF InvalidProof, SlashDone, Drop
<1>3. ASSUME NEW c \in Conns, Admit(c)
      PROVE  IInv'
  BY <1>3, AdmitFirstStep, RejectStep, SameSignalStep, OverSpendStep DEF Admit
<1>4. ASSUME NEW c \in Conns, Connect(c)
      PROVE  IInv'
  BY <1>4, RejectStep
<1>5. ASSUME NEW g \in Gateways, Sweep(g)
      PROVE  IInv'
  BY <1>5, SweepStep
<1>6. ASSUME NEW g \in Gateways, NEW q \in Gateways, NEW n \in Nullifiers, Push(g, q, n)
      PROVE  IInv'
  <2>1. UNCHANGED <<now, seen, conn, presented, history>>
    BY <1>6 DEF Push
  <2> QED BY <2>1 DEF IInv, SpentTypeOK, ConnOpened, EntryOpened, HistoryPast,
         AdmissionWitnessed, SlashWitnessed, AdmissionSeen, SlashSeen, Expired, Expiry,
         Opening, Clock, OneSignalPerSlot, RetriesInWindow, SlashedOnce, Events,
         SameSlot, Timely
<1>7. CASE Tick
  BY <1>7, TickStep
<1>8. CASE UNCHANGED vars
  BY <1>8 DEF vars, IInv, SpentTypeOK, ConnOpened, EntryOpened, HistoryPast,
     AdmissionWitnessed, SlashWitnessed, AdmissionSeen, SlashSeen, Expired, Expiry,
     Opening, Clock, OneSignalPerSlot, RetriesInWindow, SlashedOnce, Events,
     SameSlot, Timely
<1> QED BY <1>1, <1>2, <1>3, <1>4, <1>5, <1>6, <1>7, <1>8 DEF Next

\* Whatever the number of connections, the proving delays and the phase of the
\* sweep timer, one gateway never admits two signals under a nullifier its
\* clock still accepts: keeping entries for two epochs is enough.
THEOREM OneSignal == Spec => []OneSignalPerSlot
PROOF
<1>1. IInv => OneSignalPerSlot
  BY DEF IInv
<1> QED BY <1>1, Initial, Inductive, PTL DEF Spec

\* Identical envelopes are let through only inside the retry window counted
\* from the first admission, and a retry never extends the window.
THEOREM RetryWindow == Spec => []RetriesInWindow
PROOF
<1>1. IInv => RetriesInWindow
  BY DEF IInv
<1> QED BY <1>1, Initial, Inductive, PTL DEF Spec

\* Racing over-spends of one nullifier start one slash at a gateway, however
\* long the transaction takes.
THEOREM SlashOnce == Spec => []SlashedOnce
PROOF
<1>1. IInv => SlashedOnce
  BY DEF IInv
<1> QED BY <1>1, Initial, Inductive, PTL DEF Spec

(* ----------------------------------------------------------------------- *)
(* An over-spender is slashed.  This is for gateways without a fleet: one   *)
(* that turns a nullifier away on a peer's word records no signal of it.   *)

SlashLogged(g, n) ==
    \E k \in DOMAIN history :
        history[k].what = "slash" /\ history[k].gw = g /\ history[k].n = n

\* An entry is marked by nothing else than a slash.
MarkedBySlash ==
    \A g \in Gateways, n \in Nullifiers : seen[g][n].slashed => SlashLogged(g, n)

\* Until the nullifier of h expires at its gateway, the entry holds the signal
\* of h, or is marked.
VerdictSeen(h) ==
    \/ Expired(h.gw, h.n)
    \/ LET s == seen[h.gw][h.n] IN s # NoEntry /\ (s.slashed \/ s.x = h.x)

VerdictWitnessed ==
    \A i \in DOMAIN history : history[i].what \in Verdict => VerdictSeen(history[i])

JInv == IInv /\ MarkedBySlash /\ VerdictWitnessed /\ OverSpendSlashed

\* The entry after the step holds the signal that was judged, or is marked, and
\* it is marked by a slash.
Judged(e) ==
    /\ e.what \in Verdict =>
          LET t == seen'[e.gw][e.n] IN t # NoEntry /\ (t.slashed \/ t.x = e.x)
    /\ \A g \in Gateways, n \in Nullifiers :
          seen'[g][n].slashed =>
              seen[g][n].slashed \/ (e.what = "slash" /\ e.gw = g /\ e.n = n)

\* A step that logs an event the spent set judged.
LEMMA JudgedStep ==
    ASSUME JInv, IInv', now' = now,
           NEW e \in Event, e.at = Clock(e.gw), history' = Append(history, e),
           Kept, Judged(e)
    PROVE  JInv'
PROOF
<1>t. SpentTypeOK /\ history \in Seq(Event)
  BY DEF JInv, IInv, SpentTypeOK
<1>a. \A i \in DOMAIN history' :
         \/ i \in DOMAIN history /\ history'[i] = history[i]
         \/ i \notin DOMAIN history /\ i = Len(history) + 1 /\ history'[i] = e
  BY <1>t, AppendFacts
<1>b. /\ \A i \in DOMAIN history : i \in DOMAIN history' /\ history'[i] = history[i]
      /\ Len(history) + 1 \in DOMAIN history' /\ history'[Len(history) + 1] = e
  BY <1>t, AppendProperties
<1>h. \A i \in DOMAIN history : history[i] \in Event
  BY <1>t
<1>x. \A h \in Event : Expired(h.gw, h.n)' <=> Expired(h.gw, h.n)
  BY <1>t, EventFacts DEF Expired, Expiry, Clock
<1>k. \A g \in Gateways, n \in Nullifiers : SlashLogged(g, n) => SlashLogged(g, n)'
  BY <1>b DEF SlashLogged
<1>1. MarkedBySlash'
  <2> SUFFICES ASSUME NEW g \in Gateways, NEW n \in Nullifiers, seen'[g][n].slashed
               PROVE  SlashLogged(g, n)'
    BY DEF MarkedBySlash
  <2>1. CASE seen[g][n].slashed
    BY <2>1, <1>k DEF JInv, MarkedBySlash
  <2>2. CASE e.what = "slash" /\ e.gw = g /\ e.n = n
    BY <2>2, <1>b DEF SlashLogged
  <2> QED BY <2>1, <2>2 DEF Judged
<1>2. VerdictWitnessed'
  <2>1. \A h \in Event : VerdictSeen(h) => VerdictSeen(h)'
    BY <1>x, EventFacts DEF VerdictSeen, Kept
  <2>2. e.what \in Verdict => VerdictSeen(e)'
    BY DEF VerdictSeen, Judged
  <2> QED BY <2>1, <2>2, <1>a, <1>h DEF JInv, VerdictWitnessed
\* A timely new event finds the signal of every earlier one of its slot.
<1>w. ASSUME NEW i \in DOMAIN history, history[i].what \in Verdict, e.what \in Verdict,
             history[i].gw = e.gw, history[i].n = e.n, Timely(e), history[i].x # e.x
      PROVE  SlashLogged(e.gw, e.n)'
  <2>1. ~Expired(e.gw, e.n)
    BY <1>w, <1>t, TimelyExpiry
  <2>2. VerdictSeen(history[i])
    BY <1>w DEF JInv, VerdictWitnessed
  <2>3. e.gw \in Gateways /\ e.n \in Nullifiers
    BY EventFacts
  <2>4. seen'[e.gw][e.n].slashed
    BY <1>w, <2>1, <2>2, <2>3 DEF VerdictSeen, Kept, Judged
  <2> QED BY <1>1, <2>3, <2>4 DEF MarkedBySlash
<1>3. OverSpendSlashed'
  <2> SUFFICES ASSUME NEW i \in DOMAIN history', NEW j \in DOMAIN history',
                      history'[i].what \in Verdict, history'[j].what \in Verdict,
                      history'[i].gw = history'[j].gw, history'[i].n = history'[j].n,
                      Timely(history'[i]), Timely(history'[j]),
                      history'[i].x # history'[j].x
               PROVE  \E k \in DOMAIN history' : /\ history'[k].what = "slash"
                                                 /\ history'[k].gw = history'[i].gw
                                                 /\ history'[k].n = history'[i].n
    BY DEF OverSpendSlashed, Events, SameSlot, Timely
  <2>1. CASE i \in DOMAIN history /\ j \in DOMAIN history
             /\ history'[i] = history[i] /\ history'[j] = history[j]
    <3>1. SlashLogged(history[i].gw, history[i].n)
      BY <2>1 DEF JInv, OverSpendSlashed, Events, SameSlot, SlashLogged
    <3> QED BY <2>1, <3>1, <1>b DEF SlashLogged
  <2>2. CASE i \in DOMAIN history /\ history'[i] = history[i] /\ history'[j] = e
    BY <2>2, <1>w DEF SlashLogged
  <2>3. CASE history'[i] = e /\ j \in DOMAIN history /\ history'[j] = history[j]
    BY <2>3, <1>w DEF SlashLogged
  <2> QED BY <1>a, <2>1, <2>2, <2>3
<1> QED BY <1>1, <1>2, <1>3 DEF JInv

\* Time may pass and entries may be forgotten, once their nullifier expired.
LEMMA UnjudgedStep ==
    ASSUME JInv, IInv', now' >= now, history' = history,
           \A g \in Gateways, n \in Nullifiers :
               \/ seen'[g][n] = seen[g][n]
               \/ seen'[g][n] = NoEntry /\ Expired(g, n)
    PROVE  JInv'
PROOF
<1>t. SpentTypeOK /\ SpentTypeOK' /\ \A i \in DOMAIN history : history[i] \in Event
  BY DEF JInv, IInv, SpentTypeOK
<1>c. \A g \in Gateways : Clock(g) \in Nat /\ Clock(g)' \in Nat /\ Clock(g)' >= Clock(g)
  BY <1>t, TallyAssumption, SpentAssumption DEF Clock, SpentTypeOK
<1>x. \A h \in Event : Expired(h.gw, h.n) => Expired(h.gw, h.n)'
  BY <1>c, EventFacts, ExpiryOpening DEF Expired, Expiry
<1>1. MarkedBySlash'
  BY DEF JInv, MarkedBySlash, SlashLogged, NoEntry
<1>2. VerdictWitnessed'
  <2>1. \A h \in Event : VerdictSeen(h) => VerdictSeen(h)'
    BY <1>x, EventFacts DEF VerdictSeen
  <2> QED BY <2>1, <1>t DEF JInv, VerdictWitnessed
<1>3. OverSpendSlashed'
  BY DEF JInv, OverSpendSlashed, Events, SameSlot, Timely
<1> QED BY <1>1, <1>2, <1>3 DEF JInv

\* The five outcomes of admit(), and the tunnel that opens.
LEMMA JudgeStep ==
    ASSUME JInv, IInv', ~UseTally, NEW c \in Conns, Admit(c) \/ Connect(c)
    PROVE  JInv'
PROOF
<1>0. IInv /\ SpentTypeOK /\ conn[c] # Idle /\ now' = now
  BY NotIdle DEF JInv, IInv, Admit, AdmitFirst, RejectFleetReplay, RejectSlashed, SameSignal,
     OverSpend, Connect
<1>1. /\ conn[c].gw \in Gateways /\ conn[c].n \in Nullifiers /\ conn[c].x \in Signals
      /\ EntryOf(c) = seen[conn[c].gw][conn[c].n] /\ EntryOf(c) \in Entry \cup {NoEntry}
      /\ Clock(conn[c].gw) \in Nat
  BY <1>0, CallFacts
<1>e. ASSUME NEW what \in Verdict \cup {"open"}
      PROVE  /\ Ev(c, what).gw = conn[c].gw /\ Ev(c, what).n = conn[c].n
             /\ Ev(c, what).x = conn[c].x /\ Ev(c, what).what = what
  BY DEF Ev
\* It is enough that the entry is kept and the event judged.
<1>j. ASSUME NEW what \in Verdict \cup {"open"}, Log(c, what), Kept, Judged(Ev(c, what))
      PROVE  JInv'
  BY <1>0, <1>j, LogFacts, JudgedStep
<1>2. CASE AdmitFirst(c)
  <2> DEFINE e == [x |-> conn[c].x, slashed |-> FALSE, at |-> Clock(conn[c].gw)]
  <2>1. e \in Entry /\ e.x = conn[c].x /\ ~e.slashed
    BY <1>1 DEF Entry
  <2>2. SetEntry(c, e) /\ Log(c, "first") /\ EntryOf(c) = NoEntry
    BY <1>2 DEF AdmitFirst
  <2> HIDE DEF e
  <2>3. /\ seen'[conn[c].gw][conn[c].n] = e /\ e # NoEntry
        /\ \A g \in Gateways, n \in Nullifiers :
              seen'[g][n] = seen[g][n] \/ (g = conn[c].gw /\ n = conn[c].n)
    BY <1>0, <2>1, <2>2, SetEntryFacts
  <2>4. Kept
    BY <1>1, <2>2, <2>3 DEF Kept
  <2>5. "first" \in Verdict
    BY DEF Verdict
  <2>6. Judged(Ev(c, "first"))
    BY <1>e, <2>1, <2>3, <2>5 DEF Judged
  <2> QED BY <1>j, <2>2, <2>4, <2>5, <2>6
<1>3. CASE OverSpend(c)
  <2> DEFINE e == [EntryOf(c) EXCEPT !.slashed = TRUE]
  <2>1. EntryOf(c) \in Entry /\ EntryOf(c) # NoEntry
    BY <1>1, <1>3 DEF OverSpend
  <2>2. e \in Entry /\ e.x = EntryOf(c).x /\ e.at = EntryOf(c).at /\ e.slashed
    BY <2>1 DEF Entry
  <2>3. SetEntry(c, e) /\ Log(c, "slash")
    BY <1>3 DEF OverSpend
  <2> HIDE DEF e
  <2>4. /\ seen'[conn[c].gw][conn[c].n] = e /\ e # NoEntry
        /\ \A g \in Gateways, n \in Nullifiers :
              seen'[g][n] = seen[g][n] \/ (g = conn[c].gw /\ n = conn[c].n)
    BY <1>0, <2>2, <2>3, SetEntryFacts
  <2>5. Kept
    BY <1>1, <2>2, <2>4 DEF Kept
  <2>6. "slash" \in Verdict
    BY DEF Verdict
  <2>7. Judged(Ev(c, "slash"))
    BY <1>e, <2>2, <2>4, <2>6 DEF Judged
  <2> QED BY <1>j, <2>3, <2>5, <2>6, <2>7
<1>4. CASE RejectSlashed(c) \/ SameSignal(c)
  <2>1. seen' = seen /\ EntryOf(c) # NoEntry /\ (EntryOf(c).slashed \/ EntryOf(c).x = conn[c].x)
    BY <1>4 DEF RejectSlashed, SameSignal
  <2>2. PICK what \in {"rate-slashed", "replay", "late-replay"} : Log(c, what)
    BY <1>4 DEF RejectSlashed, SameSignal
  <2>3. what \in Verdict
    BY DEF Verdict
  <2>4. Kept
    BY <2>1 DEF Kept
  <2>5. Judged(Ev(c, what))
    BY <1>1, <1>e, <2>1, <2>3 DEF Judged
  <2> QED BY <1>j, <2>2, <2>3, <2>4, <2>5
<1>5. CASE Connect(c)
  <2>1. seen' = seen /\ Log(c, "open")
    BY <1>5 DEF Connect
  <2>2. Kept
    BY <2>1 DEF Kept
  <2>3. Judged(Ev(c, "open"))
    BY <1>e, <2>1 DEF Judged, Verdict
  <2> QED BY <1>j, <2>1, <2>2, <2>3
<1>6. ~RejectFleetReplay(c)
  BY DEF RejectFleetReplay, SpentInFleet
<1> QED BY <1>2, <1>3, <1>4, <1>5, <1>6 DEF Admit

\* Every step preserves the invariant.
LEMMA SlashInductive ==
    ASSUME ~UseTally, JInv, [Next]_vars
    PROVE  JInv'
PROOF
<1>0. IInv /\ IInv' /\ SpentTypeOK
  BY Inductive DEF JInv, IInv
<1>q. ASSUME UNCHANGED <<now, seen, history>>
      PROVE  JInv'
  <2>1. now' >= now
    BY <1>0, <1>q, SpentAssumption DEF SpentTypeOK
  <2> QED BY <1>0, <1>q, <2>1, UnjudgedStep
<1>1. CASE \E c \in Conns : Admit(c) \/ Connect(c)
  BY <1>0, <1>1, JudgeStep
<1>2. CASE \E g \in Gateways : Sweep(g)
  <2>1. PICK g \in Gateways : Sweep(g)
    BY <1>2
  <2>2. /\ now' = now /\ history' = history /\ now' >= now
        /\ seen' = [seen EXCEPT ![g] = [n \in Nullifiers |->
                   IF seen[g][n].at < Clock(g) - TTL THEN NoEntry ELSE seen[g][n]]]
    BY <1>0, <2>1, SpentAssumption DEF Sweep, SpentTypeOK
  <2>3. ASSUME NEW h \in Gateways, NEW n \in Nullifiers, seen'[h][n] # seen[h][n]
        PROVE  seen'[h][n] = NoEntry /\ Expired(h, n)
    <3>1. h = g /\ seen[g][n].at < Clock(g) - TTL /\ seen'[g][n] = NoEntry /\ seen[g][n] # NoEntry
      BY <1>0, <2>2, <2>3 DEF SpentTypeOK
    <3>2. seen[g][n].at >= Opening(n) /\ seen[g][n].at \in Nat
      BY <1>0, <3>1 DEF IInv, EntryOpened, SpentTypeOK, Entry
    <3>3. /\ Clock(g) \in Nat /\ Expiry(n) \in Nat /\ Opening(n) \in Nat
          /\ Expiry(n) = Opening(n) + TTL /\ TTL \in Nat
      BY <1>0, ClockNat, ExpiryOpening, TallyAssumption DEF TTL
    <3> QED BY <3>1, <3>2, <3>3 DEF Expired
  <2> QED BY <1>0, <2>2, <2>3, UnjudgedStep
<1>3. CASE Tick
  <2>1. seen' = seen /\ history' = history /\ now' >= now
    BY <1>0, <1>3, SpentAssumption DEF Tick, SpentTypeOK
  <2> QED BY <1>0, <2>1, UnjudgedStep
<1>4. CASE \E c \in Conns : InvalidProof(c) \/ SlashDone(c) \/ Drop(c)
  BY <1>4, <1>q DEF InvalidProof, SlashDone, Drop
<1>5. CASE \E c \in Conns, g \in Gateways, n \in Nullifiers, x \in Signals : CheckEnvelope(c, g, n, x)
  BY <1>5, <1>q DEF CheckEnvelope
<1>6. CASE \E g, q \in Gateways, n \in Nullifiers : Push(g, q, n)
  BY <1>6, <1>q DEF Push
<1>7. CASE UNCHANGED vars
  BY <1>7, <1>q DEF vars
<1> QED BY <1>1, <1>2, <1>3, <1>4, <1>5, <1>6, <1>7 DEF Next

\* A gateway without a fleet that decides about two signals under a nullifier
\* its clock still accepts has slashed, whatever the order of the proofs, the
\* sweeps and the retries: none of its other verdicts lets the second one pass
\* for something else.
THEOREM OverSpender ==
    ASSUME ~UseTally
    PROVE  Spec => []OverSpendSlashed
PROOF
<1>1. Init => JInv
  <2> SUFFICES ASSUME Init PROVE JInv
    OBVIOUS
  <2>1. seen = [g \in Gateways |-> [n \in Nullifiers |-> NoEntry]] /\ history = << >>
    BY DEF Init
  <2>2. MarkedBySlash
    BY <2>1 DEF MarkedBySlash, NoEntry
  <2> QED BY <2>1, <2>2, Initial DEF JInv, VerdictWitnessed, OverSpendSlashed, Events
<1>2. JInv /\ [Next]_vars => JInv'
  BY SlashInductive
<1>3. JInv => OverSpendSlashed
  BY DEF JInv
<1> QED BY <1>1, <1>2, <1>3, PTL DEF Spec

(* ----------------------------------------------------------------------- *)
(* The fleet's evidence.  A nullifier is in a tally, or on its way to one, *)
(* only after a tunnel was opened under it.                                *)

Opened(n) == \E j \in DOMAIN history : history[j].what = "open" /\ history[j].n = n

TallyReal ==
    /\ tally = [g \in Gateways |-> tally[g]]
    /\ \A g \in Gateways, n \in Nullifiers : Knows(tally[g], n) => Opened(n)

PushReal ==
    /\ pushes \in [Gateways -> [Gateways -> [Nullifiers -> Nat]]]
    /\ \A g, q \in Gateways, n \in Nullifiers : pushes[g][q][n] > 0 => Opened(n)

EInv == IInv /\ TallyReal /\ PushReal /\ FleetEvidenceReal

\* prune() adds no nullifier to a tally.
LEMMA PruneKnows ==
    ASSUME NEW T, NEW t, NEW n \in Nullifiers, Knows(Prune(T, t), n)
    PROVE  Knows(T, n)
PROOF
  BY DEF Knows, Prune, Restrict

\* ingest() adds no nullifier but the announced one.
LEMMA IngestKnows ==
    ASSUME NEW T, NEW t, NEW m \in Nullifiers, NEW n \in Nullifiers,
           Knows(Ingest(T, m, t), n)
    PROVE  Knows(T, n) \/ n = m
PROOF
<1> DEFINE P == Prune(T, t)
           e == EpochOf[m]
           W == WithNullifier(P, e, m, t)
<1>1. Ingest(T, m, t) = P \/ Ingest(T, m, t) = W
  BY DEF Ingest
<1>2. Knows(W, n) => Knows(P, n) \/ n = m
  BY DEF Knows, WithNullifier
<1> QED BY <1>1, <1>2, PruneKnows

\* A step that publishes nothing and opens nothing keeps the evidence real.
LEMMA EvidenceKept ==
    ASSUME EInv, IInv',
           \/ history' = history
           \/ \E e \in Event : /\ history' = Append(history, e)
                               /\ e.what = "fleet-replay" => Opened(e.n)
    PROVE  /\ \A n \in Nullifiers : Opened(n) => Opened(n)'
           /\ FleetEvidenceReal'
PROOF
<1>1. CASE history' = history
  BY <1>1 DEF EInv, Opened, FleetEvidenceReal, Events
<1>2. CASE \E e \in Event : history' = Append(history, e)
                            /\ (e.what = "fleet-replay" => Opened(e.n))
  <2>1. PICK e \in Event : /\ history' = Append(history, e)
                           /\ e.what = "fleet-replay" => Opened(e.n)
    BY <1>2
  <2>2. history \in Seq(Event)
    BY DEF EInv, IInv, SpentTypeOK
  <2>3. /\ Len(history') = Len(history) + 1 /\ Len(history) \in Nat
        /\ DOMAIN history = 1..Len(history) /\ DOMAIN history' = 1..Len(history')
        /\ \A i \in DOMAIN history : i \in DOMAIN history' /\ history'[i] = history[i]
        /\ history'[Len(history) + 1] = e
    BY <2>1, <2>2, AppendProperties
  <2>4. \A n : Opened(n) => Opened(n)'
    BY <2>3 DEF Opened
  <2>5. FleetEvidenceReal'
    <3> SUFFICES ASSUME NEW i \in DOMAIN history', history'[i].what = "fleet-replay"
                 PROVE  \E j \in DOMAIN history' :
                           history'[j].what = "open" /\ j < i /\ history'[j].n = history'[i].n
      BY DEF FleetEvidenceReal, Events
    <3>1. CASE i \in DOMAIN history
      <4>1. history[i].what = "fleet-replay" /\ history'[i] = history[i]
        BY <3>1, <2>3
      <4>2. PICK j \in DOMAIN history :
                  history[j].what = "open" /\ j < i /\ history[j].n = history[i].n
        BY <3>1, <4>1 DEF EInv, FleetEvidenceReal, Events
      <4> QED BY <4>1, <4>2, <2>3
    <3>2. CASE i = Len(history) + 1
      <4>1. Opened(e.n) /\ history'[i] = e
        BY <3>2, <2>1, <2>3
      <4>2. PICK j \in DOMAIN history : history[j].what = "open" /\ history[j].n = e.n
        BY <4>1 DEF Opened
      <4>3. j \in 1..Len(history) /\ j < i
        BY <3>2, <4>2, <2>3
      <4> QED BY <4>1, <4>2, <4>3, <2>3
    <3> QED BY <3>1, <3>2, <2>3
  <2> QED BY <2>4, <2>5
<1> QED BY <1>1, <1>2

\* Pruning a tally, on a lookup or otherwise, adds nothing to it.
LEMMA PruneStep ==
    ASSUME EInv, NEW c \in Conns, conn[c] # Idle, AskFleet(c),
           \A n \in Nullifiers : Opened(n) => Opened(n)'
    PROVE  TallyReal'
PROOF
<1>1. conn[c].gw \in Gateways
  BY CallFacts DEF EInv, IInv
<1>2. tally' = [g \in Gateways |-> tally'[g]]
  BY DEF AskFleet, EInv, TallyReal
<1>3. ASSUME NEW g \in Gateways, NEW n \in Nullifiers, Knows(tally'[g], n)
      PROVE  Knows(tally[g], n)
  <2>1. tally'[g] = tally[g] \/ tally'[g] = Prune(tally[g], Clock(g))
    BY <1>1 DEF AskFleet, EInv, TallyReal
  <2> QED BY <1>3, <2>1, PruneKnows
<1> QED BY <1>2, <1>3 DEF TallyReal, EInv, Knows

\* A tally that ingests a nullifier under which a tunnel was opened.
LEMMA IngestStep ==
    ASSUME EInv, NEW q \in Gateways, NEW m \in Nullifiers,
           tally' = [tally EXCEPT ![q] = Ingest(@, m, Clock(q))],
           \A n \in Nullifiers : Opened(n) => Opened(n)', Opened(m)'
    PROVE  TallyReal'
PROOF
<1>1. tally' = [g \in Gateways |-> tally'[g]]
  BY DEF EInv, TallyReal
<1>2. ASSUME NEW g \in Gateways, NEW n \in Nullifiers, Knows(tally'[g], n)
      PROVE  Knows(tally[g], n) \/ n = m
  <2>1. tally'[g] = tally[g] \/ tally'[g] = Ingest(tally[g], m, Clock(q))
    BY DEF EInv, TallyReal
  <2> QED BY <1>2, <2>1, IngestKnows
<1> QED BY <1>1, <1>2 DEF TallyReal, EInv, Knows

\* The steps that leave the tallies and the pushes alone and open no tunnel.
LEMMA TalliesUntouched ==
    ASSUME EInv, UNCHANGED <<tally, pushes>>,
           \A n \in Nullifiers : Opened(n) => Opened(n)'
    PROVE  TallyReal' /\ PushReal'
PROOF
  BY DEF EInv, TallyReal, PushReal, Knows

\* A gateway announces a nullifier once its own tunnel is open.
LEMMA RecordStep ==
    ASSUME EInv, NEW g \in Gateways, NEW m \in Nullifiers, Record(g, m),
           \A n \in Nullifiers : Opened(n) => Opened(n)', Opened(m)'
    PROVE  TallyReal' /\ PushReal'
PROOF
<1>1. TallyReal'
  BY IngestStep DEF Record
<1>2. PushReal'
  <2>1. PICK Q : pushes' = [pushes EXCEPT ![g] = [q \in Gateways |-> [n \in Nullifiers |->
                    pushes[g][q][n] + (IF q \in Q /\ n = m THEN 1 ELSE 0)]]]
    BY DEF Record
  <2>2. pushes \in [Gateways -> [Gateways -> [Nullifiers -> Nat]]]
    BY DEF EInv, PushReal
  <2>3. pushes' \in [Gateways -> [Gateways -> [Nullifiers -> Nat]]]
    BY <2>1, <2>2
  <2>4. ASSUME NEW h \in Gateways, NEW q \in Gateways, NEW n \in Nullifiers,
               pushes'[h][q][n] > 0
        PROVE  Opened(n)'
    <3>1. n = m \/ pushes'[h][q][n] = pushes[h][q][n]
      BY <2>1, <2>2
    <3> QED BY <3>1, <2>4 DEF EInv, PushReal
  <2> QED BY <2>3, <2>4 DEF PushReal
<1> QED BY <1>1, <1>2

\* An announcement that arrives was pushed after a tunnel was opened.
LEMMA PushStep ==
    ASSUME EInv, NEW g \in Gateways, NEW q \in Gateways, NEW m \in Nullifiers,
           Push(g, q, m)
    PROVE  TallyReal' /\ PushReal'
PROOF
<1>0. history' = history /\ \A n \in Nullifiers : Opened(n) <=> Opened(n)'
  BY DEF Push, Opened
<1>1. pushes[g][q][m] > 0 /\ Finish(g, q, m)
  BY DEF Push, Deliver, Lose
<1>2. PushReal'
  <2>1. pushes \in [Gateways -> [Gateways -> [Nullifiers -> Nat]]]
    BY DEF EInv, PushReal
  <2>2. pushes' = [pushes EXCEPT ![g] = [pushes[g] EXCEPT ![q] =
                      [pushes[g][q] EXCEPT ![m] = pushes[g][q][m] - 1]]]
    BY <1>1 DEF Finish
  <2>3. pushes[g][q][m] - 1 \in Nat
    BY <1>1, <2>1
  <2>4. pushes' \in [Gateways -> [Gateways -> [Nullifiers -> Nat]]]
    BY <2>1, <2>2, <2>3
  <2>5. ASSUME NEW h \in Gateways, NEW r \in Gateways, NEW n \in Nullifiers,
               pushes'[h][r][n] > 0
        PROVE  pushes[h][r][n] > 0
    <3>1. \/ pushes'[h][r][n] = pushes[h][r][n]
          \/ h = g /\ r = q /\ n = m
      BY <2>1, <2>2
    <3> QED BY <3>1, <2>5, <1>1
  <2> QED BY <2>4, <2>5, <1>0 DEF EInv, PushReal
<1>3. CASE Deliver(g, q, m)
  <2>1. Opened(m)'
    BY <1>0, <1>1 DEF EInv, PushReal
  <2> QED BY <1>0, <1>2, <1>3, <2>1, IngestStep DEF Deliver
<1>4. CASE Lose(g, q, m)
  BY <1>0, <1>2, <1>4 DEF Lose, EInv, TallyReal, Knows
<1> QED BY <1>3, <1>4 DEF Push

\* A connection's decision, with the event it logs.
LEMMA EvidenceLogged ==
    ASSUME EInv, IInv', NEW c \in Conns, conn[c] # Idle,
           NEW what \in Verdict \cup {"open"}, Log(c, what),
           what = "fleet-replay" => Opened(conn[c].n)
    PROVE  /\ \A n \in Nullifiers : Opened(n) => Opened(n)'
           /\ FleetEvidenceReal'
PROOF
<1>1. /\ Ev(c, what) \in Event /\ Ev(c, what).n = conn[c].n
      /\ Ev(c, what).what = what /\ history' = Append(history, Ev(c, what))
  BY LogFacts DEF EInv, IInv
<1> QED BY <1>1, EvidenceKept

\* Every step keeps the evidence of the fleet real.
LEMMA EvidenceInductive == EInv /\ [Next]_vars => EInv'
PROOF
<1> SUFFICES ASSUME EInv, [Next]_vars PROVE EInv'
  OBVIOUS
<1>i. IInv' /\ SpentTypeOK
  BY Inductive DEF EInv, IInv
<1>q. ASSUME history' = history, UNCHANGED <<tally, pushes>>
      PROVE  EInv'
  BY <1>q, <1>i, EvidenceKept, TalliesUntouched DEF EInv
<1>1. ASSUME NEW c \in Conns, NEW g \in Gateways, NEW n \in Nullifiers, NEW x \in Signals,
             CheckEnvelope(c, g, n, x)
      PROVE  EInv'
  BY <1>1, <1>q DEF CheckEnvelope
<1>2. ASSUME NEW c \in Conns, InvalidProof(c) \/ SlashDone(c) \/ Drop(c)
      PROVE  EInv'
  BY <1>2, <1>q DEF InvalidProof, SlashDone, Drop
<1>3. ASSUME NEW c \in Conns, AdmitFirst(c)
      PROVE  EInv'
  <2>1. conn[c] # Idle /\ Log(c, "first") /\ AskFleet(c) /\ pushes' = pushes
    BY <1>3, NotIdle DEF AdmitFirst
  <2>2. FleetEvidenceReal' /\ \A n \in Nullifiers : Opened(n) => Opened(n)'
    BY <2>1, <1>i, EvidenceLogged DEF Verdict
  <2>3. TallyReal' /\ PushReal'
    BY <2>1, <2>2, PruneStep DEF EInv, PushReal
  <2> QED BY <1>i, <2>2, <2>3 DEF EInv
<1>4. ASSUME NEW c \in Conns, RejectFleetReplay(c)
      PROVE  EInv'
  <2>1. conn[c] # Idle /\ Log(c, "fleet-replay") /\ AskFleet(c) /\ pushes' = pushes
    BY <1>4, NotIdle DEF RejectFleetReplay
  <2>2. conn[c].gw \in Gateways /\ conn[c].n \in Nullifiers
    BY <2>1, <1>i, CallFacts
  <2>3. Knows(tally[conn[c].gw], conn[c].n)
    BY <1>4, <2>2, PruneKnows DEF RejectFleetReplay, SpentInFleet, Has
  <2>4. Opened(conn[c].n)
    BY <2>2, <2>3 DEF EInv, TallyReal
  <2>5. FleetEvidenceReal' /\ \A n \in Nullifiers : Opened(n) => Opened(n)'
    BY <2>1, <2>4, <1>i, EvidenceLogged DEF Verdict
  <2>6. TallyReal' /\ PushReal'
    BY <2>1, <2>5, PruneStep DEF EInv, PushReal
  <2> QED BY <1>i, <2>5, <2>6 DEF EInv
<1>5. ASSUME NEW c \in Conns, RejectSlashed(c) \/ SameSignal(c) \/ OverSpend(c)
      PROVE  EInv'
  <2>1. conn[c] # Idle /\ UNCHANGED <<tally, pushes>>
    BY <1>5, NotIdle DEF RejectSlashed, SameSignal, OverSpend
  <2>2. PICK what \in {"rate-slashed", "replay", "late-replay", "slash"} : Log(c, what)
    BY <1>5 DEF RejectSlashed, SameSignal, OverSpend
  <2>3. FleetEvidenceReal' /\ \A n \in Nullifiers : Opened(n) => Opened(n)'
    BY <2>1, <2>2, <1>i, EvidenceLogged DEF Verdict
  <2> QED BY <1>i, <2>1, <2>3, TalliesUntouched DEF EInv
<1>6. ASSUME NEW c \in Conns, Connect(c)
      PROVE  EInv'
  <2>1. conn[c] # Idle /\ Log(c, "open") /\ Commit(c)
    BY <1>6, NotIdle DEF Connect
  <2>2. FleetEvidenceReal' /\ \A n \in Nullifiers : Opened(n) => Opened(n)'
    BY <2>1, <1>i, EvidenceLogged
  <2>3. conn[c].gw \in Gateways /\ conn[c].n \in Nullifiers
    BY <2>1, <1>i, CallFacts
  <2>4. PICK m \in Nullifiers : m = conn[c].n
    BY <2>3
  <2>7. Opened(m)'
    <3>1. /\ history' = Append(history, Ev(c, "open")) /\ Ev(c, "open") \in Event
          /\ Ev(c, "open").n = m /\ Ev(c, "open").what = "open"
      BY <2>1, <2>4, <1>i, LogFacts
    <3>2. /\ Len(history) + 1 \in DOMAIN history'
          /\ history'[Len(history) + 1] = Ev(c, "open")
      BY <3>1, <1>i, AppendProperties DEF SpentTypeOK
    <3> QED BY <3>1, <3>2 DEF Opened
  <2>5. CASE Record(conn[c].gw, conn[c].n)
    <3>1. PICK g \in Gateways : g = conn[c].gw
      BY <2>3
    <3>2. TallyReal' /\ PushReal'
      BY <2>2, <2>4, <2>5, <2>7, <3>1, RecordStep
    <3> QED BY <1>i, <2>2, <3>2 DEF EInv
  <2>6. CASE UNCHANGED <<tally, pushes>>
    BY <1>i, <2>2, <2>6, TalliesUntouched DEF EInv
  <2> QED BY <2>1, <2>5, <2>6 DEF Commit, tallyVars
<1>7. ASSUME NEW g \in Gateways, Sweep(g)
      PROVE  EInv'
  BY <1>7, <1>q DEF Sweep
<1>8. ASSUME NEW g \in Gateways, NEW q \in Gateways, NEW n \in Nullifiers, Push(g, q, n)
      PROVE  EInv'
  <2>1. history' = history
    BY <1>8 DEF Push
  <2> QED BY <1>8, <1>i, <2>1, PushStep, EvidenceKept DEF EInv
<1>9. CASE Tick \/ UNCHANGED vars
  BY <1>9, <1>q DEF Tick, vars
<1> QED BY <1>1, <1>2, <1>3, <1>4, <1>5, <1>6, <1>7, <1>8, <1>9 DEF Next, Admit

\* A gateway turns a client away on a peer's word only after a tunnel was
\* opened under the nullifier: with pushes lost, delayed and reordered, and
\* tallies pruned by skewed clocks, a failed dial never blocks failover.
THEOREM EvidenceReal == Spec => []FleetEvidenceReal
PROOF
<1>1. Init => EInv
  <2> SUFFICES ASSUME Init PROVE EInv
    OBVIOUS
  <2>1. TallyReal
    <3>1. tally = [g \in Gateways |-> EmptyTally]
      BY DEF Init, TallyInit
    <3>2. EmptyTally.buckets = [e \in {} |-> {}]
      BY DEF EmptyTally
    <3>3. \A n : ~Knows(EmptyTally, n)
      BY <3>2 DEF Knows
    <3> QED BY <3>1, <3>3 DEF TallyReal
  <2>2. PushReal
    BY DEF Init, TallyInit, PushReal
  <2>3. FleetEvidenceReal
    BY DEF Init, FleetEvidenceReal, Events
  <2> QED BY <2>1, <2>2, <2>3, Initial DEF EInv
<1>2. EInv => FleetEvidenceReal
  BY DEF EInv
<1> QED BY <1>1, <1>2, EvidenceInductive, PTL DEF Spec

-----------------------------------------------------------------------------
(* The bounds of the fleet tally.  A total is a sum over the buckets.      *)

Plus(a, b) == a + b

AnyOf(S) == CHOOSE x \in S : TRUE

Sums == INSTANCE FoldTheory WITH op <- Plus, base <- 0, choose <- AnyOf

Sizes(b) == [e \in DOMAIN b |-> Cardinality(b[e].set)]

\* Sums adds, picks an element of every set and knows which sets are finite.
LEMMA SumFacts ==
    /\ Sums!Adds
    /\ \A S : Sums!Chooses(S)
    /\ \A S : Sums!IsFiniteSet(S) <=> IsFiniteSet(S)
BY DEF Sums!Adds, Sums!Chooses, AnyOf, Plus, IsFiniteSet, Sums!IsFiniteSet

\* The size of some buckets is a sum in the sense of FoldTheory.
LEMMA SizeIsSum ==
    \A b, E : SizeOf(b, E) = Sums!Fold(Sizes(b), E)
BY DEF SizeOf, Sizes, SumFunctionOnSet, FoldFunctionOnSet, MapThenFoldSet, Sums!Fold,
       Sums!MapThenFoldSet, AnyOf, Plus

\* The buckets of T are finitely many finite sets.
Finite(T) ==
    /\ T = [buckets |-> T.buckets, total |-> T.total]
    /\ IsFiniteSet(DOMAIN T.buckets)
    /\ \A e \in DOMAIN T.buckets :
          /\ T.buckets[e] = [set |-> T.buckets[e].set, at |-> T.buckets[e].at]
          /\ IsFiniteSet(T.buckets[e].set)

Within(T) ==
    LET b == T.buckets
    IN  /\ T.total = SizeOf(b, DOMAIN b)
        /\ T.total <= MaxTotal
        /\ Cardinality(DOMAIN b) <= MaxBuckets
        /\ \A e \in DOMAIN b : Cardinality(b[e].set) <= MaxPerEpoch

\* The size of a bucket is a number.
LEMMA SizesNat ==
    ASSUME NEW T, Finite(T)
    PROVE  \A e \in DOMAIN T.buckets : /\ Sizes(T.buckets)[e] = Cardinality(T.buckets[e].set)
                                       /\ Sizes(T.buckets)[e] \in Nat
BY FS_CardinalityType DEF Finite, Sizes

\* So is the size of some buckets.
LEMMA SumNatOf ==
    ASSUME NEW T, Finite(T), NEW E \in SUBSET DOMAIN T.buckets
    PROVE  Sums!Fold(Sizes(T.buckets), E) \in Nat
<1>1. IsFiniteSet(E)
  BY FS_Subset DEF Finite
<1> QED
  BY <1>1, SizesNat, SumFacts, Sums!SumNat

\* prune() subtracts the size of each bucket it deletes.
LEMMA PruneWithin ==
    ASSUME NEW T, Finite(T), Within(T), NEW t
    PROVE  Finite(Prune(T, t)) /\ Within(Prune(T, t))
<1> DEFINE b == T.buckets
           D == DOMAIN b
           live == {e \in D : b[e].at >= t - TTL}
           P == Prune(T, t)
<1>1. /\ P = [buckets |-> P.buckets, total |-> P.total]
      /\ P.buckets = [e \in live |-> b[e]]
      /\ P.total = T.total - SizeOf(b, D \ live)
  BY DEF Prune, Restrict
<1> HIDE DEF P
<1>2. DOMAIN P.buckets = live /\ \A e \in live : P.buckets[e] = b[e]
  BY <1>1
<1>3. IsFiniteSet(D) /\ IsFiniteSet(live) /\ Cardinality(live) <= Cardinality(D) /\ live \in SUBSET D
  BY FS_Subset DEF Finite
<1>4. Cardinality(D) \in Nat /\ Cardinality(live) \in Nat
  BY <1>3, FS_CardinalityType
<1> HIDE DEF live
<1>5. Finite(P)
  BY <1>1, <1>2, <1>3 DEF Finite
<1>6. Sums!Fold(Sizes(b), D) = Sums!Fold(Sizes(b), live) + Sums!Fold(Sizes(b), D \ live)
  BY <1>3, SizesNat, SumFacts, Sums!SumPartition
<1>7. Sums!Fold(Sizes(b), D \ live) \in Nat /\ Sums!Fold(Sizes(b), live) \in Nat
  BY <1>3, SumNatOf
<1>8. Sums!Fold(Sizes(P.buckets), live) = Sums!Fold(Sizes(b), live)
  <2>1. \A e \in live : Sizes(P.buckets)[e] = Sizes(b)[e]
    BY <1>2, <1>3 DEF Sizes
  <2> QED
    BY <1>3, <2>1, SumFacts, Sums!FoldCongruent
<1>9. T.total = Sums!Fold(Sizes(b), D) /\ P.total = T.total - Sums!Fold(Sizes(b), D \ live)
  BY <1>1, SizeIsSum DEF Within
<1>10. P.total = SizeOf(P.buckets, DOMAIN P.buckets) /\ P.total <= T.total
  BY <1>2, <1>6, <1>7, <1>8, <1>9, SizeIsSum
<1>11. P.total <= MaxTotal
  BY <1>6, <1>7, <1>9, <1>10, TallyAssumption DEF Within
<1>12. Cardinality(DOMAIN P.buckets) <= MaxBuckets
  BY <1>2, <1>3, <1>4, TallyAssumption DEF Within
<1>13. Within(P)
  BY <1>2, <1>3, <1>10, <1>11, <1>12 DEF Within
<1> QED
  BY <1>5, <1>13 DEF P

\* A nullifier that is new is counted once, in its bucket and in the total.
LEMMA WithNullifierWithin ==
    ASSUME NEW T, Finite(T), Within(T), NEW n \in Nullifiers, NEW t,
           ~Knows(T, n), HasRoom(T, EpochOf[n])
    PROVE  LET W == WithNullifier(T, EpochOf[n], n, t) IN Finite(W) /\ Within(W)
<1> DEFINE b == T.buckets
           D == DOMAIN b
           k == EpochOf[n]
           W == WithNullifier(T, k, n, t)
           old == IF k \in D THEN b[k].set ELSE {}
           c == W.buckets
<1>1. /\ W = [buckets |-> c, total |-> W.total]
      /\ DOMAIN c = D \cup {k}
      /\ W.total = T.total + 1
      /\ \A e \in D \ {k} : c[e] = b[e]
  BY DEF WithNullifier
<1>2. c[k].set = old \cup {n} /\ c[k] = [set |-> c[k].set, at |-> c[k].at]
  <2>1. k \in D => b[k] = [set |-> b[k].set, at |-> b[k].at]
    BY DEF Finite
  <2>2. c[k] = [(IF k \in D THEN b[k] ELSE [set |-> {}, at |-> t]) EXCEPT !.set = @ \cup {n}]
    BY DEF WithNullifier
  <2>3. CASE k \in D
    <3>1. c[k] = [set |-> b[k].set \cup {n}, at |-> b[k].at]
      BY <2>1, <2>2, <2>3
    <3> QED BY <3>1, <2>3
  <2>4. CASE k \notin D
    <3>1. c[k] = [set |-> {} \cup {n}, at |-> t]
      BY <2>2, <2>4
    <3> QED BY <3>1, <2>4
  <2> QED BY <2>3, <2>4
<1> HIDE DEF W
<1>3. n \notin old
  BY DEF Knows
<1>4. IsFiniteSet(old) /\ Cardinality(old) \in Nat /\ Cardinality(old) < MaxPerEpoch
  BY FS_EmptySet, FS_CardinalityType, TallyAssumption DEF Finite, HasRoom
<1> HIDE DEF old
<1>5. IsFiniteSet(c[k].set) /\ Cardinality(c[k].set) = Cardinality(old) + 1
  BY <1>2, <1>3, <1>4, FS_AddElement
<1>6. IsFiniteSet(DOMAIN c) /\ IsFiniteSet(D) /\ Cardinality(D) \in Nat
  BY <1>1, FS_AddElement, FS_CardinalityType DEF Finite
<1>7. Finite(W)
  BY <1>1, <1>2, <1>5, <1>6 DEF Finite
<1>8. Sums!Fold(Sizes(c), DOMAIN c) = Sums!Fold(Sizes(b), D) + 1
  <2> DEFINE R == D \ {k}
  <2>1. DOMAIN c \ {k} = R /\ k \in DOMAIN c /\ R \in SUBSET D
    BY <1>1
  <2>2. Sums!Fold(Sizes(c), DOMAIN c) = Sizes(c)[k] + Sums!Fold(Sizes(c), R)
    <3>1. \A e \in DOMAIN c : Sizes(c)[e] \in Int
      BY <1>7, SizesNat
    <3>2. Sums!Fold(Sizes(c), DOMAIN c) = Sizes(c)[k] + Sums!Fold(Sizes(c), DOMAIN c \ {k})
      BY <1>6, <2>1, <3>1, SumFacts, Sums!SumSplit
    <3> QED
      BY <2>1, <3>2
  <2>3. Sums!Fold(Sizes(c), R) = Sums!Fold(Sizes(b), R)
    <3>1. \A e \in R : Sizes(c)[e] = Sizes(b)[e]
      BY <1>1 DEF Sizes
    <3>2. IsFiniteSet(R)
      BY <1>6, FS_RemoveElement
    <3> QED
      BY <3>1, <3>2, SumFacts, Sums!FoldCongruent
  <2>4. Sizes(c)[k] = Cardinality(old) + 1
    BY <1>1, <1>5 DEF Sizes
  <2>5. Sums!Fold(Sizes(b), R) \in Nat
    BY <2>1, SumNatOf
  <2>6. Sums!Fold(Sizes(b), D) = Cardinality(old) + Sums!Fold(Sizes(b), R)
    <3>1. CASE k \in D
      <4>1. Sizes(b)[k] = Cardinality(old)
        BY <3>1 DEF Sizes, old
      <4> QED
        BY <1>6, <3>1, <4>1, SizesNat, SumFacts, Sums!SumSplit
    <3>2. CASE k \notin D
      <4>1. R = D /\ Cardinality(old) = 0
        BY <3>2, FS_EmptySet DEF old
      <4> QED
        BY <2>5, <4>1
    <3> QED
      BY <3>1, <3>2
  <2> QED
    BY <1>4, <2>2, <2>3, <2>4, <2>5, <2>6
<1>9. T.total = Sums!Fold(Sizes(b), D) /\ T.total \in Nat /\ T.total < MaxTotal
  BY SizeIsSum, SumNatOf DEF Within, HasRoom
<1>10. W.total = SizeOf(c, DOMAIN c) /\ W.total <= MaxTotal
  BY <1>1, <1>8, <1>9, SizeIsSum, TallyAssumption
<1>11. Cardinality(DOMAIN c) <= MaxBuckets
  <2>1. CASE k \in D
    BY <1>1, <2>1, Zenon DEF Within
  <2>2. CASE k \notin D
    <3>1. Cardinality(D \cup {k}) = Cardinality(D) + 1
      BY <1>6, <2>2, FS_AddElement
    <3>2. Cardinality(D) < MaxBuckets
      BY <2>2 DEF HasRoom
    <3> QED
      BY <1>1, <1>6, <3>1, <3>2, TallyAssumption
  <2> QED
    BY <2>1, <2>2
<1>12. ASSUME NEW e \in DOMAIN c PROVE Cardinality(c[e].set) <= MaxPerEpoch
  <2>1. CASE e = k
    BY <1>4, <1>5, <2>1, TallyAssumption
  <2>2. CASE e # k
    BY <1>1, <2>2 DEF Within
  <2> QED
    BY <2>1, <2>2
<1>13. Within(W)
  BY <1>10, <1>11, <1>12 DEF Within
<1> QED
  BY <1>7, <1>13 DEF W

\* An ingested report leaves the tally within its bounds, whatever it says.
LEMMA IngestWithin ==
    ASSUME NEW T, Finite(T), Within(T), NEW n \in Nullifiers, NEW t
    PROVE  Finite(Ingest(T, n, t)) /\ Within(Ingest(T, n, t))
<1> DEFINE P == Prune(T, t)
<1>1. Finite(P) /\ Within(P)
  BY PruneWithin
<1> HIDE DEF P
<1>2. CASE Knows(P, n) \/ ~HasRoom(P, EpochOf[n])
  BY <1>1, <1>2 DEF Ingest, P
<1>3. CASE ~Knows(P, n) /\ HasRoom(P, EpochOf[n])
  <2>1. Ingest(T, n, t) = WithNullifier(P, EpochOf[n], n, t)
    BY <1>3 DEF Ingest, P
  <2> QED
    BY <1>1, <1>3, <2>1, WithNullifierWithin
<1> QED
  BY <1>2, <1>3

\* Every tally is finite and within its bounds.
TallyInv ==
    /\ tally = [g \in Gateways |-> tally[g]]
    /\ \A g \in Gateways : Finite(tally[g]) /\ Within(tally[g])

\* Every step preserves TallyInv.
LEMMA TallyInductive ==
    ASSUME IInv, TallyInv, [Next]_vars PROVE TallyInv'
<1>0. ASSUME NEW q \in Gateways, NEW T, Finite(T), Within(T), tally' = [tally EXCEPT ![q] = T]
      PROVE  TallyInv'
  BY <1>0 DEF TallyInv
<1>1. CASE tally' = tally
  BY <1>1 DEF TallyInv
<1>2. ASSUME NEW c \in Conns, conn[c] # Idle, AskFleet(c) PROVE TallyInv'
  <2>1. conn[c].gw \in Gateways
    BY <1>2, CallFacts DEF IInv
  <2>2. Finite(Prune(tally[conn[c].gw], Clock(conn[c].gw)))
        /\ Within(Prune(tally[conn[c].gw], Clock(conn[c].gw)))
    BY <2>1, PruneWithin DEF TallyInv
  <2> QED
    BY <1>0, <1>1, <1>2, <2>1, <2>2 DEF AskFleet
<1>3. ASSUME NEW q \in Gateways, NEW n \in Nullifiers,
             tally' = [tally EXCEPT ![q] = Ingest(@, n, Clock(q))]
      PROVE  TallyInv'
  <2>1. Finite(Ingest(tally[q], n, Clock(q))) /\ Within(Ingest(tally[q], n, Clock(q)))
    BY IngestWithin DEF TallyInv
  <2> QED
    BY <1>0, <1>3, <2>1
<1>4. ASSUME NEW c \in Conns, AdmitFirst(c) \/ RejectFleetReplay(c) PROVE TallyInv'
  BY <1>2, <1>4, NotIdle DEF AdmitFirst, RejectFleetReplay
<1>5. ASSUME NEW c \in Conns, Connect(c) PROVE TallyInv'
  <2>1. conn[c] # Idle /\ Commit(c)
    BY <1>5, NotIdle DEF Connect
  <2>2. conn[c].gw \in Gateways /\ conn[c].n \in Nullifiers
    BY <2>1, CallFacts DEF IInv
  <2>3. \/ tally' = tally
        \/ tally' = [tally EXCEPT ![conn[c].gw] = Ingest(@, conn[c].n, Clock(conn[c].gw))]
    BY <2>1 DEF Commit, Record, tallyVars
  <2> QED
    BY <1>1, <1>3, <2>2, <2>3
<1>6. ASSUME NEW g \in Gateways, NEW q \in Gateways, NEW n \in Nullifiers, Push(g, q, n)
      PROVE  TallyInv'
  BY <1>1, <1>3, <1>6 DEF Push, Deliver, Lose
<1>7. ASSUME NEW c \in Conns, NEW g \in Gateways, NEW n \in Nullifiers, NEW x \in Signals,
             CheckEnvelope(c, g, n, x)
      PROVE  TallyInv'
  BY <1>1, <1>7 DEF CheckEnvelope
<1>8. ASSUME NEW c \in Conns,
             \/ InvalidProof(c) \/ SlashDone(c) \/ Drop(c)
             \/ RejectSlashed(c) \/ SameSignal(c) \/ OverSpend(c)
      PROVE  TallyInv'
  BY <1>1, <1>8 DEF InvalidProof, SlashDone, Drop, RejectSlashed, SameSignal, OverSpend
<1>9. ASSUME NEW g \in Gateways, Sweep(g) PROVE TallyInv'
  BY <1>1, <1>9 DEF Sweep
<1>10. CASE Tick \/ UNCHANGED vars
  BY <1>1, <1>10 DEF Tick, vars
<1> QED
  BY <1>4, <1>5, <1>6, <1>7, <1>8, <1>9, <1>10 DEF Next, Admit

\* An empty tally is within its bounds.
LEMMA TallyInitially == Init => TallyInv
<1> SUFFICES ASSUME Init PROVE TallyInv
  OBVIOUS
<1> DEFINE b == EmptyTally.buckets
<1>1. DOMAIN b = {} /\ EmptyTally.total = 0 /\ EmptyTally = [buckets |-> b, total |-> 0]
  BY DEF EmptyTally
<1>2. Sums!Fold(Sizes(b), {}) = 0
  BY SumFacts, Sums!FoldEmpty
<1>3. Finite(EmptyTally)
  BY <1>1, FS_EmptySet DEF Finite
<1>4. SizeOf(b, DOMAIN b) = 0
  BY <1>1, <1>2, SizeIsSum
<1>5. Within(EmptyTally)
  BY <1>1, <1>4, FS_EmptySet, TallyAssumption DEF Within
<1> QED
  BY <1>3, <1>5 DEF Init, TallyInit, TallyInv

\* No tally of a gateway ever outgrows its bounds, and its total is the number of
\* nullifiers in its buckets, however reports of peers are repeated or delayed.
THEOREM TallyIsBounded == Spec => []TallyBounded
<1>1. Init => IInv /\ TallyInv
  BY Initial, TallyInitially
<1>2. IInv /\ TallyInv /\ [Next]_vars => IInv' /\ TallyInv'
  BY Inductive, TallyInductive
<1>3. TallyInv => TallyBounded
  BY DEF TallyInv, Within, TallyBounded
<1> QED
  BY <1>1, <1>2, <1>3, PTL DEF Spec
=============================================================================
