------------------------ MODULE GatewayHandlerProofs ------------------------
(***************************************************************************)
(* Proofs about GatewayHandler for every finite set of connections, every  *)
(* set of nullifiers and every limit.                                      *)
(*                                                                         *)
(* The counters of the limiter, the budget and the gauge are the sizes of  *)
(* sets of connections (Counted).  That they stay so rests on what each    *)
(* connection's listeners say of where its handler is (Attached): what the *)
(* close event gives back is what was taken, once.                         *)
(***************************************************************************)
EXTENDS GatewayHandler, FiniteSetTheorems, TLAPS

Slotted == {c \in Conns : "slot" \in listeners[c]}

Relaying == {c \in Conns : pc[c] = "open"}

Counted ==
    /\ total = Cardinality(Slotted)
    /\ tunnels = Cardinality(Relaying)
    /\ \A n \in Nullifiers :
          /\ perNull[n] = Cardinality(Holders("nullifier", n))
          /\ budget[n].active = Cardinality(Holders("payload", n))

Attached(c) ==
    /\ sock[c] = "closed" => listeners[c] = {}
    /\ "slot" \in listeners[c] <=> (sock[c] # "closed" /\ pc[c] # "refused")
    /\ "nullifier" \in listeners[c] <=> "payload" \in listeners[c]
    /\ pc[c] \in {"reading", "checking"} => "nullifier" \notin listeners[c]
    /\ pc[c] = "refused" => listeners[c] = {}
    /\ (pc[c] \in {"dialing", "open"} \/ up[c] \in {"connecting", "open", "ending"})
          => "tunnel" \in listeners[c]
    /\ opened[c] <=> pc[c] = "open"

\* An entry of the budget that is in use is there.
Held(n) == budget[n].active > 0 => budget[n].live

IInv ==
    /\ TypeOK
    /\ Counted
    /\ \A c \in Conns : Attached(c)
    /\ \A n \in Nullifiers : Held(n)

-----------------------------------------------------------------------------
\* The limits are positive numbers.
LEMMA Limits ==
    /\ MaxConns \in Nat \ {0} /\ MaxPerNullifier \in Nat \ {0} /\ MaxBytes \in Nat \ {0}
    /\ MaxChunk \in Nat \ {0} /\ MaxAddrs \in Nat \ {0}
BY HandlerAssumption

-----------------------------------------------------------------------------
(* Where a step leaves the connections.                                    *)

Parts == {"slot", "nullifier", "payload", "tunnel"}

ConnTypes ==
    /\ pc \in [Conns -> {"done", "refused", "reading", "checking", "resolving", "dialing", "open"}]
    /\ sock \in [Conns -> {"alive", "ending", "destroyed", "closed"}]
    /\ null \in [Conns -> Nullifiers]
    /\ listeners \in [Conns -> SUBSET Parts]
    /\ left \in [Conns -> 0..MaxAddrs]
    /\ up \in [Conns -> {"none", "connecting", "open", "ending", "destroyed"}]
    /\ opened \in [Conns -> BOOLEAN]
    /\ closes \in [Conns -> SUBSET {"payload-limit", "upstream-error", "idle-timeout"}]
    /\ phase \in {"serving", "draining", "exit-0", "exit-1"}

\* A step on one connection that takes and gives back nothing.
Quiet(c) ==
    \/ ReadEnvelope(c) \/ ReadFails(c) \/ CheckFails(c) \/ NullifierLimit(c)
    \/ AdmittedGone(c) \/ ResolveFails(c) \/ ResolvedGone(c)
    \/ \E k \in 1..MaxAddrs : Resolved(c, k)
    \/ DialNext(c) \/ DialFails(c) \/ ConnectedGone(c)
    \/ UpstreamFlushed(c) \/ UpstreamEnds(c) \/ UpstreamError(c) \/ IdleTimeout(c)
    \/ ClientGone(c)

\* The steps, by what they do to the counters.
LEMMA NextCases ==
    ASSUME Next
    PROVE  \/ \E c \in Conns : 
                \/ Quiet(c) \/ Admitted(c) \/ Connected(c) \/ CloseEvent(c)
                \/ \E n \in Nullifiers : Accept(c, n)
                \/ \E b \in 1..MaxChunk : Chunk(c, b)
           \/ Sweep \/ \E n \in Nullifiers : Age(n)
           \/ Signal \/ Drained \/ GraceTimeout
BY DEF Next, Checked, Deadline, Peer, Quiet

\* A step keeps the types of what is kept per connection.
LEMMA ConnTypesStep ==
    ASSUME ConnTypes, Next
    PROVE  ConnTypes'
<1> USE DEF ConnTypes, Parts, Fail, Goto, Destroy, DestroyedIf, Upstream,
       ClientEnding, UpstreamEnding, connVars
<1>1. ASSUME NEW c \in Conns, Quiet(c) PROVE ConnTypes'
  <2>1. CASE ReadEnvelope(c)
    BY <2>1 DEF ReadEnvelope
  <2>2. CASE ReadFails(c)
    BY <2>2 DEF ReadFails
  <2>3. CASE CheckFails(c)
    BY <2>3 DEF CheckFails
  <2>4. CASE NullifierLimit(c)
    BY <2>4 DEF NullifierLimit
  <2>5. CASE AdmittedGone(c)
    BY <2>5 DEF AdmittedGone
  <2>6. CASE ResolveFails(c)
    BY <2>6 DEF ResolveFails
  <2>7. CASE ResolvedGone(c)
    BY <2>7 DEF ResolvedGone
  <2>8. CASE DialNext(c)
    <3>1. left[c] \in 0..MaxAddrs /\ left[c] - 1 \in 0..MaxAddrs
      BY <2>8, Limits DEF DialNext
    <3> QED
      BY <2>8, <3>1 DEF DialNext
  <2>9. CASE DialFails(c)
    BY <2>9 DEF DialFails
  <2>10. CASE ConnectedGone(c)
    BY <2>10 DEF ConnectedGone
  <2>11. CASE UpstreamFlushed(c)
    BY <2>11 DEF UpstreamFlushed
  <2>12. CASE UpstreamEnds(c)
    BY <2>12 DEF UpstreamEnds
  <2>13. CASE UpstreamError(c)
    BY <2>13 DEF UpstreamError
  <2>14. CASE IdleTimeout(c)
    BY <2>14 DEF IdleTimeout
  <2>15. CASE ClientGone(c)
    BY <2>15 DEF ClientGone
  <2>16. ASSUME NEW k \in 1..MaxAddrs, Resolved(c, k) PROVE ConnTypes'
    <3>1. k - 1 \in 0..MaxAddrs
      BY Limits
    <3> QED
      BY <2>16, <3>1 DEF Resolved
  <2> QED
    BY <1>1, <2>1, <2>2, <2>3, <2>4, <2>5, <2>6, <2>7, <2>8, <2>9, <2>10, <2>11, <2>12, <2>13, <2>14, <2>15, <2>16 DEF Quiet
<1>2. ASSUME NEW c \in Conns, Admitted(c) PROVE ConnTypes'
  BY <1>2 DEF Admitted
<1>3. ASSUME NEW c \in Conns, Connected(c) PROVE ConnTypes'
  BY <1>3 DEF Connected
<1>4. ASSUME NEW c \in Conns, CloseEvent(c) PROVE ConnTypes'
  BY <1>4 DEF CloseEvent
<1>5. ASSUME NEW c \in Conns, NEW n \in Nullifiers, Accept(c, n) PROVE ConnTypes'
  BY <1>5, Limits DEF Accept
<1>6. ASSUME NEW c \in Conns, NEW b \in 1..MaxChunk, Chunk(c, b) PROVE ConnTypes'
  <2>1. /\ sock' = sock \/ ClientEnding(c)
        /\ up' = up \/ UpstreamEnding(c)
        /\ closes' = closes \/ closes' = [closes EXCEPT ![c] = {"payload-limit"}]
        /\ UNCHANGED <<pc, null, listeners, left, opened, phase>>
    BY <1>6 DEF Chunk
  <2> QED
    BY <2>1
<1>7. CASE Sweep \/ (\E n \in Nullifiers : Age(n)) \/ Signal \/ Drained
  BY <1>7 DEF Sweep, Age, Signal, Drained
<1>8. CASE GraceTimeout
  BY <1>8 DEF GraceTimeout
<1> QED
  BY NextCases, <1>1, <1>2, <1>3, <1>4, <1>5, <1>6, <1>7, <1>8

\* What a connection's close event will give back stays what it has taken.
LEMMA AttachedStep ==
    ASSUME ConnTypes, \A d \in Conns : Attached(d), Next, NEW d \in Conns
    PROVE  Attached(d)'
<1> USE DEF ConnTypes, Parts, Attached, Fail, Goto, Destroy, DestroyedIf, Alive, Upstream,
       ClientEnding, UpstreamEnding, connVars
<1>1. ASSUME NEW c \in Conns, Quiet(c) PROVE Attached(d)'
  <2>1. CASE ReadEnvelope(c)
    BY <2>1 DEF ReadEnvelope
  <2>2. CASE ReadFails(c)
    BY <2>2 DEF ReadFails
  <2>3. CASE CheckFails(c)
    BY <2>3 DEF CheckFails
  <2>4. CASE NullifierLimit(c)
    BY <2>4 DEF NullifierLimit
  <2>5. CASE AdmittedGone(c)
    BY <2>5 DEF AdmittedGone
  <2>6. CASE ResolveFails(c)
    BY <2>6 DEF ResolveFails
  <2>7. CASE ResolvedGone(c)
    BY <2>7 DEF ResolvedGone
  <2>8. CASE DialNext(c)
    BY <2>8 DEF DialNext
  <2>9. CASE DialFails(c)
    BY <2>9 DEF DialFails
  <2>10. CASE ConnectedGone(c)
    BY <2>10 DEF ConnectedGone
  <2>11. CASE UpstreamFlushed(c)
    BY <2>11 DEF UpstreamFlushed
  <2>12. CASE UpstreamEnds(c)
    BY <2>12 DEF UpstreamEnds
  <2>13. CASE UpstreamError(c)
    BY <2>13 DEF UpstreamError
  <2>14. CASE IdleTimeout(c)
    BY <2>14 DEF IdleTimeout
  <2>15. CASE ClientGone(c)
    BY <2>15 DEF ClientGone
  <2>16. ASSUME NEW k \in 1..MaxAddrs, Resolved(c, k) PROVE Attached(d)'
    BY <2>16 DEF Resolved
  <2> QED
    BY <1>1, <2>1, <2>2, <2>3, <2>4, <2>5, <2>6, <2>7, <2>8, <2>9, <2>10, <2>11, <2>12, <2>13, <2>14, <2>15, <2>16 DEF Quiet
<1>2. ASSUME NEW c \in Conns, Admitted(c) PROVE Attached(d)'
  BY <1>2 DEF Admitted
<1>3. ASSUME NEW c \in Conns, Connected(c) PROVE Attached(d)'
  BY <1>3 DEF Connected
<1>4. ASSUME NEW c \in Conns, CloseEvent(c) PROVE Attached(d)'
  BY <1>4 DEF CloseEvent
<1>5. ASSUME NEW c \in Conns, NEW n \in Nullifiers, Accept(c, n) PROVE Attached(d)'
  BY <1>5 DEF Accept
<1>6. ASSUME NEW c \in Conns, NEW b \in 1..MaxChunk, Chunk(c, b) PROVE Attached(d)'
  BY <1>6 DEF Chunk
<1>7. CASE Sweep \/ (\E n \in Nullifiers : Age(n)) \/ Signal \/ Drained
  BY <1>7 DEF Sweep, Age, Signal, Drained
<1>8. CASE GraceTimeout
  BY <1>8 DEF GraceTimeout
<1> QED
  BY NextCases, <1>1, <1>2, <1>3, <1>4, <1>5, <1>6, <1>7, <1>8

-----------------------------------------------------------------------------
(* What a step does to the counters.                                       *)

LooseEntry == [used : 0..MaxBytes, active : Int, old : BOOLEAN, live : BOOLEAN]

\* A quiet step leaves every counter and the connections it counts.
LEMMA QuietCounts ==
    ASSUME ConnTypes, \A d \in Conns : Attached(d), NEW c \in Conns, Quiet(c)
    PROVE  /\ UNCHANGED <<total, perNull, budget, tunnels, null>>
           /\ \A d \in Conns :
                 /\ \A what \in {"slot", "nullifier", "payload"} :
                       what \in listeners'[d] <=> what \in listeners[d]
                 /\ pc'[d] = "open" <=> pc[d] = "open"
<1>1. CASE \E k \in 1..MaxAddrs : Resolved(c, k)
  BY <1>1 DEF Resolved, Goto, Upstream, ConnTypes
<1>2. CASE UpstreamFlushed(c) \/ UpstreamEnds(c) \/ UpstreamError(c) \/ IdleTimeout(c)
           \/ ClientGone(c) \/ DialNext(c)
  BY <1>2 DEF UpstreamFlushed, UpstreamEnds, UpstreamError, IdleTimeout, ClientGone, DialNext
<1>3. CASE \/ ReadEnvelope(c) \/ ReadFails(c) \/ CheckFails(c) \/ NullifierLimit(c)
           \/ AdmittedGone(c) \/ ResolveFails(c) \/ ResolvedGone(c)
           \/ DialFails(c) \/ ConnectedGone(c)
  BY <1>3 DEF ReadEnvelope, ReadFails, CheckFails, NullifierLimit, AdmittedGone, ResolveFails,
              ResolvedGone, DialFails, ConnectedGone, Fail, Goto, ConnTypes
<1> QED
  BY <1>1, <1>2, <1>3 DEF Quiet

\* The types of the connections are part of the types.
LEMMA TypeOKConns ==
    ASSUME TypeOK
    PROVE  ConnTypes
BY DEF TypeOK, ConnTypes, Parts

\* The payload budget's entries keep their shape and stay within the budget.
LEMMA BudgetStep ==
    ASSUME IInv, Next
    PROVE  budget' \in [Nullifiers -> LooseEntry] /\ \A n \in Nullifiers : Held(n)'
<1>0. /\ budget \in [Nullifiers -> Entry] /\ null \in [Conns -> Nullifiers]
      /\ budget \in [Nullifiers -> LooseEntry]
      /\ \A n \in Nullifiers : budget[n].active \in Nat /\ Held(n)
  BY HandlerAssumption, FS_CardinalityType DEF IInv, TypeOK, Entry, LooseEntry
<1> USE <1>0, Limits DEF LooseEntry, Held
<1>1. ASSUME UNCHANGED budget PROVE budget' \in [Nullifiers -> LooseEntry] /\ \A n \in Nullifiers : Held(n)'
  BY <1>1
<1>2. ASSUME NEW c \in Conns, Quiet(c) \/ Connected(c) \/ \E n \in Nullifiers : Accept(c, n)
      PROVE  UNCHANGED budget
  BY <1>2, QuietCounts, TypeOKConns DEF Connected, Accept, IInv
<1>3. Swept \in [Nullifiers -> LooseEntry] /\ \A n \in Nullifiers : Swept[n].active > 0 => Swept[n].live
  BY DEF Swept, Sweepable, NoEntry
<1>4. ASSUME NEW c \in Conns, Admitted(c)
      PROVE  budget' \in [Nullifiers -> LooseEntry] /\ \A n \in Nullifiers : Held(n)'
  BY <1>3, <1>4 DEF Admitted, AcquireBudget
<1>5. ASSUME NEW c \in Conns, CloseEvent(c)
      PROVE  budget' \in [Nullifiers -> LooseEntry] /\ \A n \in Nullifiers : Held(n)'
  <2> DEFINE e == budget[null[c]]
             f == [used |-> e.used, active |-> e.active - 1, old |-> e.old, live |-> e.live]
             g == [used |-> e.used, active |-> 0, old |-> FALSE, live |-> e.live]
  <2>1. e \in LooseEntry /\ e.active \in Nat /\ null[c] \in Nullifiers
    OBVIOUS
  <2>2. f \in LooseEntry /\ g \in LooseEntry
    BY <2>1
  <2>3. CASE "payload" \notin listeners[c]
    BY <1>1, <1>5, <2>3 DEF CloseEvent
  <2>4. CASE "payload" \in listeners[c] /\ e.active # 1
    <3>1. budget' = [budget EXCEPT ![null[c]] = f]
      BY <1>5, <2>1, <2>4 DEF CloseEvent, ReleaseBudget
    <3> QED
      BY <3>1, <2>1, <2>2
  <2>5. CASE "payload" \in listeners[c] /\ e.active = 1
    <3>1. budget' = [budget EXCEPT ![null[c]] = g]
      BY <1>5, <2>1, <2>5 DEF CloseEvent, ReleaseBudget
    <3> QED
      BY <3>1, <2>1, <2>2
  <2> QED
    BY <2>3, <2>4, <2>5
<1>6. ASSUME NEW c \in Conns, NEW b \in 1..MaxChunk, Chunk(c, b)
      PROVE  budget' \in [Nullifiers -> LooseEntry] /\ \A n \in Nullifiers : Held(n)'
  <2>1. budget[null[c]].used + Allowed(null[c], b) \in 0..MaxBytes
    BY DEF Allowed, MinOf
  <2> QED
    BY <1>6, <2>1 DEF Chunk
<1>7. CASE Sweep
  BY <1>3, <1>7 DEF Sweep
<1>8. ASSUME NEW n \in Nullifiers, Age(n)
      PROVE  budget' \in [Nullifiers -> LooseEntry] /\ \A m \in Nullifiers : Held(m)'
  <2>1. budget' = [budget EXCEPT ![n] = [budget[n] EXCEPT !.old = TRUE]]
    BY <1>8 DEF Age
  <2> QED
    BY <2>1
<1>9. CASE Signal \/ Drained \/ GraceTimeout
  BY <1>1, <1>9 DEF Signal, Drained, GraceTimeout
<1> QED
  BY NextCases, <1>1, <1>2, <1>4, <1>5, <1>6, <1>7, <1>8, <1>9

\* The sets that are counted are finite.
LEMMA CountedSets ==
    /\ IsFiniteSet(Slotted) /\ IsFiniteSet(Relaying)
    /\ \A what, n : IsFiniteSet(Holders(what, n))
    /\ Cardinality(Slotted) \in 0..Cardinality(Conns)
    /\ Cardinality(Relaying) \in 0..Cardinality(Conns)
    /\ \A what, n : Cardinality(Holders(what, n)) \in 0..Cardinality(Conns)
    /\ Cardinality(Conns) \in Nat
<1>1. \A S \in SUBSET Conns : IsFiniteSet(S) /\ Cardinality(S) \in 0..Cardinality(Conns)
  BY HandlerAssumption, FS_Subset, FS_CardinalityType
<1>2. Slotted \in SUBSET Conns /\ Relaying \in SUBSET Conns /\ \A what, n : Holders(what, n) \in SUBSET Conns
  BY DEF Slotted, Relaying, Holders
<1> QED
  BY <1>1, <1>2, HandlerAssumption, FS_CardinalityType

\* A step that keeps the connections that are counted, and the counters.
LEMMA SameCounts ==
    ASSUME Counted, UNCHANGED <<total, tunnels, perNull>>,
           \A n \in Nullifiers : budget'[n].active = budget[n].active,
           Slotted' = Slotted, Relaying' = Relaying,
           \A n \in Nullifiers, what \in {"nullifier", "payload"} :
               Holders(what, n)' = Holders(what, n)
    PROVE  Counted'
BY DEF Counted

\* Such is every step that changes neither listeners nor places.
LEMMA SameSets ==
    ASSUME UNCHANGED null,
           \A d \in Conns :
              /\ \A what \in {"slot", "nullifier", "payload"} :
                    what \in listeners'[d] <=> what \in listeners[d]
              /\ pc'[d] = "open" <=> pc[d] = "open"
    PROVE  /\ Slotted' = Slotted /\ Relaying' = Relaying
           /\ \A n \in Nullifiers, what \in {"nullifier", "payload"} :
                 Holders(what, n)' = Holders(what, n)
BY DEF Slotted, Relaying, Holders

\* Accepting a connection counts it, unless it is refused.
LEMMA AcceptCounts ==
    ASSUME IInv, NEW c \in Conns, NEW m \in Nullifiers, Accept(c, m)
    PROVE  Counted'
<1>0. ConnTypes /\ Counted /\ Attached(c) /\ sock[c] = "closed"
  BY TypeOKConns DEF IInv, Accept
<1>1. listeners[c] = {} /\ pc[c] # "open"
  BY <1>0 DEF Attached, ConnTypes, Accept
<1>2. /\ Relaying' = Relaying
      /\ \A n \in Nullifiers, what \in {"nullifier", "payload"} : Holders(what, n)' = Holders(what, n)
  BY <1>0, <1>1 DEF Accept, Goto, ConnTypes, Relaying, Holders
<1>3. CASE total >= MaxConns
  <2>1. Slotted' = Slotted
    BY <1>3 DEF Accept, Slotted
  <2> QED
    BY <1>0, <1>2, <1>3, <2>1, SameCounts DEF Accept
<1>4. CASE ~(total >= MaxConns)
  <2>1. Slotted' = Slotted \cup {c} /\ c \notin Slotted
    BY <1>0, <1>1, <1>4 DEF Accept, Slotted, ConnTypes
  <2>2. Cardinality(Slotted') = Cardinality(Slotted) + 1
    BY <2>1, CountedSets, FS_AddElement
  <2> QED
    BY <1>0, <1>2, <1>4, <2>2 DEF Accept, Counted
<1> QED
  BY <1>3, <1>4

\* Admission counts the connection under its nullifier, twice.
LEMMA AdmittedCounts ==
    ASSUME IInv, NEW c \in Conns, Admitted(c)
    PROVE  Counted'
<1>1a. null[c] \in Nullifiers
  BY DEF IInv, TypeOK
<1>1b. PICK m \in Nullifiers : m = null[c]
  BY <1>1a
<1>0. /\ ConnTypes /\ Counted /\ Attached(c) /\ m = null[c]
      /\ budget \in [Nullifiers -> Entry] /\ perNull \in [Nullifiers -> 0..MaxPerNullifier]
  BY <1>1b, TypeOKConns DEF IInv, TypeOK
<1>1. "nullifier" \notin listeners[c] /\ "payload" \notin listeners[c]
  BY <1>0 DEF Attached, Admitted
<1>2. Slotted' = Slotted /\ Relaying' = Relaying /\ UNCHANGED <<total, tunnels>>
  BY <1>0 DEF Admitted, Fail, Goto, ConnTypes, Slotted, Relaying
<1>3. ASSUME NEW what \in {"nullifier", "payload"}
      PROVE  /\ Holders(what, m)' = Holders(what, m) \cup {c} /\ c \notin Holders(what, m)
             /\ \A n \in Nullifiers \ {m} : Holders(what, n)' = Holders(what, n)
  BY <1>0, <1>1 DEF Admitted, ConnTypes, Holders
<1>4. ASSUME NEW what \in {"nullifier", "payload"}
      PROVE  Cardinality(Holders(what, m)') = Cardinality(Holders(what, m)) + 1
  BY <1>3, CountedSets, FS_AddElement
<1>5. perNull' = [perNull EXCEPT ![m] = @ + 1]
  BY <1>0 DEF Admitted
<1>6. /\ budget'[m].active = budget[m].active + 1
      /\ \A n \in Nullifiers \ {m} : budget'[n].active = budget[n].active
  <2>1. CASE budget[m].live
    BY <1>0, <2>1 DEF Admitted, AcquireBudget, Entry
  <2>2. CASE ~budget[m].live
    <3>1. budget[m].active = 0
      BY <1>0, <2>2, CountedSets DEF IInv, Held, Entry
    <3>2. \A n \in Nullifiers : Swept[n].active = budget[n].active
      BY <1>0 DEF Swept, Sweepable, NoEntry, Entry
    <3> QED
      BY <1>0, <2>2, <3>1, <3>2 DEF Admitted, AcquireBudget, Swept
  <2> QED
    BY <2>1, <2>2
<1>7. ASSUME NEW n \in Nullifiers
      PROVE  /\ perNull'[n] = Cardinality(Holders("nullifier", n)')
             /\ budget'[n].active = Cardinality(Holders("payload", n)')
  <2>1. CASE n = m
    <3>1. perNull'[m] = Cardinality(Holders("nullifier", m)')
      BY <1>0, <1>4, <1>5 DEF Counted
    <3>2. budget'[m].active = Cardinality(Holders("payload", m)')
      BY <1>0, <1>4, <1>6 DEF Counted
    <3> QED
      BY <2>1, <3>1, <3>2
  <2>2. CASE n # m
    BY <1>0, <1>3, <1>5, <1>6, <2>2 DEF Counted
  <2> QED
    BY <2>1, <2>2
<1> QED
  BY <1>0, <1>2, <1>7 DEF Counted

\* The tunnel that opens is counted in the gauge.
LEMMA ConnectedCounts ==
    ASSUME IInv, NEW c \in Conns, Connected(c)
    PROVE  Counted'
<1>0. ConnTypes /\ Counted
  BY TypeOKConns DEF IInv
<1>1. Relaying' = Relaying \cup {c} /\ c \notin Relaying
  BY <1>0 DEF Connected, Goto, ConnTypes, Relaying
<1>2. Cardinality(Relaying') = Cardinality(Relaying) + 1
  BY <1>1, CountedSets, FS_AddElement
<1>3. /\ Slotted' = Slotted /\ UNCHANGED <<total, perNull, budget>>
      /\ \A n \in Nullifiers, what \in {"nullifier", "payload"} : Holders(what, n)' = Holders(what, n)
  BY DEF Connected, Slotted, Holders
<1> QED
  BY <1>0, <1>2, <1>3 DEF Connected, Counted

\* The close event takes a connection out of every count it is in, once.
LEMMA CloseCounts ==
    ASSUME IInv, NEW c \in Conns, CloseEvent(c)
    PROVE  Counted'
<1>1a. null[c] \in Nullifiers
  BY DEF IInv, TypeOK
<1>1b. PICK m \in Nullifiers : m = null[c]
  BY <1>1a
<1>0. /\ ConnTypes /\ Counted /\ Attached(c) /\ m = null[c]
      /\ budget \in [Nullifiers -> Entry] /\ perNull \in [Nullifiers -> 0..MaxPerNullifier]
  BY <1>1b, TypeOKConns DEF IInv, TypeOK
<1>1. listeners' = [listeners EXCEPT ![c] = {}] /\ UNCHANGED null
  BY DEF CloseEvent
<1>2. total' = Cardinality(Slotted')
  <2>1. Slotted' = Slotted \ {c} /\ (c \in Slotted <=> "slot" \in listeners[c])
    BY <1>0, <1>1 DEF Slotted, ConnTypes
  <2>2. Cardinality(Slotted') = IF c \in Slotted THEN Cardinality(Slotted) - 1 ELSE Cardinality(Slotted)
    BY <2>1, CountedSets, FS_RemoveElement
  <2> QED
    BY <1>0, <2>1, <2>2 DEF CloseEvent, Counted
<1>3. tunnels' = Cardinality(Relaying')
  <2>1. Relaying' = Relaying \ {c}
    BY <1>0 DEF CloseEvent, Relaying, ConnTypes
  <2>2. Cardinality(Relaying') = IF c \in Relaying THEN Cardinality(Relaying) - 1 ELSE Cardinality(Relaying)
    BY <2>1, CountedSets, FS_RemoveElement
  <2>3. /\ c \in Relaying <=> opened[c]
        /\ c \in Relaying => "tunnel" \in listeners[c]
    BY <1>0 DEF Attached, Relaying
  <2>4. c \in Relaying => Cardinality(Relaying) > 0
    BY CountedSets, FS_EmptySet
  <2> QED
    BY <1>0, <2>2, <2>3, <2>4, CountedSets DEF CloseEvent, Counted
<1>4. ASSUME NEW what \in {"nullifier", "payload"}
      PROVE  /\ Holders(what, m)' = Holders(what, m) \ {c}
             /\ c \in Holders(what, m) <=> what \in listeners[c]
             /\ \A n \in Nullifiers \ {m} : Holders(what, n)' = Holders(what, n)
  BY <1>0, <1>1 DEF ConnTypes, Holders
<1>5. ASSUME NEW what \in {"nullifier", "payload"}
      PROVE  Cardinality(Holders(what, m)') =
                IF what \in listeners[c] THEN Cardinality(Holders(what, m)) - 1
                                         ELSE Cardinality(Holders(what, m))
  BY <1>4, CountedSets, FS_RemoveElement
<1>6. ASSUME NEW n \in Nullifiers
      PROVE  perNull'[n] = Cardinality(Holders("nullifier", n)')
  <2>1. CASE n = m
    BY <1>0, <1>5, <2>1 DEF CloseEvent, Counted
  <2>2. CASE n # m
    BY <1>0, <1>4, <2>2 DEF CloseEvent, Counted
  <2> QED
    BY <2>1, <2>2
<1>7. ASSUME NEW n \in Nullifiers
      PROVE  budget'[n].active = Cardinality(Holders("payload", n)')
  <2>0. CASE "payload" \notin listeners[c]
    BY <1>0, <1>4, <1>5, <2>0 DEF CloseEvent, Counted
  <2>1. CASE "payload" \in listeners[c] /\ n = m
    BY <1>0, <1>5, <2>1 DEF CloseEvent, ReleaseBudget, Counted, Entry
  <2>2. CASE "payload" \in listeners[c] /\ n # m
    BY <1>0, <1>4, <2>2 DEF CloseEvent, ReleaseBudget, Counted
  <2> QED
    BY <2>0, <2>1, <2>2
<1> QED
  BY <1>2, <1>3, <1>6, <1>7 DEF Counted

\* Every counter stays the size of the set of connections it counts.
LEMMA CountedStep ==
    ASSUME IInv, Next
    PROVE  Counted'
<1>0. /\ ConnTypes /\ Counted /\ \A d \in Conns : Attached(d)
      /\ budget \in [Nullifiers -> Entry]
  BY TypeOKConns DEF IInv, TypeOK
<1>1. ASSUME NEW c \in Conns, Quiet(c) PROVE Counted'
  BY <1>0, <1>1, QuietCounts, SameSets, SameCounts
<1>2. ASSUME NEW c \in Conns, NEW b \in 1..MaxChunk, Chunk(c, b) PROVE Counted'
  <2>1. \A n \in Nullifiers : budget'[n].active = budget[n].active
    BY <1>0, <1>2 DEF Chunk, Entry
  <2>2. UNCHANGED <<pc, null, listeners, total, tunnels, perNull>>
    BY <1>2 DEF Chunk
  <2> QED
    BY <1>0, <2>1, <2>2, SameSets, SameCounts
<1>3. ASSUME Sweep \/ (\E n \in Nullifiers : Age(n)) \/ Signal \/ Drained \/ GraceTimeout
      PROVE  Counted'
  <2>1. UNCHANGED <<pc, null, listeners, total, tunnels, perNull>>
    BY <1>3 DEF Sweep, Age, Signal, Drained, GraceTimeout, connVars
  <2>2. \A n \in Nullifiers : budget'[n].active = budget[n].active
    BY <1>0, <1>3 DEF Sweep, Swept, Sweepable, NoEntry, Age, Signal, Drained, GraceTimeout, Entry
  <2> QED
    BY <1>0, <2>1, <2>2, SameSets, SameCounts
<1> QED
  BY <1>1, <1>2, <1>3, NextCases, AcceptCounts, AdmittedCounts, ConnectedCounts, CloseCounts

-----------------------------------------------------------------------------
(* The invariant.                                                          *)

\* The limits hold: the limiter is asked before either of its counters grows.
LEMMA WithinLimits ==
    ASSUME IInv, Next
    PROVE  total' <= MaxConns /\ perNull' \in [Nullifiers -> Int]
           /\ \A n \in Nullifiers : perNull'[n] <= MaxPerNullifier
<1>0. /\ ConnTypes /\ total \in 0..MaxConns /\ perNull \in [Nullifiers -> 0..MaxPerNullifier]
      /\ null \in [Conns -> Nullifiers] /\ \A d \in Conns : Attached(d)
  BY TypeOKConns DEF IInv, TypeOK
<1> USE Limits, <1>0
<1>1. ASSUME NEW c \in Conns, Quiet(c) \/ Connected(c) \/ \E b \in 1..MaxChunk : Chunk(c, b)
      PROVE  UNCHANGED <<total, perNull>>
  BY <1>1, QuietCounts DEF Connected, Chunk
<1>2. ASSUME NEW c \in Conns, NEW n \in Nullifiers, Accept(c, n)
      PROVE  total' <= MaxConns /\ UNCHANGED perNull
  BY <1>2 DEF Accept
<1>3. ASSUME NEW c \in Conns, Admitted(c)
      PROVE  UNCHANGED total /\ perNull' \in [Nullifiers -> 0..MaxPerNullifier]
  BY <1>3 DEF Admitted
<1>4. ASSUME NEW c \in Conns, CloseEvent(c)
      PROVE  total' <= MaxConns /\ perNull' \in [Nullifiers -> Int]
             /\ \A n \in Nullifiers : perNull'[n] <= MaxPerNullifier
  BY <1>4 DEF CloseEvent
<1>5. ASSUME Sweep \/ (\E n \in Nullifiers : Age(n)) \/ Signal \/ Drained \/ GraceTimeout
      PROVE  UNCHANGED <<total, perNull>>
  BY <1>5 DEF Sweep, Age, Signal, Drained, GraceTimeout
<1> QED
  BY NextCases, <1>1, <1>2, <1>3, <1>4, <1>5

\* Types are kept: what is counted bounds the counters from below, the limits
\* from above.
LEMMA TypeStep ==
    ASSUME IInv, Next
    PROVE  TypeOK'
<1>1. ConnTypes'
  BY TypeOKConns, ConnTypesStep DEF IInv
<1>2. Counted'
  BY CountedStep
<1>3. /\ total' = Cardinality(Slotted)' /\ Cardinality(Slotted)' \in Nat
      /\ tunnels' = Cardinality(Relaying)' /\ Cardinality(Relaying)' \in 0..Cardinality(Conns)
      /\ \A n \in Nullifiers :
            /\ perNull'[n] = Cardinality(Holders("nullifier", n))'
            /\ Cardinality(Holders("nullifier", n))' \in Nat
            /\ budget'[n].active \in 0..Cardinality(Conns)
  <2>1. (Cardinality(Slotted) \in 0..Cardinality(Conns))' /\ Cardinality(Conns) \in Nat
        /\ (Cardinality(Relaying) \in 0..Cardinality(Conns))'
        /\ (\A what, n : Cardinality(Holders(what, n)) \in 0..Cardinality(Conns))'
    BY CountedSets, PTL
  <2> QED
    BY <1>2, <2>1 DEF Counted
<1>4. total' \in 0..MaxConns /\ perNull' \in [Nullifiers -> 0..MaxPerNullifier]
  BY <1>3, WithinLimits, Limits DEF IInv, TypeOK
<1>5. budget' \in [Nullifiers -> Entry]
  BY <1>3, BudgetStep DEF LooseEntry, Entry
<1> QED
  BY <1>1, <1>3, <1>4, <1>5 DEF TypeOK, ConnTypes, Parts

\* A gateway that starts has no connections and has counted none.
LEMMA InitIInv == Init => IInv
<1> SUFFICES ASSUME Init PROVE IInv
  OBVIOUS
<1>1. Cardinality(Conns) \in Nat
  BY CountedSets
<1>2. TypeOK
  BY Limits, <1>1 DEF Init, TypeOK, Entry, NoEntry
<1>3. Slotted = {} /\ Relaying = {} /\ \A what, n : Holders(what, n) = {}
  BY DEF Init, Slotted, Relaying, Holders
<1>4. Counted
  BY <1>3, FS_EmptySet DEF Init, Counted, NoEntry
<1> QED
  BY <1>2, <1>4 DEF Init, IInv, Attached, Held, NoEntry

\* Every step keeps the invariant.
LEMMA NextIInv == IInv /\ [Next]_vars => IInv'
<1> SUFFICES ASSUME IInv, [Next]_vars PROVE IInv'
  OBVIOUS
<1>1. CASE Next
  <2>1. \A d \in Conns : Attached(d)'
    BY <1>1, TypeOKConns, AttachedStep DEF IInv
  <2> QED
    BY <1>1, <2>1, TypeStep, CountedStep, BudgetStep DEF IInv
<1>2. CASE UNCHANGED vars
  BY <1>2 DEF vars, connVars, IInv, TypeOK, Counted, Slotted, Relaying, Holders, Attached, Held
<1> QED
  BY <1>1, <1>2

\* The connection handler keeps the invariant.
THEOREM InvariantHolds == Spec => []IInv
BY InitIInv, NextIInv, PTL DEF Spec

\* Types and limits: with any number of clients, whatever they do, neither the
\* limiter nor a slot's payload budget is exceeded.
THEOREM TypeCorrect == Spec => []TypeOK
<1>1. IInv => TypeOK
  BY DEF IInv
<1> QED
  BY InvariantHolds, <1>1, PTL

\* NothingLeaks: at every moment, the limiter's counters, the holders of the
\* payload budget and the gauge are what the close events still to come will
\* give back.
THEOREM NoLeak == Spec => []NothingLeaks
<1>1. IInv => NothingLeaks
  <2> SUFFICES ASSUME IInv PROVE NothingLeaks
    OBVIOUS
  <2>1. Slotted = {c \in Conns : sock[c] # "closed" /\ pc[c] # "refused"}
    BY DEF Slotted, IInv, Attached
  <2>2. Relaying = {c \in Conns : pc[c] = "open" /\ sock[c] # "closed"}
    BY DEF Relaying, IInv, Attached
  <2> QED
    BY <2>1, <2>2 DEF NothingLeaks, GaugeExact, IInv, Counted, Attached
<1> QED
  BY InvariantHolds, <1>1, PTL

\* NoOrphanUpstream: no order of the client's close, the connect callback and
\* the relay's events leaves an upstream socket behind a closed client socket.
THEOREM NoOrphan == Spec => []NoOrphanUpstream
<1>1. IInv => NoOrphanUpstream
  BY DEF IInv, Attached, NoOrphanUpstream
<1> QED
  BY InvariantHolds, <1>1, PTL

\* BudgetNotRestored: no sweep, release or new admission gives a slot its
\* payload allowance back while a connection under it is open.
THEOREM BudgetKept == Spec => BudgetNotRestored
<1> DEFINE Kept == \A n \in Nullifiers : Holders("payload", n) # {} => budget'[n].used >= budget[n].used
<1>1. ASSUME IInv, [Next]_vars PROVE [Kept]_vars
  <2>0. /\ budget \in [Nullifiers -> Entry] /\ null \in [Conns -> Nullifiers]
        /\ \A n \in Nullifiers : budget[n].used \in 0..MaxBytes
        /\ ConnTypes /\ \A d \in Conns : Attached(d)
    BY <1>1, TypeOKConns DEF IInv, TypeOK, Entry
  <2> SUFFICES ASSUME Next, NEW n \in Nullifiers, Holders("payload", n) # {}
               PROVE  budget'[n].used >= budget[n].used
    BY <1>1
  <2>1. budget[n].active > 0 /\ budget[n].live
    <3>1. Cardinality(Holders("payload", n)) # 0 /\ Cardinality(Holders("payload", n)) \in Nat
      BY CountedSets, FS_EmptySet
    <3> QED
      BY <1>1, <3>1 DEF IInv, Counted, Held
  <2>2. Swept[n] = budget[n]
    BY <2>1 DEF Swept, Sweepable
  <2>3. ASSUME UNCHANGED budget PROVE budget'[n].used >= budget[n].used
    BY <2>0, <2>3, Limits
  <2>4. ASSUME NEW c \in Conns, Quiet(c) \/ Connected(c) \/ \E m \in Nullifiers : Accept(c, m)
        PROVE  UNCHANGED budget
    BY <2>0, <2>4, QuietCounts DEF Connected, Accept
  <2>5. ASSUME NEW c \in Conns, Admitted(c) PROVE budget'[n].used >= budget[n].used
    BY <2>0, <2>1, <2>2, <2>5, Limits DEF Admitted, AcquireBudget, Swept, Entry
  <2>6. ASSUME NEW c \in Conns, CloseEvent(c) PROVE budget'[n].used >= budget[n].used
    <3>1. UNCHANGED budget \/ ReleaseBudget(null[c])
      BY <2>6 DEF CloseEvent
    <3>2. null[c] \in Nullifiers /\ budget[null[c]] \in Entry
      BY <2>0
    <3>3. ASSUME ReleaseBudget(null[c]) PROVE budget'[n].used = budget[n].used
      BY <2>0, <3>2, <3>3 DEF ReleaseBudget, Entry
    <3> QED
      BY <2>0, <3>1, <3>3, <2>3, Limits
  <2>7. ASSUME NEW c \in Conns, NEW b \in 1..MaxChunk, Chunk(c, b)
        PROVE  budget'[n].used >= budget[n].used
    BY <2>0, <2>7, Limits DEF Chunk, Allowed, MinOf, Entry
  <2>8. CASE Sweep \/ \E m \in Nullifiers : Age(m)
    BY <2>0, <2>2, <2>8, Limits DEF Sweep, Age, Entry
  <2>9. CASE Signal \/ Drained \/ GraceTimeout
    BY <2>3, <2>9 DEF Signal, Drained, GraceTimeout
  <2> QED
    BY NextCases, <2>3, <2>4, <2>5, <2>6, <2>7, <2>8, <2>9
<1> QED
  BY InvariantHolds, <1>1, PTL DEF Spec, BudgetNotRestored
=============================================================================
