------------------------- MODULE RootProviderProofs -------------------------
(***************************************************************************)
(* Proofs about RootProvider: a contract that cannot be read for its        *)
(* freshness window admits nobody, for any number of contracts, any window, *)
(* poll interval and speed of the reads, and reads that fail at any step.   *)
(*                                                                         *)
(* The argument is about time.  A call reads the sources one by one, so the *)
(* time it has taken is bounded by the number of them it is done with       *)
(* (Clocks), and each answer by the age of the snapshot it rests on         *)
(* (Answers).  What the gateway accepts is as old as the answers of the     *)
(* last call it took, unless a refresh threw after its poll had succeeded;  *)
(* then every source is lost, and the poll that finds one again differs     *)
(* from the last (Dead).                                                   *)
(***************************************************************************)
EXTENDS RootProvider, FiniteSetTheorems, TLAPS

-----------------------------------------------------------------------------
(* The inductive invariant.                                                *)

Several == Cardinality(Sources) # 1

\* What the reads done so far may have taken, when T are left.
Work(T) == (Cardinality(Sources) - Cardinality(T)) * latency

\* When the read in progress began.
Began == IF Reading THEN read.at ELSE now

At(s) == lkg[s].at

\* The last good snapshot of s is of no use any more.
Lost(s) == At(s) = None \/ (At(s) \in Nat /\ At(s) + F < now)

\* The current call has read s.
Current(s) == result[s].ok /\ ~result[s].stale

Calling == pc \in {"start", "poll", "refresh"}

Types ==
    /\ latency \in Latencies /\ now \in Nat /\ due \in Nat
    /\ pc \in {"start", "idle", "poll", "refresh", "exit"}
    /\ todo \subseteq Sources /\ (~Calling => todo = {})
    /\ DOMAIN lkg = Sources /\ \A s \in Sources : At(s) \in Nat \cup {None}
    /\ DOMAIN result = Sources
    /\ \A s \in Sources : result[s].ok \in BOOLEAN /\ result[s].stale \in BOOLEAN
    /\ DOMAIN accepted = Sources
    /\ Reading => /\ read.src \in todo /\ read.at \in Nat
                  /\ DOMAIN read = {"src", "at", "seen", "root", "passed"}

Clocks ==
    /\ Began <= now /\ now <= Began + latency
    /\ pc = "idle" => now <= due
    /\ pc \in {"start", "poll"} => Began <= due + Work(todo)
    /\ pc = "refresh" => Began <= due + CallTime + Work(todo)
    /\ pc \in {"poll", "refresh"} => due <= Began

\* What the answer for s says of its last good snapshot.
Answer(s) ==
    /\ ~result[s].ok => result[s].roots = {}
    /\ s \in todo => ~result[s].ok
    /\ s \notin todo /\ ~result[s].ok => Lost(s)
    /\ result[s].ok => /\ At(s) \in Nat /\ Began + latency <= At(s) + F + Work(todo)
                       /\ pc # "start" => due <= At(s) + F
    /\ Current(s) => /\ Began + latency <= At(s) + Work(todo)
                     /\ pc # "start" => due <= At(s)

Answers == Calling => \A s \in Sources : Answer(s)

\* What the last poll had to say of s.
LastOk(s) == \A K \in last : K[s].ok

LastCurrent(s) == \E K \in last : K[s].ok /\ ~K[s].stale

\* The last refresh threw, and only what was read since is good.
Dead ==
    \A s \in Sources :
        /\ ~LastCurrent(s)
        /\ \/ pc = "poll" /\ Current(s)
           \/ At(s) = None
           \/ At(s) \in Nat /\ At(s) + F + Poll < due

\* How old the roots of s may be that the gateway accepts.
AgeAlone(s) ==
    /\ At(s) \in Nat
    /\ pc \in {"idle", "poll"} => due <= At(s) + F + CallTime + Poll
    /\ pc = "refresh" => Began <= At(s) + F + Work(todo)

AgeSeveral(s) ==
    /\ At(s) \in Nat
    /\ \/ due + latency <= At(s) + F + CallTime + Poll
       \/ /\ due + latency <= At(s) + F + 3 * CallTime + 2 * Poll
          /\ IF pc = "refresh" THEN \E q \in Sources : LastCurrent(q) ELSE Dead
    /\ pc # "refresh" => LastOk(s) \/ due + latency <= At(s) + CallTime + Poll \/ Dead

\* What a poll saw, as its refresh reads the sources again.
Again(s) ==
    /\ LastCurrent(s) => At(s) \in Nat /\ Began + latency <= At(s) + CallTime + Work(todo)
    /\ ~LastOk(s) => IF s \in todo THEN Lost(s) ELSE result[s].ok => Current(s)

IInv ==
    /\ Types /\ Clocks /\ Answers
    /\ pc \in {"start", "exit"} \/ failed => \A s \in Sources : accepted[s] = {}
    /\ \A s \in Sources : accepted[s] # {} => IF Several THEN AgeSeveral(s) ELSE AgeAlone(s)
    /\ pc = "start" => last = {} /\ ~failed
    /\ pc = "refresh" => ~failed /\ (Several => \A s \in Sources : Again(s))

-----------------------------------------------------------------------------
(* Time.                                                                   *)

\* What is known of the constants.
LEMMA Constants ==
    ASSUME Types
    PROVE  /\ F \in Nat \ {0} /\ Poll \in Nat \ {0} /\ latency \in Nat
           /\ None \notin Nat /\ IsFiniteSet(Sources) /\ Cardinality(Sources) \in Nat
           /\ CallTime \in Nat
<1>1. F \in Nat \ {0} /\ Poll \in Nat \ {0} /\ latency \in Nat /\ None \notin Nat /\ IsFiniteSet(Sources)
  BY RootAssumption DEF Types
<1>2. Cardinality(Sources) \in Nat
  BY <1>1, FS_CardinalityType
<1> QED
  BY <1>1, <1>2 DEF CallTime

\* Products of natural numbers.
LEMMA Times ==
    ASSUME NEW n \in Nat, NEW k \in Nat, NEW l \in Nat, k <= n
    PROVE  /\ (n - k) * l \in Nat /\ (n - k) * l <= n * l
           /\ k < n => l <= (n - k) * l
           /\ k > 0 => (n - (k - 1)) * l = (n - k) * l + l /\ (n - k) * l + l <= n * l
<1>1. PICK j \in Nat : j = n - k
  OBVIOUS
<1>2. j * l \in Nat /\ n * l \in Nat /\ k * l \in Nat
  BY <1>1
<1>3. n * l = j * l + k * l
  <2>1. n = j + k
    BY <1>1
  <2>2. (j + k) * l = j * l + k * l
    OBVIOUS
  <2> QED
    BY <2>1, <2>2
<1>4. j > 0 => l <= j * l
  <2>1. ASSUME j > 0
        PROVE  l <= j * l
    <3>1. PICK i \in Nat : j = i + 1
      BY <2>1
    <3>2. (i + 1) * l = i * l + l /\ i * l \in Nat
      OBVIOUS
    <3> QED
      BY <3>1, <3>2
  <2> QED
    BY <2>1
<1>5. k > 0 => l <= k * l
  <2>1. ASSUME k > 0
        PROVE  l <= k * l
    <3>1. PICK i \in Nat : k = i + 1
      BY <2>1
    <3>2. (i + 1) * l = i * l + l /\ i * l \in Nat
      OBVIOUS
    <3> QED
      BY <3>1, <3>2
  <2> QED
    BY <2>1
<1>6. (j + 1) * l = j * l + l
  OBVIOUS
<1>7. (n - (k - 1)) = j + 1 /\ n - k = j /\ (k < n => j > 0)
  BY <1>1
<1>8. j * l <= n * l /\ (k > 0 => j * l + l <= n * l)
  BY <1>2, <1>3, <1>5
<1> QED
  BY <1>2, <1>4, <1>6, <1>7, <1>8

\* Work grows from nothing to the time of a call, by the time of a read for
\* each source that is done with.
LEMMA Works ==
    ASSUME Types, NEW T \in SUBSET Sources
    PROVE  /\ Work(T) \in Nat /\ Work(T) <= CallTime
           /\ Work(Sources) = 0 /\ Work({}) = CallTime
           /\ \A s \in T : Work(T \ {s}) = Work(T) + latency /\ Work(T) + latency <= CallTime
           /\ \A s \in Sources : s \notin T => latency <= Work(T)
<1>0. /\ latency \in Nat /\ IsFiniteSet(Sources) /\ Cardinality(Sources) \in Nat
  BY Constants
<1>1. IsFiniteSet(T) /\ Cardinality(T) \in Nat /\ Cardinality(T) <= Cardinality(Sources)
  BY <1>0, FS_Subset, FS_CardinalityType
<1>2. Work(T) \in Nat /\ Work(T) <= CallTime
  BY <1>0, <1>1, Times DEF Work, CallTime
<1>3. Work(Sources) = 0 /\ Work({}) = CallTime
  <2>1. Cardinality({}) = 0 /\ 0 * latency = 0
    BY <1>0, FS_EmptySet
  <2>2. Cardinality(Sources) - Cardinality(Sources) = 0 /\ Cardinality(Sources) - 0 = Cardinality(Sources)
    BY <1>0
  <2> QED
    BY <2>1, <2>2 DEF Work, CallTime
<1>4. ASSUME NEW s \in T
      PROVE  Work(T \ {s}) = Work(T) + latency /\ Work(T) + latency <= CallTime
  <2>1. Cardinality(T \ {s}) = Cardinality(T) - 1 /\ Cardinality(T \ {s}) \in Nat
    BY <1>1, FS_RemoveElement, FS_CardinalityType
  <2>2. Cardinality(T) > 0
    BY <1>1, <2>1
  <2> QED
    BY <1>0, <1>1, <2>1, <2>2, Times DEF Work, CallTime
<1>5. ASSUME NEW s \in Sources, s \notin T
      PROVE  latency <= Work(T)
  <2>1. Cardinality(T \cup {s}) = Cardinality(T) + 1
    BY <1>1, <1>5, FS_AddElement
  <2>2. Cardinality(T \cup {s}) <= Cardinality(Sources)
    BY <1>0, FS_Subset
  <2>3. Cardinality(T) < Cardinality(Sources)
    BY <1>0, <1>1, <2>1, <2>2
  <2> QED
    BY <1>0, <1>1, <2>3, Times DEF Work
<1> QED
  BY <1>2, <1>3, <1>4, <1>5

\* Work of the primed state.
LEMMA Primes ==
    ASSUME latency' = latency
    PROVE  CallTime' = CallTime /\ Work(todo)' = Work(todo')
BY DEF CallTime, Work

-----------------------------------------------------------------------------
(* Steps of the chain, of time and of one read.                            *)

gateway == <<latency, lkg, pc, todo, result, last, failed, due, accepted>>

\* Time passes in the pauses between polls and while a read is in progress.
LEMMA QuietStep ==
    ASSUME IInv, UNCHANGED <<gateway, read>>, now' \in Nat, now' >= now,
           \/ now' = now
           \/ pc = "idle" /\ now' <= due
           \/ Reading /\ now' <= read.at + latency
    PROVE  IInv'
<1>0. Types /\ Clocks /\ Answers
  BY DEF IInv
<1>1. /\ latency' = latency /\ lkg' = lkg /\ pc' = pc /\ todo' = todo /\ result' = result
      /\ last' = last /\ failed' = failed /\ due' = due /\ accepted' = accepted /\ read' = read
  BY DEF gateway
<1>2. F \in Nat /\ Poll \in Nat /\ latency \in Nat /\ None \notin Nat /\ now \in Nat /\ due \in Nat
  BY <1>0, Constants DEF Types
<1>3. CallTime' = CallTime /\ Work(todo)' = Work(todo)
  BY <1>1, Primes
<1>4. Reading' = Reading /\ (pc = "idle" => ~Reading)
  BY <1>0, <1>1 DEF Reading, Types, Calling
<1>5. Types'
  BY <1>0, <1>1, <1>4 DEF Types, Calling, At
<1>6. pc # "idle" => Began' = Began
  BY <1>1, <1>4 DEF Began
<1>7. Clocks'
  <2>1. CASE now' = now
    BY <1>0, <1>1, <1>3, <1>4, <2>1 DEF Clocks, Began
  <2>2. CASE pc = "idle" /\ now' <= due
    <3>1. Began' = now'
      BY <1>4, <2>2 DEF Began
    <3>2. Began' <= now' /\ now' <= Began' + latency'
      <4>1. PICK t \in Nat : t = now'
        OBVIOUS
      <4>2. t <= t /\ t <= t + latency
        BY <1>2
      <4> QED
        BY <1>1, <3>1, <4>1, <4>2
    <3>3. pc' = "idle" /\ now' <= due'
      BY <1>1, <2>2
    <3> QED
      BY <3>2, <3>3 DEF Clocks
  <2>3. CASE Reading /\ now' <= read.at + latency
    BY <1>0, <1>1, <1>2, <1>3, <1>4, <2>3 DEF Clocks, Began, Types
  <2> QED
    BY <2>1, <2>2, <2>3
<1>8. \A s \in Sources : /\ At(s)' = At(s) /\ (Lost(s) => Lost(s)') /\ (Current(s)' <=> Current(s))
                         /\ (LastOk(s)' <=> LastOk(s)) /\ (LastCurrent(s)' <=> LastCurrent(s))
  <2>1. \A s \in Sources : At(s)' = At(s) /\ At(s) \in Nat \cup {None}
    BY <1>0, <1>1 DEF At, Types
  <2>2. \A s \in Sources : Lost(s) => Lost(s)'
    BY <1>2, <2>1 DEF Lost
  <2> QED
    BY <1>1, <2>1, <2>2 DEF Current, LastOk, LastCurrent
<1>9. Answers'
  <2> SUFFICES ASSUME Calling, NEW s \in Sources
               PROVE  Answer(s)'
    BY <1>1 DEF Answers, Calling
  <2>1. Answer(s) /\ Began' = Began
    BY <1>0, <1>6 DEF Answers, Calling
  <2> QED
    BY <1>1, <1>3, <1>8, <2>1 DEF Answer
<1>10. Dead' <=> Dead
  BY <1>1, <1>8 DEF Dead
<1>11. ASSUME NEW s \in Sources
       PROVE  /\ AgeAlone(s) => AgeAlone(s)'
              /\ AgeSeveral(s) => AgeSeveral(s)'
              /\ pc = "refresh" /\ Again(s) => Again(s)'
  <2>1. AgeAlone(s) => AgeAlone(s)'
    BY <1>1, <1>3, <1>6, <1>8 DEF AgeAlone
  <2>2. AgeSeveral(s) => AgeSeveral(s)'
    BY <1>1, <1>3, <1>8, <1>10 DEF AgeSeveral
  <2>3. pc = "refresh" /\ Again(s) => Again(s)'
    BY <1>1, <1>3, <1>6, <1>8 DEF Again
  <2> QED
    BY <2>1, <2>2, <2>3
<1> QED
  BY <1>1, <1>5, <1>7, <1>9, <1>11 DEF IInv, Several

\* A read begins, or sees the chain.
LEMMA ReadingStep ==
    ASSUME IInv, (\E s \in Sources : ReadBegin(s)) \/ ReadHead
    PROVE  IInv'
<1>0. Types /\ Clocks /\ Answers /\ now \in Nat /\ now' = now
  BY DEF IInv, Types, ReadBegin, ReadHead
<1>1. UNCHANGED gateway
  BY DEF ReadBegin, ReadHead, gateway, setup, chainVars, provVars, callVars, pollVars, gateVars
<1>2. /\ latency' = latency /\ lkg' = lkg /\ pc' = pc /\ todo' = todo /\ result' = result
      /\ last' = last /\ failed' = failed /\ due' = due /\ accepted' = accepted
  BY <1>1 DEF gateway
<1>3. /\ Began' = Began
      /\ Reading' => /\ read'.src \in todo /\ read'.at \in Nat
                     /\ DOMAIN read' = {"src", "at", "seen", "root", "passed"}
  <2>1. CASE \E s \in Sources : ReadBegin(s)
    <3>1. PICK s \in Sources : ReadBegin(s)
      BY <2>1
    <3>2. read' = [src |-> s, at |-> now, seen |-> FALSE, root |-> NoRoot, passed |-> {}]
      BY <3>1 DEF ReadBegin, NoRead
    <3>3. s \in todo /\ ~Reading /\ read'.src = s /\ read'.at = now
      BY <3>1, <3>2 DEF ReadBegin
    <3> QED
      BY <1>0, <3>2, <3>3 DEF Began
  <2>2. CASE ReadHead
    <3>1. Reading /\ DOMAIN read = {"src", "at", "seen", "root", "passed"} /\ read.src \in todo /\ read.at \in Nat
      BY <1>0, <2>2 DEF ReadHead, Types
    <3>2. read' = [read EXCEPT !.seen = TRUE, !.root = Chain(read.src), !.passed = between[read.src]]
      BY <2>2 DEF ReadHead
    <3>3. /\ DOMAIN read' = DOMAIN read /\ read'.src = read.src /\ read'.at = read.at /\ read'.seen = TRUE
      BY <3>1, <3>2
    <3>4. Reading'
      BY <3>3 DEF Reading, NoRead
    <3> QED
      BY <3>1, <3>3, <3>4 DEF Began
  <2> QED
    BY <2>1, <2>2
<1>4. CallTime' = CallTime /\ Work(todo)' = Work(todo)
  BY <1>2, Primes
<1>5. Types'
  BY <1>0, <1>2, <1>3 DEF Types, Calling, At
<1>6. Clocks'
  BY <1>0, <1>2, <1>3, <1>4 DEF Clocks
<1>7. \A s \in Sources : /\ At(s)' = At(s) /\ (Lost(s)' <=> Lost(s)) /\ (Current(s)' <=> Current(s))
                         /\ (LastOk(s)' <=> LastOk(s)) /\ (LastCurrent(s)' <=> LastCurrent(s))
  BY <1>0, <1>2 DEF At, Lost, Current, LastOk, LastCurrent
<1>8. Answers'
  <2> SUFFICES ASSUME Calling, NEW s \in Sources
               PROVE  Answer(s)'
    BY <1>2 DEF Answers, Calling
  <2>1. Answer(s)
    BY <1>0 DEF Answers
  <2> QED
    BY <1>2, <1>3, <1>4, <1>7, <2>1 DEF Answer
<1>9. Dead' <=> Dead
  BY <1>2, <1>7 DEF Dead
<1>10. ASSUME NEW s \in Sources
       PROVE  /\ AgeAlone(s) => AgeAlone(s)'
              /\ AgeSeveral(s) => AgeSeveral(s)'
              /\ Again(s) => Again(s)'
  <2>1. AgeAlone(s) => AgeAlone(s)'
    BY <1>2, <1>3, <1>4, <1>7 DEF AgeAlone
  <2>2. AgeSeveral(s) => AgeSeveral(s)'
    BY <1>2, <1>4, <1>7, <1>9 DEF AgeSeveral
  <2>3. Again(s) => Again(s)'
    BY <1>2, <1>3, <1>4, <1>7 DEF Again
  <2> QED
    BY <2>1, <2>2, <2>3
<1> QED
  BY <1>2, <1>5, <1>6, <1>8, <1>10 DEF IInv, Several

\* How the read of s may end: s was read, its last good snapshot stands in, or
\* it is lost.
Ends(s) ==
    \/ At(s)' = now /\ result'[s].ok /\ ~result'[s].stale
    \/ /\ At(s)' = At(s) /\ result'[s].ok /\ result'[s].stale
       /\ At(s) \in Nat /\ now <= At(s) + F
    \/ At(s)' = At(s) /\ ~result'[s].ok /\ result'[s].roots = {} /\ Lost(s)

LEMMA ReadEnds ==
    ASSUME IInv, ReadOk \/ ReadFails
    PROVE  \E s \in todo :
              /\ Ends(s) /\ todo' = todo \ {s} /\ read' = NoRead
              /\ DOMAIN lkg' = Sources /\ DOMAIN result' = Sources
              /\ result'[s].ok \in BOOLEAN /\ result'[s].stale \in BOOLEAN
              /\ \A q \in Sources \ {s} : lkg'[q] = lkg[q] /\ result'[q] = result[q]
<1>0. /\ Types /\ Reading /\ now \in Nat /\ F \in Nat /\ None \notin Nat
  BY Constants DEF IInv, Types, ReadOk, ReadFails
<1>1. PICK s \in todo : s = read.src
  BY <1>0 DEF Types
<1>2. s \in Sources /\ DOMAIN lkg = Sources /\ DOMAIN result = Sources
  BY <1>0 DEF Types
<1>3. CASE ReadOk
  <2>1. PICK f, roots :
          /\ lkg' = [lkg EXCEPT ![s] = [at |-> now, first |-> f]]
          /\ result' = [result EXCEPT ![s] =
                           [ok |-> TRUE, stale |-> FALSE, first |-> f, roots |-> roots]]
    BY <1>1, <1>3 DEF ReadOk
  <2>2. /\ lkg'[s] = [at |-> now, first |-> f]
        /\ result'[s] = [ok |-> TRUE, stale |-> FALSE, first |-> f, roots |-> roots]
        /\ DOMAIN lkg' = Sources /\ DOMAIN result' = Sources
        /\ \A q \in Sources \ {s} : lkg'[q] = lkg[q] /\ result'[q] = result[q]
    BY <1>2, <2>1
  <2>3. Ends(s) /\ result'[s].ok = TRUE /\ result'[s].stale = FALSE
    BY <2>2 DEF Ends, At
  <2> QED
    <3>1. todo' = todo \ {s} /\ read' = NoRead
      BY <1>1, <1>3 DEF ReadOk
    <3> QED
      BY <2>2, <2>3, <3>1
<1>4. CASE ReadFails
  <2>1. /\ lkg' = lkg
        /\ result' = [result EXCEPT ![s] =
              IF Usable(s)
              THEN [ok |-> TRUE, stale |-> TRUE, first |-> lkg[s].first,
                    roots |-> {lkg[s].first} \ {NoRoot}]
              ELSE NoResult]
    BY <1>1, <1>4 DEF ReadFails
  <2>2. /\ result'[s] = IF Usable(s)
              THEN [ok |-> TRUE, stale |-> TRUE, first |-> lkg[s].first,
                    roots |-> {lkg[s].first} \ {NoRoot}]
              ELSE NoResult
        /\ DOMAIN lkg' = Sources /\ DOMAIN result' = Sources
        /\ \A q \in Sources \ {s} : lkg'[q] = lkg[q] /\ result'[q] = result[q]
    BY <1>2, <2>1
  <2>3. At(s)' = At(s) /\ At(s) \in Nat \cup {None}
    BY <1>0, <1>2, <2>1 DEF At, Types
  <2>4. CASE Usable(s)
    <3>1. At(s) \in Nat /\ now - At(s) <= F
      BY <2>3, <2>4 DEF Usable, At
    <3>2. now <= At(s) + F
      BY <1>0, <3>1
    <3>3. result'[s].ok = TRUE /\ result'[s].stale = TRUE
      BY <2>2, <2>4
    <3> QED
      BY <1>1, <1>4, <2>2, <2>3, <3>1, <3>2, <3>3 DEF Ends, ReadFails
  <2>5. CASE ~Usable(s)
    <3>1. result'[s].ok = FALSE /\ result'[s].stale = FALSE /\ result'[s].roots = {}
      BY <2>2, <2>5 DEF NoResult
    <3>2. At(s) # None => ~(now - At(s) <= F)
      BY <2>5 DEF Usable, At
    <3>3. Lost(s)
      BY <1>0, <2>3, <3>2 DEF Lost
    <3> QED
      BY <1>1, <1>4, <2>2, <2>3, <3>1, <3>3 DEF Ends, ReadFails
  <2> QED
    BY <2>4, <2>5
<1> QED
  BY <1>3, <1>4

\* The end of a read.
LEMMA ReadDoneStep ==
    ASSUME IInv, ReadOk \/ ReadFails
    PROVE  IInv'
<1>0. Types /\ Clocks /\ Answers
  BY DEF IInv
<1>1. /\ latency' = latency /\ pc' = pc /\ last' = last /\ failed' = failed /\ due' = due
      /\ accepted' = accepted /\ now' = now
  BY DEF ReadOk, ReadFails, setup, pollVars, gateVars
<1>2. PICK s \in todo :
              /\ Ends(s) /\ todo' = todo \ {s} /\ read' = NoRead
              /\ DOMAIN lkg' = Sources /\ DOMAIN result' = Sources
              /\ result'[s].ok \in BOOLEAN /\ result'[s].stale \in BOOLEAN
              /\ \A q \in Sources \ {s} : lkg'[q] = lkg[q] /\ result'[q] = result[q]
  BY ReadEnds
<1>3. /\ F \in Nat /\ Poll \in Nat /\ latency \in Nat /\ None \notin Nat /\ now \in Nat /\ due \in Nat
      /\ CallTime \in Nat /\ s \in Sources /\ Calling /\ todo \in SUBSET Sources
  BY <1>0, Constants DEF Types
<1>4. /\ Work(todo) \in Nat /\ Work(todo \ {s}) = Work(todo) + latency /\ Work(todo) + latency <= CallTime
  BY <1>0, <1>3, Works
<1>w. CallTime' = CallTime /\ Work(todo)' = Work(todo) + latency
  BY <1>1, <1>2, <1>4, Primes
<1>b. ~Reading' /\ Began' = now /\ Began \in Nat /\ Began <= now /\ now <= Began + latency
  BY <1>0, <1>1, <1>2, <1>3 DEF Reading, Began, Clocks, Types
<1>a. /\ \A q \in Sources : At(q) \in Nat \cup {None}
      /\ \A q \in Sources \ {s} : At(q)' = At(q) /\ (Current(q)' <=> Current(q)) /\ (Lost(q)' <=> Lost(q))
      /\ \A q \in Sources : (LastOk(q)' <=> LastOk(q)) /\ (LastCurrent(q)' <=> LastCurrent(q))
  BY <1>0, <1>1, <1>2 DEF Types, At, Current, Lost, LastOk, LastCurrent
<1>s. \/ At(s)' = now /\ Current(s)' /\ result'[s].ok
      \/ /\ At(s)' = At(s) /\ result'[s].ok /\ ~Current(s)'
         /\ At(s) \in Nat /\ now <= At(s) + F
      \/ At(s)' = At(s) /\ ~result'[s].ok /\ ~Current(s)' /\ result'[s].roots = {} /\ Lost(s) /\ Lost(s)'
  BY <1>1, <1>2 DEF Ends, Current, Lost
<1>p. pc = "poll" \/ pc = "refresh" => due <= now
  BY <1>0, <1>3, <1>b DEF Clocks
<1>5. Types'
  <2>1. At(s)' \in Nat \cup {None}
    BY <1>3, <1>a, <1>s
  <2>2. \A q \in Sources : At(q)' \in Nat \cup {None}
    BY <1>a, <2>1
  <2>3. \A q \in Sources : result'[q].ok \in BOOLEAN /\ result'[q].stale \in BOOLEAN
    BY <1>0, <1>2 DEF Types
  <2> QED
    BY <1>0, <1>1, <1>2, <1>3, <1>b, <2>2, <2>3 DEF Types, Calling
<1>6. Clocks'
  BY <1>0, <1>1, <1>3, <1>4, <1>b, <1>w, <1>p DEF Clocks, Calling
<1>7. Answers'
  <2> SUFFICES ASSUME NEW q \in Sources
               PROVE  Answer(q)'
    BY DEF Answers
  <2>1. Answer(q)
    BY <1>0, <1>3 DEF Answers
  <2>2. CASE q = s
    <3>1. pc # "start" => due <= now
      BY <1>3, <1>p DEF Calling
    <3> QED
      BY <1>1, <1>2, <1>3, <1>4, <1>b, <1>s, <1>w, <2>2, <3>1 DEF Answer
  <2>3. CASE q # s
    <3>1. /\ result'[q] = result[q] /\ At(q)' = At(q) /\ (Current(q)' <=> Current(q))
          /\ (Lost(q)' <=> Lost(q)) /\ (q \in todo' <=> q \in todo) /\ At(q) \in Nat \cup {None}
      BY <1>2, <1>a, <2>3
    <3>2. result[q].ok => At(q) \in Nat /\ now + latency <= At(q) + F + (Work(todo) + latency)
      BY <1>3, <1>4, <1>b, <2>1 DEF Answer
    <3>3. Current(q) => At(q) \in Nat /\ now + latency <= At(q) + (Work(todo) + latency)
      BY <1>3, <1>4, <1>b, <2>1 DEF Answer, Current
    <3> QED
      BY <1>1, <1>b, <1>w, <2>1, <3>1, <3>2, <3>3 DEF Answer
  <2> QED
    BY <2>2, <2>3
\* What keeps `due` near a snapshot is only helped by a newer one.
<1>8. ASSUME NEW q \in Sources, At(q) \in Nat
      PROVE  /\ At(q)' \in Nat
             /\ At(q)' = At(q) \/ (q = s /\ At(q)' = now)
  BY <1>3, <1>8, <1>a, <1>s
<1>9. ASSUME NEW q \in Sources, AgeAlone(q)
      PROVE  AgeAlone(q)'
  <2>1. CASE At(q)' = At(q)
    BY <1>1, <1>3, <1>4, <1>8, <1>9, <1>b, <1>w, <2>1 DEF AgeAlone
  <2>2. CASE At(q)' = now
    BY <1>1, <1>3, <1>4, <1>8, <1>9, <1>b, <1>w, <1>p, <2>2 DEF AgeAlone, Calling
  <2> QED
    BY <1>8, <1>9, <2>1, <2>2 DEF AgeAlone
<1>10. pc = "poll" /\ Dead => Dead'
  <2> SUFFICES ASSUME pc = "poll", Dead, NEW q \in Sources
               PROVE  /\ ~LastCurrent(q)'
                      /\ \/ pc' = "poll" /\ Current(q)'
                         \/ At(q)' = None
                         \/ At(q)' \in Nat /\ At(q)' + F + Poll < due'
    BY DEF Dead
  <2>1. /\ ~LastCurrent(q)
        /\ Current(q) \/ At(q) = None \/ (At(q) \in Nat /\ At(q) + F + Poll < due)
    BY DEF Dead
  <2>2. CASE q # s
    BY <1>1, <1>a, <2>1, <2>2
  <2>3. CASE q = s
    <3>1. ~Current(s)
      BY <1>0, <1>3 DEF Answers, Answer, Current
    <3> QED
      BY <1>1, <1>a, <1>s, <2>1, <2>3, <3>1
  <2> QED
    BY <2>2, <2>3
<1>11. ASSUME NEW q \in Sources, AgeSeveral(q), pc = "poll" \/ pc = "refresh"
       PROVE  AgeSeveral(q)'
  <2>1. CASE At(q)' = At(q)
    BY <1>1, <1>3, <1>8, <1>10, <1>11, <1>a, <1>w, <2>1 DEF AgeSeveral
  <2>2. CASE At(q)' = now
    <3>1. due + latency <= now + CallTime + Poll
      BY <1>3, <1>4, <1>11, <1>p
    <3> QED
      BY <1>1, <1>3, <1>8, <1>11, <1>w, <2>2, <3>1 DEF AgeSeveral
  <2> QED
    BY <1>8, <1>11, <2>1, <2>2 DEF AgeSeveral
<1>12. ASSUME NEW q \in Sources, Again(q), pc = "refresh"
       PROVE  Again(q)'
  <2>1. LastCurrent(q) => At(q)' \in Nat /\ now + latency <= At(q)' + CallTime + Work(todo) + latency
    <3>1. ASSUME LastCurrent(q)
          PROVE  At(q) \in Nat /\ Began + latency <= At(q) + CallTime + Work(todo)
      BY <1>12, <3>1 DEF Again
    <3> QED
      BY <1>3, <1>4, <1>8, <1>b, <3>1
  <2>2. ~LastOk(q) => IF q \in todo' THEN Lost(q)' ELSE result'[q].ok => Current(q)'
    <3>1. CASE q = s
      BY <1>2, <1>3, <1>12, <1>s, <3>1 DEF Again, Lost
    <3>2. CASE q # s
      BY <1>2, <1>12, <1>a, <3>2 DEF Again
    <3> QED
      BY <3>1, <3>2
  <2> QED
    BY <1>1, <1>3, <1>4, <1>a, <1>b, <1>w, <2>1, <2>2 DEF Again
<1>13. \A q \in Sources : accepted[q] # {} => pc = "poll" \/ pc = "refresh"
  BY <1>3 DEF IInv, Calling
<1> QED
  BY <1>1, <1>5, <1>6, <1>7, <1>9, <1>11, <1>12, <1>13 DEF IInv, Several

-----------------------------------------------------------------------------
(* Steps of the poll and of the gateway.                                   *)

\* The situation at the end of a call.
LEMMA CallDone ==
    ASSUME IInv, Answered, Calling
    PROVE  /\ Types /\ todo = {} /\ ~Reading /\ Began = now
           /\ F \in Nat \ {0} /\ Poll \in Nat \ {0} /\ latency \in Nat /\ None \notin Nat
           /\ now \in Nat /\ due \in Nat /\ CallTime \in Nat /\ Work({}) = CallTime
           /\ Cardinality(Sources) \in Nat
           /\ pc # "refresh" => now <= due + CallTime
           /\ pc = "refresh" => now <= due + CallTime + CallTime
           /\ pc # "start" => due <= now
           /\ \A s \in Sources :
                 /\ At(s) \in Nat \cup {None}
                 /\ result[s].ok \in BOOLEAN /\ result[s].stale \in BOOLEAN
                 /\ ~result[s].ok => result[s].roots = {} /\ Lost(s)
                 /\ result[s].ok => /\ At(s) \in Nat /\ now + latency <= At(s) + F + CallTime
                                    /\ pc # "start" => due <= At(s) + F
                 /\ Current(s) => /\ At(s) \in Nat /\ now + latency <= At(s) + CallTime
                                  /\ pc # "start" => due <= At(s)
<1>1. Types /\ Clocks /\ Answers /\ todo = {} /\ ~Reading /\ Began = now
  BY DEF IInv, Answered, Began
<1>2. /\ F \in Nat \ {0} /\ Poll \in Nat \ {0} /\ latency \in Nat /\ None \notin Nat
      /\ now \in Nat /\ due \in Nat /\ CallTime \in Nat /\ Cardinality(Sources) \in Nat
  BY <1>1, Constants DEF Types
<1>3. Work({}) = CallTime
  BY <1>1, Works
<1>4. /\ pc # "refresh" => now <= due + CallTime
      /\ pc = "refresh" => now <= due + CallTime + CallTime
      /\ pc # "start" => due <= now
  BY <1>1, <1>3 DEF Clocks, Calling
<1>5. ASSUME NEW s \in Sources
      PROVE  /\ At(s) \in Nat \cup {None}
             /\ result[s].ok \in BOOLEAN /\ result[s].stale \in BOOLEAN
             /\ ~result[s].ok => result[s].roots = {} /\ Lost(s)
             /\ result[s].ok => /\ At(s) \in Nat /\ now + latency <= At(s) + F + CallTime
                                /\ pc # "start" => due <= At(s) + F
             /\ Current(s) => /\ At(s) \in Nat /\ now + latency <= At(s) + CallTime
                              /\ pc # "start" => due <= At(s)
  <2>1. Answer(s)
    BY <1>1 DEF Answers
  <2>2. At(s) \in Nat \cup {None} /\ result[s].ok \in BOOLEAN /\ result[s].stale \in BOOLEAN
    BY <1>1 DEF Types
  <2> QED
    BY <1>1, <1>3, <2>1, <2>2 DEF Answer, Current
<1> QED
  BY <1>1, <1>2, <1>3, <1>4, <1>5

\* A call that is followed by a pause leaves everything but the ages in order.
LEMMA Pause ==
    ASSUME IInv, Answered, Calling, Idle, UNCHANGED <<latency, now, lkg, read>>,
           DOMAIN accepted' = Sources,
           failed' => \A s \in Sources : accepted'[s] = {},
           \A s \in Sources : accepted'[s] # {} => IF Several THEN AgeSeveral(s)' ELSE AgeAlone(s)'
    PROVE  IInv'
<1>1. Types /\ todo = {} /\ ~Reading /\ now \in Nat /\ Poll \in Nat /\ latency \in Nat
  BY CallDone
<1>2. pc' = "idle" /\ due' = now + Poll /\ todo' = todo /\ result' = result
  BY DEF Idle
<1>3. ~Reading' /\ Began' = now /\ ~Calling'
  BY <1>1, <1>2 DEF Reading, Began, Calling
<1>4. Types'
  BY <1>1, <1>2, <1>3 DEF Types, Calling, At
<1>5. Clocks'
  <2>1. Began' <= now' /\ now' <= Began' + latency'
    BY <1>1, <1>3
  <2>2. now' <= due'
    BY <1>1, <1>2
  <2> QED
    BY <1>2, <2>1, <2>2 DEF Clocks
<1>6. Answers'
  BY <1>3 DEF Answers
<1> QED
  BY <1>2, <1>4, <1>5, <1>6 DEF IInv, Several

\* Ages after a call in which s was ok, in primed terms.
LEMMA OkAge ==
    ASSUME IInv, Answered, Calling, Idle, UNCHANGED <<latency, now, lkg>>,
           NEW s \in Sources, result[s].ok
    PROVE  /\ At(s)' = At(s) /\ At(s) \in Nat
           /\ due' + latency' <= At(s)' + F + CallTime' + Poll
           /\ Current(s) => due' + latency' <= At(s)' + CallTime' + Poll
           /\ ~Several => AgeAlone(s)'
<1>1. /\ now \in Nat /\ Poll \in Nat /\ latency \in Nat /\ CallTime \in Nat /\ F \in Nat
      /\ At(s) \in Nat /\ now + latency <= At(s) + F + CallTime
      /\ Current(s) => now + latency <= At(s) + CallTime
  BY CallDone
<1>2. pc' = "idle" /\ due' = now + Poll /\ latency' = latency /\ CallTime' = CallTime /\ At(s)' = At(s)
  BY Primes DEF Idle, At
<1>3. due' + latency' <= At(s)' + F + CallTime' + Poll
  BY <1>1, <1>2
<1>4. Current(s) => due' + latency' <= At(s)' + CallTime' + Poll
  BY <1>1, <1>2
<1>5. AgeAlone(s)'
  BY <1>1, <1>2 DEF AgeAlone
<1> QED
  BY <1>1, <1>2, <1>3, <1>4, <1>5

\* refresh() takes what the call returned, after a start or after a poll.
LEMMA TakeStep ==
    ASSUME IInv, Answered, pc = "start" \/ pc = "refresh", Take, Idle,
           UNCHANGED <<latency, now, lkg, read, last, failed>>
    PROVE  IInv'
<1>0. Calling
  BY DEF Calling
<1>1. accepted' = [s \in Sources |-> result[s].roots]
  BY DEF Take
<1>2. ASSUME NEW s \in Sources, accepted'[s] # {}
      PROVE  IF Several THEN AgeSeveral(s)' ELSE AgeAlone(s)'
  <2>1. result[s].ok
    BY <1>0, <1>1, <1>2, CallDone
  <2>2. /\ At(s)' = At(s) /\ At(s) \in Nat
        /\ due' + latency' <= At(s)' + F + CallTime' + Poll
        /\ Current(s) => due' + latency' <= At(s)' + CallTime' + Poll
        /\ ~Several => AgeAlone(s)'
    BY <1>0, <2>1, OkAge
  <2>3. ASSUME Several
        PROVE  LastOk(s)' \/ Current(s)
    <3>1. CASE pc = "start"
      BY <3>1 DEF IInv, LastOk
    <3>2. CASE pc = "refresh"
      <4>1. Again(s) /\ s \notin todo
        BY <2>3, <3>2 DEF IInv, Answered
      <4> QED
        BY <2>1, <4>1 DEF Again, LastOk
    <3> QED
      BY <3>1, <3>2
  <2>4. Several => AgeSeveral(s)'
    BY <2>2, <2>3 DEF AgeSeveral
  <2> QED
    BY <2>2, <2>4
<1>3. DOMAIN accepted' = Sources /\ ~failed'
  BY <1>1 DEF IInv
<1> QED
  BY <1>0, <1>2, <1>3, Pause

\* The gateway accepts nothing.
LEMMA DropStep ==
    ASSUME IInv, Answered, Calling, Idle, UNCHANGED <<latency, now, lkg, read>>,
           DOMAIN accepted' = Sources, \A s \in Sources : accepted'[s] = {}
    PROVE  IInv'
BY Pause

\* currentRoots() is called on behalf of a poll or of its refresh.
LEMMA CallStep ==
    ASSUME IInv, ~Reading, NEW p \in {"poll", "refresh"}, Call(p),
           UNCHANGED <<latency, now, lkg, read, due, accepted>>,
           due <= now, p = "poll" => now <= due, p = "refresh" => now <= due + CallTime
    PROVE  /\ Types' /\ Clocks' /\ Answers' /\ pc' = p /\ Began' = now /\ todo' = Sources
           /\ CallTime' = CallTime /\ Work(todo)' = 0
           /\ \A s \in Sources : At(s)' = At(s) /\ (Lost(s)' <=> Lost(s)) /\ ~Current(s)'
<1>1. Types /\ now \in Nat /\ due \in Nat /\ latency \in Nat /\ CallTime \in Nat
  BY Constants DEF IInv, Types
<1>2. pc' = p /\ todo' = Sources /\ result' = [s \in Sources |-> NoResult]
  BY DEF Call
<1>3. \A s \in Sources : result'[s].ok = FALSE /\ result'[s].stale = FALSE /\ result'[s].roots = {}
  BY <1>2 DEF NoResult
<1>4. ~Reading' /\ Began' = now /\ Calling' /\ pc' # "start" /\ pc' # "idle"
  BY <1>2 DEF Reading, Began, Calling
<1>5. CallTime' = CallTime /\ Work(todo)' = 0
  <2>1. Work(Sources) = 0
    BY <1>1, Works
  <2> QED
    BY <1>2, <2>1, Primes
<1>6. \A s \in Sources : At(s)' = At(s) /\ (Lost(s)' <=> Lost(s)) /\ ~Current(s)'
  BY <1>3 DEF At, Lost, Current
<1>7. Types'
  BY <1>1, <1>2, <1>3, <1>4, <1>6 DEF Types
<1>8. Clocks'
  BY <1>1, <1>2, <1>4, <1>5 DEF Clocks
<1>9. Answers'
  BY <1>2, <1>3, <1>6 DEF Answers, Answer
<1> QED
  BY <1>2, <1>4, <1>5, <1>6, <1>7, <1>8, <1>9

LEMMA PollTimerStep ==
    ASSUME IInv, PollTimer
    PROVE  IInv'
<1>1. /\ pc = "idle" /\ now >= due /\ now <= due /\ Call("poll") /\ todo = {} /\ ~Reading
      /\ UNCHANGED <<latency, now, lkg, read, due, accepted, last, failed>>
      /\ now \in Nat /\ due \in Nat
  BY DEF IInv, Types, Clocks, Calling, PollTimer, setup, provVars, pollVars, gateVars
<1>2. /\ Types' /\ Clocks' /\ Answers' /\ pc' = "poll" /\ CallTime' = CallTime
      /\ \A s \in Sources : At(s)' = At(s) /\ ~Current(s)'
  BY <1>1, CallStep
<1>3. \A s \in Sources : (LastOk(s)' <=> LastOk(s)) /\ (LastCurrent(s)' <=> LastCurrent(s))
  BY <1>1 DEF LastOk, LastCurrent
<1>4. Dead => Dead'
  BY <1>1, <1>2, <1>3 DEF Dead
<1>5. ASSUME NEW s \in Sources
      PROVE  (AgeAlone(s) => AgeAlone(s)') /\ (AgeSeveral(s) => AgeSeveral(s)')
  BY <1>1, <1>2, <1>3, <1>4 DEF AgeAlone, AgeSeveral
<1> QED
  BY <1>1, <1>2, <1>5 DEF IInv, Several

LEMMA PollThrewStep ==
    ASSUME IInv, PollThrew
    PROVE  IInv'
<1>1. Answered /\ Calling /\ Idle /\ UNCHANGED <<latency, now, lkg, read>>
  BY DEF PollThrew, Calling, setup, provVars
<1>2. DOMAIN accepted' = Sources /\ \A s \in Sources : accepted'[s] = {}
  <2>1. CASE failed
    BY <2>1 DEF PollThrew, IInv, Types, gateVars
  <2>2. CASE ~failed
    BY <2>2 DEF PollThrew, Drop
  <2> QED
    BY <2>1, <2>2
<1> QED
  BY <1>1, <1>2, DropStep

\* In a call that did not throw some source is ok; the only one is.
LEMMA SomeOk ==
    ASSUME ~Threw, Types
    PROVE  /\ \E q \in Sources : result[q].ok
           /\ ~Several => \A s \in Sources : result[s].ok
           /\ ~Several => CallTime = latency
<1>1. PICK q \in Sources : result[q].ok
  BY DEF Threw
<1>2. ASSUME ~Several
      PROVE  (\A s \in Sources : s = q) /\ CallTime = latency
  <2>1. IsFiniteSet(Sources) /\ latency \in Nat /\ Cardinality(Sources) = 1
    BY <1>2, Constants DEF Several
  <2>2. \E x : Sources = {x}
    BY <2>1, FS_Singleton
  <2> QED
    BY <1>1, <2>1, <2>2 DEF CallTime
<1> QED
  BY <1>1, <1>2

\* A dead gateway's sources that are ok were read by this poll.
LEMMA DeadOk ==
    ASSUME IInv, Answered, pc = "poll", Dead, NEW q \in Sources, result[q].ok
    PROVE  Current(q)
<1>1. /\ At(q) \in Nat /\ due <= At(q) + F /\ F \in Nat /\ Poll \in Nat \ {0} /\ due \in Nat /\ None \notin Nat
  BY CallDone DEF Calling
<1>2. Current(q) \/ At(q) = None \/ (At(q) \in Nat /\ At(q) + F + Poll < due)
  BY DEF Dead
<1> QED
  BY <1>1, <1>2

\* The poll's answer is news.
LEMMA NewsStep ==
    ASSUME IInv, PollAnswered, last # {Key}
    PROVE  IInv'
<1>1. /\ pc = "poll" /\ Answered /\ ~Threw /\ Call("refresh") /\ ~failed' /\ last' = {Key}
      /\ UNCHANGED <<latency, now, lkg, read, due, accepted>>
  BY DEF PollAnswered, setup, provVars, gateVars
<1>2. /\ Types /\ ~Reading /\ now \in Nat /\ due \in Nat /\ latency \in Nat /\ CallTime \in Nat
      /\ F \in Nat /\ Poll \in Nat /\ due <= now /\ now <= due + CallTime
      /\ \A s \in Sources :
            /\ ~result[s].ok => Lost(s)
            /\ result[s].ok => At(s) \in Nat /\ now + latency <= At(s) + F + CallTime
            /\ Current(s) => At(s) \in Nat /\ now + latency <= At(s) + CallTime
  BY <1>1, CallDone DEF Calling
<1>3. /\ Types' /\ Clocks' /\ Answers' /\ pc' = "refresh" /\ Began' = now /\ todo' = Sources
      /\ CallTime' = CallTime /\ Work(todo)' = 0
      /\ \A s \in Sources : At(s)' = At(s) /\ (Lost(s)' <=> Lost(s))
  BY <1>1, <1>2, CallStep
<1>4. ASSUME Several
      PROVE  \A s \in Sources : (LastOk(s)' <=> result[s].ok) /\ (LastCurrent(s)' <=> Current(s))
  <2>1. Key = [s \in Sources |-> result[s]]
    BY <1>4 DEF Several, Key
  <2>2. \A s \in Sources : Key[s] = result[s]
    BY <2>1
  <2>3. \A s \in Sources : (LastOk(s)' <=> Key[s].ok) /\ (LastCurrent(s)' <=> Key[s].ok /\ ~Key[s].stale)
    BY <1>1 DEF LastOk, LastCurrent
  <2> QED
    BY <2>2, <2>3 DEF Current
<1>5. ASSUME ~Several, NEW s \in Sources
      PROVE  AgeAlone(s)'
  <2>1. result[s].ok /\ CallTime = latency
    BY <1>1, <1>2, <1>5, SomeOk
  <2>2. At(s) \in Nat /\ now <= At(s) + F + 0
    BY <1>2, <2>1
  <2> QED
    BY <1>3, <2>2 DEF AgeAlone
<1>6. ASSUME Several, NEW s \in Sources, accepted[s] # {}
      PROVE  AgeSeveral(s)'
  <2>1. AgeSeveral(s)
    BY <1>6 DEF IInv
  <2>2. ASSUME Dead
        PROVE  \E q \in Sources : LastCurrent(q)'
    <3>1. PICK q \in Sources : result[q].ok
      BY <1>1, <1>2, SomeOk
    <3>2. Current(q)
      BY <1>1, <2>2, <3>1, DeadOk
    <3> QED
      BY <1>4, <1>6, <3>2
  <2> QED
    BY <1>1, <1>3, <2>1, <2>2 DEF AgeSeveral
<1>7. ASSUME Several, NEW s \in Sources
      PROVE  Again(s)'
  <2>1. LastCurrent(s)' => At(s)' \in Nat /\ now + latency <= At(s)' + CallTime + 0
    BY <1>2, <1>3, <1>4, <1>7
  <2>2. ~LastOk(s)' => Lost(s)'
    BY <1>2, <1>3, <1>4, <1>7
  <2> QED
    BY <1>1, <1>3, <2>1, <2>2 DEF Again
<1> QED
  BY <1>1, <1>3, <1>5, <1>6, <1>7 DEF IInv, Several

\* The poll's answer is the last one's.
LEMMA NoNewsStep ==
    ASSUME IInv, Prompt, PollAnswered, last = {Key}
    PROVE  IInv'
<1>1. /\ pc = "poll" /\ Answered /\ Calling /\ ~Threw /\ Idle /\ ~failed' /\ last' = last
      /\ UNCHANGED <<latency, now, lkg, read, accepted>>
  BY DEF PollAnswered, setup, provVars, gateVars, Calling
<1>2. /\ Types /\ now \in Nat /\ due \in Nat /\ latency \in Nat /\ CallTime \in Nat
      /\ F \in Nat /\ Poll \in Nat /\ None \notin Nat /\ now <= due + CallTime
      /\ \A s \in Sources : ~result[s].ok => Lost(s)
  BY <1>1, CallDone
<1>3. ASSUME ~Several, NEW s \in Sources
      PROVE  AgeAlone(s)'
  BY <1>1, <1>2, <1>3, SomeOk, OkAge
<1>4. ASSUME Several, NEW s \in Sources, accepted[s] # {}
      PROVE  AgeSeveral(s)'
  <2>1. Key = [q \in Sources |-> result[q]]
    BY <1>4 DEF Several, Key
  <2>2. \A q \in Sources : (LastOk(q) <=> result[q].ok) /\ (LastCurrent(q) <=> Current(q))
    <3>1. \A q \in Sources : Key[q] = result[q]
      BY <2>1
    <3>2. \A q \in Sources : (LastOk(q) <=> Key[q].ok) /\ (LastCurrent(q) <=> Key[q].ok /\ ~Key[q].stale)
      BY DEF LastOk, LastCurrent
    <3> QED
      BY <3>1, <3>2 DEF Current
  <2>3. AgeSeveral(s)
    BY <1>4 DEF IInv
  <2>4. ~Dead
    <3>1. PICK q \in Sources : result[q].ok
      BY <1>1, <1>2, SomeOk
    <3> QED
      BY <1>1, <2>2, <3>1, DeadOk DEF Dead
  <2>5. result[s].ok
    <3> SUFFICES ASSUME ~result[s].ok
                 PROVE  FALSE
      OBVIOUS
    <3>1. At(s) \in Nat /\ due + latency <= At(s) + CallTime + Poll
      BY <1>1, <2>2, <2>3, <2>4 DEF AgeSeveral
    <3>2. At(s) + F < now
      BY <1>2, <3>1 DEF Lost
    <3>3. Poll + 2 * CallTime - latency <= F
      BY <1>2, <1>4 DEF Prompt, Several, Types, CallTime
    <3> QED
      BY <1>2, <3>1, <3>2, <3>3
  <2>6. /\ At(s)' = At(s) /\ At(s) \in Nat
        /\ due' + latency' <= At(s)' + F + CallTime' + Poll
    BY <1>1, <2>5, OkAge
  <2>7. LastOk(s)'
    BY <1>1, <2>2, <2>5 DEF LastOk
  <2> QED
    BY <2>6, <2>7 DEF AgeSeveral
<1>5. DOMAIN accepted' = Sources
  BY <1>1, <1>2 DEF Types
<1> QED
  BY <1>1, <1>3, <1>4, <1>5, Pause

\* The refresh after a poll throws: every source is lost.
LEMMA RefreshThrewStep ==
    ASSUME IInv, Prompt, RefreshDone, Threw
    PROVE  IInv'
<1>1. /\ pc = "refresh" /\ Answered /\ Calling /\ Idle /\ ~failed /\ failed' = failed
      /\ UNCHANGED <<latency, now, lkg, read, accepted, last>>
  BY DEF RefreshDone, setup, provVars, gateVars, Calling, IInv
<1>2. /\ Types /\ Began = now /\ todo = {} /\ Work({}) = CallTime
      /\ now \in Nat /\ due \in Nat /\ latency \in Nat /\ CallTime \in Nat
      /\ F \in Nat /\ Poll \in Nat /\ None \notin Nat /\ now <= due + CallTime + CallTime
      /\ \A s \in Sources : ~result[s].ok /\ Lost(s)
  BY <1>1, CallDone DEF Threw
<1>3. /\ pc' = "idle" /\ due' = now + Poll /\ CallTime' = CallTime
      /\ \A s \in Sources : At(s)' = At(s) /\ (LastCurrent(s)' <=> LastCurrent(s))
  BY <1>1, Primes DEF Idle, At, LastCurrent
<1>4. ASSUME ~Several, NEW s \in Sources, accepted[s] # {}
      PROVE  AgeAlone(s)'
  <2>1. At(s) \in Nat /\ now <= At(s) + F + CallTime
    BY <1>1, <1>2, <1>4 DEF IInv, AgeAlone
  <2> QED
    BY <1>2, <1>3, <2>1 DEF AgeAlone
<1>5. ASSUME Several
      PROVE  \A q \in Sources : ~LastCurrent(q)
  <2> SUFFICES ASSUME NEW q \in Sources, LastCurrent(q)
               PROVE  FALSE
    OBVIOUS
  <2>1. At(q) \in Nat /\ now + latency <= At(q) + CallTime + CallTime
    BY <1>1, <1>2, <1>5 DEF IInv, Again
  <2>2. At(q) + F < now
    BY <1>2, <2>1 DEF Lost
  <2>3. Poll + 2 * CallTime - latency <= F
    BY <1>2, <1>5 DEF Prompt, Several, Types, CallTime
  <2> QED
    BY <1>2, <2>1, <2>2, <2>3
<1>6. Several => Dead'
  BY <1>2, <1>3, <1>5 DEF Dead, Lost
<1>7. ASSUME Several, NEW s \in Sources, accepted[s] # {}
      PROVE  AgeSeveral(s)'
  <2>1. At(s) \in Nat /\ due + latency <= At(s) + F + CallTime + Poll
    BY <1>1, <1>5, <1>7 DEF IInv, AgeSeveral
  <2>2. due' + latency' <= At(s)' + F + 3 * CallTime' + 2 * Poll
    BY <1>1, <1>2, <1>3, <2>1
  <2> QED
    BY <1>3, <1>6, <1>7, <2>1, <2>2 DEF AgeSeveral
<1>8. DOMAIN accepted' = Sources
  BY <1>1, <1>2 DEF Types
<1> QED
  BY <1>1, <1>4, <1>7, <1>8, Pause

-----------------------------------------------------------------------------
(* The theorems.                                                           *)

LEMMA InitInv == Init => IInv
<1> SUFFICES ASSUME Init
             PROVE  IInv
  OBVIOUS
<1>1. /\ latency \in Latencies /\ now = 0 /\ due = 0 /\ pc = "start" /\ todo = Sources /\ read = NoRead
      /\ lkg = [s \in Sources |-> [at |-> None, first |-> NoRoot]]
      /\ result = [s \in Sources |-> NoResult]
      /\ accepted = [s \in Sources |-> {}] /\ last = {} /\ failed = FALSE
  BY DEF Init
<1>2. Types
  BY <1>1 DEF Types, Calling, At, NoResult, Reading
<1>3. latency \in Nat /\ Work(todo) \in Nat
  BY <1>1, <1>2, Constants, Works
<1>4. Began = 0
  BY <1>1 DEF Began, Reading
<1>5. Clocks
  BY <1>1, <1>3, <1>4 DEF Clocks
<1>6. Answers
  BY <1>1 DEF Answers, Answer, Current, NoResult
<1> QED
  BY <1>1, <1>2, <1>5, <1>6 DEF IInv

LEMMA StartStep ==
    ASSUME IInv, StartDone
    PROVE  IInv'
<1>1. /\ pc = "start" /\ Answered /\ Calling /\ UNCHANGED <<latency, now, lkg, read, last, failed>>
  BY DEF StartDone, setup, provVars, Calling
<1>2. CASE Take /\ Idle
  BY <1>1, <1>2, TakeStep
<1>3. CASE Drop /\ Idle
  <2>1. DOMAIN accepted' = Sources /\ \A s \in Sources : accepted'[s] = {}
    BY <1>3 DEF Drop
  <2> QED
    BY <1>1, <1>3, <2>1, DropStep
<1>4. CASE pc' = "exit" /\ UNCHANGED <<todo, result, due, gateVars>>
  <2>1. accepted' = accepted /\ todo' = todo /\ result' = result /\ due' = due
    BY <1>4 DEF gateVars
  <2>2. Types /\ Clocks /\ todo = {} /\ ~Reading /\ ~Reading'
    BY <1>1 DEF IInv, Answered, Reading
  <2>3. Types'
    BY <1>1, <1>4, <2>1, <2>2 DEF Types, Calling, At
  <2>4. Clocks' /\ Answers'
    BY <1>1, <1>4, <2>2 DEF Clocks, Began, Answers, Calling
  <2> QED
    BY <1>1, <1>4, <2>1, <2>3, <2>4 DEF IInv
<1> QED
  BY <1>2, <1>3, <1>4 DEF StartDone

LEMMA NextInv ==
    ASSUME Prompt, IInv, [Next]_vars
    PROVE  IInv'
<1>0. now \in Nat /\ latency \in Nat
  BY Constants DEF IInv, Types
<1>1. CASE (\E s \in Sources : Join(s) \/ \E i \in live[s] : Leave(s, i)) \/ UNCHANGED vars
  <2>1. now' = now /\ UNCHANGED <<gateway, read>>
    BY <1>1 DEF Join, Leave, ChainChange, vars, gateway, setup, provVars, callVars, pollVars, gateVars
  <2> QED
    BY <1>0, <2>1, QuietStep
<1>2. CASE Tick
  <2>1. now' = now + 1 /\ UNCHANGED <<gateway, read>>
    BY <1>2 DEF Tick, gateway, setup, provVars, callVars, pollVars, gateVars
  <2>2. now' \in Nat /\ now' >= now
    BY <1>0, <2>1
  <2>3. due \in Nat /\ (Reading => read.at \in Nat)
    BY DEF IInv, Types
  <2>4. (pc = "idle" /\ now' <= due) \/ (Reading /\ now' <= read.at + latency)
    BY <1>0, <1>2, <2>1, <2>3 DEF Tick
  <2> QED
    BY <2>1, <2>2, <2>4, QuietStep
<1>3. CASE (\E s \in Sources : ReadBegin(s)) \/ ReadHead
  BY <1>3, ReadingStep
<1>4. CASE ReadOk \/ ReadFails
  BY <1>4, ReadDoneStep
<1>5. CASE StartDone
  BY <1>5, StartStep
<1>6. CASE PollTimer
  BY <1>6, PollTimerStep
<1>7. CASE PollThrew
  BY <1>7, PollThrewStep
<1>8. CASE PollAnswered
  BY <1>8, NewsStep, NoNewsStep
<1>9. CASE RefreshDone
  <2>1. CASE Threw
    BY <1>9, <2>1, RefreshThrewStep
  <2>2. CASE ~Threw
    <3>1. /\ pc = "refresh" /\ Answered /\ Take /\ Idle
          /\ UNCHANGED <<latency, now, lkg, read, last, failed>>
      BY <1>9, <2>2 DEF RefreshDone, setup, provVars
    <3> QED
      BY <3>1, TakeStep
  <2> QED
    BY <2>1, <2>2
<1> QED
  BY <1>1, <1>2, <1>3, <1>4, <1>5, <1>6, <1>7, <1>8, <1>9 DEF Next

\* The strengthened invariant: the clocks of calls, the age of their answers,
\* and the age of what the gateway accepts.
THEOREM InvariantHolds ==
    ASSUME Prompt
    PROVE  Spec => []IInv
<1>1. IInv /\ [Next]_vars => IInv'
  BY NextInv
<1> QED
  BY <1>1, InitInv, PTL DEF Spec

\* The bound, from the invariant.
LEMMA AgeBound == IInv => FailsClosed
<1> SUFFICES ASSUME IInv, NEW s \in Sources, accepted[s] # {}
             PROVE  now - lkg[s].at <= ServedBound
  BY DEF FailsClosed
<1>1. /\ Types /\ Clocks /\ F \in Nat /\ Poll \in Nat /\ latency \in Nat /\ CallTime \in Nat
      /\ now \in Nat /\ due \in Nat
  BY Constants DEF IInv, Types
<1>2. pc = "idle" \/ pc = "poll" \/ pc = "refresh"
  BY DEF IInv, Types
<1>3. Work(todo) \in Nat /\ Work(todo) <= CallTime
  BY <1>1, Works DEF Types
\* A read in progress leaves room for itself.
<1>4. Began \in Nat /\ now + Work(todo) <= Began + CallTime
  <2>1. CASE Reading
    <3>1. Work(todo) + latency <= CallTime /\ Began \in Nat
      BY <1>1, <2>1, Works DEF Types, Began
    <3>2. now <= Began + latency
      BY <1>1 DEF Clocks
    <3> QED
      BY <1>1, <1>3, <3>1, <3>2
  <2>2. CASE ~Reading
    BY <1>1, <1>3, <2>2 DEF Began
  <2> QED
    BY <2>1, <2>2
<1>5. /\ pc = "idle" => now <= due
      /\ pc = "poll" => now <= due + CallTime
      /\ pc = "refresh" => now <= due + CallTime + CallTime
  BY <1>1, <1>3, <1>4 DEF Clocks
<1>6. CASE ~Several
  <2>1. AgeAlone(s)
    BY <1>6 DEF IInv
  <2>2. At(s) \in Nat /\ now <= At(s) + F + Poll + 2 * CallTime
    BY <1>1, <1>2, <1>3, <1>4, <1>5, <2>1 DEF AgeAlone
  <2> QED
    BY <1>1, <1>6, <2>2 DEF At, Several, ServedBound
<1>7. CASE Several
  <2>1. AgeSeveral(s)
    BY <1>7 DEF IInv
  <2>2. At(s) \in Nat /\ due <= At(s) + F + 3 * CallTime + 2 * Poll
    BY <1>1, <2>1 DEF AgeSeveral
  <2>3. now <= At(s) + F + 2 * Poll + 5 * CallTime
    BY <1>1, <1>2, <1>5, <2>2
  <2> QED
    BY <1>1, <1>7, <2>2, <2>3 DEF At, Several, ServedBound
<1> QED
  BY <1>6, <1>7

\* A gateway never accepts a root of a contract it has not been able to read for
\* longer than the freshness window and the polls that notice: for any number of
\* contracts, any window and poll interval, reads of any duration that fail at
\* any step, and polls and refreshes that throw in any order.
THEOREM ClosedWhenUnread ==
    ASSUME Prompt
    PROVE  Spec => []FailsClosed
BY InvariantHolds, AgeBound, PTL
=============================================================================
