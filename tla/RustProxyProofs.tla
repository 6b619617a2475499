--------------------------- MODULE RustProxyProofs ---------------------------
(***************************************************************************)
(* Proofs about RustProxy for every number of agents, threads and gateways.*)
(*                                                                         *)
(* The files are read, emptied and written by all threads at any time, so  *)
(* nothing relates a thread's copies to them but what is monotonic: the    *)
(* cursor only moves on, past every proof made or under way (Ahead), and a *)
(* gateway's failures only grow, past every copy of the health file        *)
(* (Behind).  An agent is in one place (OnePlace), which is where its      *)
(* answer comes from (Answered).                                           *)
(***************************************************************************)
EXTENDS RustProxy, FiniteSetTheorems, TLAPS

Counts == [Gateways -> 0..Threshold]

\* What a thread is at, by the locals it still needs.
Waiting == [at : {"request", "plan", "accepted", "relay"}, agent : Agents]

Caching == [at : {"directory", "write"}, agent : Agents, dir : Nat]

Planned == [at : {"members"}, agent : Agents, health : Counts, left : Seq(Gateways), epoch : Nat]

Proving == [at : {"prove"}, agent : Agents, health : Counts, left : Seq(Gateways),
            epoch : Nat, slot : Nat]

Dialing == [at : {"dial", "save", "saving"}, agent : Agents, health : Counts,
            left : Seq(Gateways)]

States == {Idle} \cup Waiting \cup Caching \cup Planned \cup Proving \cup Dialing

Types ==
    /\ clock \in Nat /\ cache \in Nat /\ crashes \in Nat
    /\ health \in Counts /\ failed \in Counts
    /\ cursor \in [epoch : Nat, next : Nat]
    /\ queue \in Seq(Agents) /\ closed \in SUBSET Agents
    /\ replies \in [Agents -> Seq({200, 204, 502, 503})]
    /\ work \in [Workers -> States]
    /\ offered \in SUBSET (Nat \X Nat \X (Agents \cup {"before"}))

\* The cursor is past slot s of epoch e.
Past(e, s) == e < cursor.epoch \/ (e = cursor.epoch /\ s < cursor.next)

\* Proofs made and under way are all different, and behind the cursor.
Ahead ==
    /\ \A p \in offered : Past(p[1], p[2])
    /\ \A w \in Workers : work[w].at = "prove" =>
          /\ Past(work[w].epoch, work[w].slot)
          /\ \A p \in offered : ~(p[1] = work[w].epoch /\ p[2] = work[w].slot)
    /\ \A v, w \in Workers : work[v].at = "prove" /\ work[w].at = "prove" /\ v # w =>
          ~(work[v].epoch = work[w].epoch /\ work[v].slot = work[w].slot)
    /\ ProofsDistinct

Copied == {"members", "prove", "dial", "save", "saving"}

Behind ==
    /\ \A g \in Gateways : health[g] <= failed[g]
    /\ \A w \in Workers : work[w].at \in Copied =>
          \A g \in Gateways : work[w].health[g] <= failed[g]

\* There is a gateway left to dial.
Candidates ==
    \A w \in Workers : work[w].at \in {"members", "prove", "dial"} => work[w].left # << >>

OnePlace ==
    /\ \A i, j \in 1..Len(queue) : queue[i] = queue[j] => i = j
    /\ \A v, w \in Workers :
          work[v] # Idle /\ work[w] # Idle /\ work[v].agent = work[w].agent => v = w
    /\ \A i \in 1..Len(queue) :
          /\ queue[i] \notin closed
          /\ \A w \in Workers : work[w] # Idle => work[w].agent # queue[i]
    /\ \A w \in Workers : work[w] # Idle => work[w].agent \notin closed

\* A gateway accepted a proof, or is about to be asked to.
Offering(r) ==
    r.at \in {"dial", "accepted", "relay"} \/ (r.at \in {"save", "saving"} /\ r.left # << >>)

HasProof(a, proofs) == \E p \in proofs : p[3] = a

Answered ==
    /\ \A w \in Workers : Offering(work[w]) => HasProof(work[w].agent, offered)
    /\ \A a \in Agents :
          /\ Len(replies[a]) <= 1
          /\ replies[a] = <<200>> => HasProof(a, offered)
          /\ replies[a] # << >> => a \in closed \/ \E w \in Workers :
                                      work[w].at = "relay" /\ work[w].agent = a

IInv == Types /\ Ahead /\ Behind /\ Candidates /\ OnePlace /\ Answered

-----------------------------------------------------------------------------
(* Types.                                                                  *)

\* The locals a thread has follow from what it is at.
LEMMA Locals ==
    ASSUME Types, NEW w \in Workers
    PROVE  /\ work[w].at \in {"request", "plan", "accepted", "relay"} => work[w] \in Waiting
           /\ work[w].at \in {"directory", "write"} => work[w] \in Caching
           /\ work[w].at = "members" => work[w] \in Planned
           /\ work[w].at = "prove" => work[w] \in Proving
           /\ work[w].at \in {"dial", "save", "saving"} => work[w] \in Dialing
           /\ work[w].at = "idle" <=> work[w] = Idle
           /\ work[w] # Idle => work[w].agent \in Agents
BY DEF Types, States, Waiting, Caching, Planned, Proving, Dialing, Idle

\* What is assumed of the constants.
LEMMA Constants ==
    ASSUME ProxyConstants
    PROVE  /\ IsFiniteSet(Gateways) /\ Gateways # {}
           /\ Slots \in Nat /\ LastEpoch \in Nat /\ MaxIssued \in Nat
BY DEF ProxyConstants

-----------------------------------------------------------------------------
(* The steps of a thread.                                                  *)

\* What any step of thread w leaves: it has the record r, the agent is still its
\* own or closed, and nothing is taken back.
After(w, r) ==
    /\ r \in States /\ work' = [work EXCEPT ![w] = r]
    /\ IF r = Idle THEN closed' = closed \cup {work[w].agent}
                   ELSE closed' = closed /\ r.agent = work[w].agent
    /\ UNCHANGED <<clock, queue, crashes>>
    /\ r.at \in {"members", "prove", "dial"} => r.left # << >>

Answering(w, r) ==
    /\ \/ replies' = replies /\ work[w].at # "relay"
       \/ r = Idle /\ work[w].at = "relay" /\ replies' = replies
       \/ r = Idle /\ work[w].at # "relay" /\ \E status \in {204, 502} : Send(w, status)
       \/ r.at = "relay" /\ work[w].at = "accepted" /\ Send(w, 200)
    /\ offered \subseteq offered'
    /\ Offering(r) => Offering(work[w]) \/ \E p \in offered' : p[3] = r.agent

Earning(r) ==
    /\ health' \in Counts /\ failed' \in Counts
    /\ \A g \in Gateways : health'[g] <= failed'[g] /\ failed[g] <= failed'[g]
    /\ r.at \in Copied => \A g \in Gateways : r.health[g] <= failed'[g]

\* What a thread leaves in the health file: nothing, or its copy.
HealthWritten(w) ==
    \/ health' = health \/ health' = Unknown
    \/ work[w].at = "saving" /\ health' = work[w].health

\* The health file stays behind the failures, whatever a thread writes.
LEMMA HealthBehind ==
    ASSUME IInv, NEW w \in Workers, HealthWritten(w), UNCHANGED failed
    PROVE  /\ health' \in Counts /\ failed' \in Counts
           /\ \A g \in Gateways : health'[g] <= failed'[g] /\ failed[g] <= failed'[g]
<1>1. work[w].at = "saving" => work[w].health \in Counts
  BY Locals DEF IInv, Dialing
<1>2. health \in Counts /\ failed \in Counts /\ Unknown \in Counts
  BY DEF IInv, Types, Unknown, Counts, Threshold
<1>3. health' \in Counts /\ failed' \in Counts
  BY <1>1, <1>2 DEF HealthWritten
<1>4. \A g \in Gateways : failed[g] \in Nat /\ Unknown[g] = 0
  BY <1>2 DEF Counts, Threshold, Unknown
<1>5. \A g \in Gateways : health'[g] <= failed[g]
  BY <1>4 DEF HealthWritten, IInv, Behind, Copied
<1> QED
  BY <1>3, <1>4, <1>5

\* The thread is free again.
LEMMA FinishAfter ==
    ASSUME IInv, NEW w \in Workers, work[w] # Idle, Finish(w),
           UNCHANGED <<clock, queue, crashes, cursor, offered, failed>>,
           HealthWritten(w),
           IF work[w].at = "relay" THEN UNCHANGED replies
           ELSE replies' = replies \/ \E status \in {204, 502} : Send(w, status)
    PROVE  After(w, Idle) /\ Answering(w, Idle) /\ Earning(Idle)
<1>1. Idle \in States /\ Idle.at = "idle"
  BY DEF States, Idle
<1>2. After(w, Idle)
  BY <1>1 DEF After, Finish
<1>3. Answering(w, Idle)
  BY <1>1 DEF Answering, Offering
<1>4. Earning(Idle)
  BY <1>1, HealthBehind DEF Earning, Copied
<1> QED
  BY <1>2, <1>3, <1>4

\* A record that is neither idle nor one of the copies.
LEMMA WaitingAfter ==
    ASSUME IInv, NEW w \in Workers, work[w] # Idle, NEW r \in Waiting \cup Caching,
           r.agent = work[w].agent, work' = [work EXCEPT ![w] = r],
           UNCHANGED <<clock, queue, crashes, cursor, offered, failed, closed>>,
           HealthWritten(w),
           Offering(r) => Offering(work[w]),
           work[w].at # "relay" /\ replies' = replies
    PROVE  After(w, r) /\ Answering(w, r) /\ Earning(r)
<1>1. r \in States /\ r.at \notin Copied /\ r # Idle
  BY DEF States, Idle, Waiting, Caching, Copied
<1>2. After(w, r)
  BY <1>1 DEF After, Copied
<1>3. Answering(w, r)
  BY DEF Answering
<1>4. Earning(r)
  BY <1>1, HealthBehind DEF Earning, Copied
<1> QED
  BY <1>2, <1>3, <1>4

\* A record with a copy of the health file that is behind the failures.
LEMMA CopyAfter ==
    ASSUME IInv, NEW w \in Workers, work[w] # Idle, NEW r \in Planned \cup Proving \cup Dialing,
           r.agent = work[w].agent, work' = [work EXCEPT ![w] = r],
           UNCHANGED <<clock, queue, crashes, closed, replies, failed>>, HealthWritten(w),
           \A g \in Gateways : r.health[g] <= failed[g],
           r.at \in {"members", "prove", "dial"} => r.left # << >>,
           offered \subseteq offered',
           Offering(r) => Offering(work[w]) \/ \E p \in offered' : p[3] = r.agent,
           work[w].at # "relay"
    PROVE  After(w, r) /\ Answering(w, r) /\ Earning(r)
<1>1. r \in States /\ r # Idle
  BY DEF States, Idle, Planned, Proving, Dialing
<1>2. After(w, r)
  BY <1>1 DEF After
<1>3. Answering(w, r)
  BY DEF Answering
<1>4. Earning(r)
  BY HealthBehind DEF Earning
<1> QED
  BY <1>2, <1>3, <1>4

\* The steps before a plan is made.
LEMMA DirectorySteps ==
    ASSUME IInv, NEW w \in Workers, work[w] # Idle,
           \/ RequestOnly(w) \/ OpenCache(w) \/ WriteCache(w) \/ SetupFails(w)
           \/ \E fresh \in Fetched : Resolve(w, fresh)
    PROVE  \E r : After(w, r) /\ Answering(w, r) /\ Earning(r) /\ r.at # "prove"
<1>0. Types
  BY DEF IInv
<1>1. CASE RequestOnly(w) \/ SetupFails(w)
  BY <1>1, FinishAfter DEF RequestOnly, SetupFails, Fail, files, HealthWritten, Idle
<1>2. CASE OpenCache(w)
  <2> DEFINE r == [at |-> "write", agent |-> work[w].agent, dir |-> work[w].dir]
  <2>1. work[w] \in Caching /\ work[w].at = "directory"
    BY <1>0, <1>2, Locals DEF OpenCache
  <2>2. r = [work[w] EXCEPT !.at = "write"] /\ r \in Caching
    BY <2>1 DEF Caching
  <2>3. work' = [work EXCEPT ![w] = r]
    BY <1>2, <2>2 DEF OpenCache
  <2>4. ~Offering(r) /\ r.agent = work[w].agent
    BY DEF Offering
  <2> QED
    BY <1>2, <2>1, <2>2, <2>3, <2>4, WaitingAfter DEF OpenCache, HealthWritten
<1>3. CASE WriteCache(w)
  <2> DEFINE r == [at |-> "plan", agent |-> work[w].agent]
  <2>1. work[w].agent \in Agents /\ work[w].at = "write"
    BY <1>0, <1>3, Locals DEF WriteCache
  <2>2. r \in Waiting /\ work' = [work EXCEPT ![w] = r]
    BY <1>3, <2>1 DEF Waiting, WriteCache
  <2>3. ~Offering(r) /\ r.agent = work[w].agent
    BY DEF Offering
  <2> QED
    BY <1>3, <2>1, <2>2, <2>3, WaitingAfter DEF WriteCache, HealthWritten
<1>4. ASSUME NEW fresh \in Fetched, Resolve(w, fresh)
      PROVE  \E r : After(w, r) /\ Answering(w, r) /\ Earning(r) /\ r.at # "prove"
  <2>1. work[w].agent \in Agents /\ work[w].at = "request"
    BY <1>0, <1>4, Locals DEF Resolve
  <2>2. CASE Fail(w)
    BY <1>4, <2>1, <2>2, FinishAfter DEF Fail, Resolve, files, HealthWritten, Idle
  <2>3. CASE work' = [work EXCEPT ![w] = [at |-> "plan", agent |-> @.agent]] /\ UNCHANGED <<replies, closed>>
    <3> DEFINE r == [at |-> "plan", agent |-> work[w].agent]
    <3>1. r \in Waiting /\ ~Offering(r) /\ r.agent = work[w].agent
      BY <2>1 DEF Waiting, Offering
    <3>2. work' = [work EXCEPT ![w] = r]
      BY <2>3
    <3> QED
      BY <1>4, <2>1, <2>3, <3>1, <3>2, WaitingAfter DEF Resolve, files, HealthWritten
  <2>4. CASE /\ fresh > 0
             /\ work' = [work EXCEPT ![w] = [at |-> "directory", agent |-> @.agent, dir |-> fresh]]
             /\ UNCHANGED <<replies, closed>>
    <3> DEFINE r == [at |-> "directory", agent |-> work[w].agent, dir |-> fresh]
    <3>1. fresh \in Nat
      BY DEF Fetched
    <3>2. r \in Caching /\ ~Offering(r) /\ r.agent = work[w].agent
      BY <2>1, <3>1 DEF Caching, Offering
    <3>3. work' = [work EXCEPT ![w] = r]
      BY <2>4
    <3> QED
      BY <1>4, <2>1, <2>4, <3>2, <3>3, WaitingAfter DEF Resolve, files, HealthWritten
  <2> QED
    BY <1>4, <2>2, <2>3, <2>4 DEF Resolve
<1> QED
  BY <1>1, <1>2, <1>3, <1>4

\* The plan: a copy of the health file, and an order of the gateways.
LEMMA PlanStep ==
    ASSUME ProxyConstants, IInv, NEW w \in Workers, work[w] # Idle, Plan(w)
    PROVE  \E r : After(w, r) /\ Answering(w, r) /\ Earning(r) /\ r.at # "prove"
<1>1. Types /\ work[w].agent \in Agents /\ work[w].at = "plan"
  BY Locals DEF IInv, Plan
<1> DEFINE Made(h, order) ==
             work' = [work EXCEPT ![w] = [at |-> "members", agent |-> @.agent, health |-> h,
                                          left |-> order, epoch |-> clock]]
<1>2a. PICK decayed \in SUBSET Gateways :
          \E order \in OrdersFor(Seeded(health, decayed)) : Made(Seeded(health, decayed), order)
  BY DEF Plan
<1>2. PICK order \in OrdersFor(Seeded(health, decayed)) : Made(Seeded(health, decayed), order)
  BY <1>2a
<1> DEFINE r == [at |-> "members", agent |-> work[w].agent, health |-> Seeded(health, decayed),
                 left |-> order, epoch |-> clock]
<1>3. Seeded(health, decayed) \in Counts
      /\ \A g \in Gateways : Seeded(health, decayed)[g] <= failed[g]
  <2>1. health \in Counts /\ failed \in Counts /\ \A g \in Gateways : health[g] <= failed[g]
    BY DEF IInv, Types, Behind
  <2>2. \A g \in Gateways : health[g] \in 0..Threshold /\ failed[g] \in 0..Threshold
    BY <2>1 DEF Counts
  <2> QED
    BY <2>1, <2>2 DEF Seeded, Counts, Threshold
<1>4. order \in Seq(Gateways) /\ order # << >>
  <2>1. Cardinality(Gateways) \in Nat \ {0}
    BY FS_CardinalityType, FS_EmptySet DEF ProxyConstants
  <2>2. order \in [1..Cardinality(Gateways) -> Gateways]
    BY DEF OrdersFor
  <2> QED
    BY <2>1, <2>2
<1>5. r \in Planned /\ r.agent = work[w].agent /\ ~Offering(r)
  BY <1>1, <1>3, <1>4 DEF Planned, Types, Offering
<1>6. After(w, r) /\ Answering(w, r) /\ Earning(r)
  BY <1>1, <1>2, <1>3, <1>4, <1>5, CopyAfter DEF Plan, files, HealthWritten
<1> QED
  BY <1>6

\* The locals of a thread that has a copy of the health file.
LEMMA CopyLocals ==
    ASSUME IInv, NEW w \in Workers, work[w].at \in Copied
    PROVE  /\ work[w].agent \in Agents /\ work[w].health \in Counts
           /\ work[w].left \in Seq(Gateways)
           /\ \A g \in Gateways : work[w].health[g] <= failed[g]
BY Locals DEF IInv, Behind, Copied, Planned, Proving, Dialing

\* The proof of a slot allocated before.
LEMMA ProveStep ==
    ASSUME IInv, NEW w \in Workers, work[w] # Idle, Prove(w)
    PROVE  \E r : After(w, r) /\ Answering(w, r) /\ Earning(r) /\ r.at # "prove"
<1> DEFINE r == [at |-> "dial", agent |-> work[w].agent, left |-> work[w].left,
                 health |-> work[w].health]
<1>1. work[w].at = "prove" /\ work[w].left # << >>
  BY DEF Prove, IInv, Candidates
<1>2. r \in Dialing /\ \A g \in Gateways : r.health[g] <= failed[g]
  BY <1>1, CopyLocals DEF Dialing, Copied
<1>3. offered \subseteq offered' /\ \E p \in offered' : p[3] = r.agent
  <2> DEFINE p == <<work[w].epoch, work[w].slot, work[w].agent>>
  <2>1. offered' = offered \cup {p}
    BY DEF Prove
  <2>2. p \in offered' /\ p[3] = r.agent
    BY <2>1
  <2> QED
    BY <2>1, <2>2
<1>4. work' = [work EXCEPT ![w] = r] /\ r.agent = work[w].agent
  BY DEF Prove
<1>5. After(w, r) /\ Answering(w, r) /\ Earning(r)
  BY <1>1, <1>2, <1>3, <1>4, CopyAfter DEF Prove, files, HealthWritten
<1> QED
  BY <1>5

\* A slot is allocated.
LEMMA AllocateStep ==
    ASSUME IInv, NEW w \in Workers, work[w] # Idle, Allocate(w)
    PROVE  LET r == [at |-> "prove", agent |-> work[w].agent, health |-> work[w].health,
                     left |-> work[w].left, epoch |-> work[w].epoch,
                     slot |-> NextSlot(work[w].epoch)]
           IN  After(w, r) /\ Answering(w, r) /\ Earning(r)
<1> DEFINE r == [at |-> "prove", agent |-> work[w].agent, health |-> work[w].health,
                 left |-> work[w].left, epoch |-> work[w].epoch,
                 slot |-> NextSlot(work[w].epoch)]
<1>1. work[w].at = "members" /\ work[w].left # << >> /\ work[w].epoch \in Nat
  BY Locals DEF Allocate, IInv, Candidates, Planned
<1>2. NextSlot(work[w].epoch) \in Nat
  BY DEF IInv, Types, NextSlot
<1>3. r \in Proving /\ \A g \in Gateways : r.health[g] <= failed[g]
  BY <1>1, <1>2, CopyLocals DEF Proving, Copied
<1>4. work' = [work EXCEPT ![w] = r] /\ r.agent = work[w].agent /\ ~Offering(r)
  BY DEF Allocate, Offering
<1> QED
  BY <1>1, <1>3, <1>4, CopyAfter DEF Allocate, HealthWritten

\* No slot, or no proof.
LEMMA NoProofStep ==
    ASSUME IInv, NEW w \in Workers, work[w] # Idle, NoProof(w)
    PROVE  \E r : After(w, r) /\ Answering(w, r) /\ Earning(r) /\ r.at # "prove"
<1> DEFINE r == [at |-> "save", agent |-> work[w].agent, health |-> work[w].health,
                 left |-> << >>]
<1>1. work[w].at \in {"members", "prove"}
  BY DEF NoProof
<1>2. r \in Dialing /\ \A g \in Gateways : r.health[g] <= failed[g]
  BY <1>1, CopyLocals DEF Dialing, Copied
<1>3. work' = [work EXCEPT ![w] = r] /\ r.agent = work[w].agent /\ ~Offering(r)
  BY DEF NoProof, Offering
<1>4. After(w, r) /\ Answering(w, r) /\ Earning(r)
  BY <1>1, <1>2, <1>3, CopyAfter DEF NoProof, files, HealthWritten
<1> QED
  BY <1>4

\* A dial fails: the copy and the history count it alike.
LEMMA DialFailsStep ==
    ASSUME IInv, NEW w \in Workers, work[w] # Idle, DialFails(w)
    PROVE  \E r : After(w, r) /\ Answering(w, r) /\ Earning(r) /\ r.at # "prove"
<1> DEFINE g == work[w].left[1]
           h == work[w].health
           rest == Tail(work[w].left)
           r == [at |-> IF rest = << >> THEN "save" ELSE "dial", agent |-> work[w].agent,
                 left |-> rest, health |-> Updated(h, g, FALSE)]
<1>1. work[w].at = "dial" /\ work[w].left # << >>
  BY DEF DialFails, IInv, Candidates
<1>2. /\ work[w] \in Dialing /\ h \in Counts /\ rest \in Seq(Gateways) /\ g \in Gateways
      /\ \A f \in Gateways : h[f] <= failed[f]
      /\ failed \in Counts
  BY <1>1, Locals, CopyLocals DEF Copied, IInv, Types
<1>3. Updated(h, g, FALSE) \in Counts /\ failed' \in Counts
      /\ \A f \in Gateways : /\ Updated(h, g, FALSE)[f] <= failed'[f]
                             /\ failed[f] <= failed'[f]
  BY <1>2 DEF DialFails, Updated, Counts, Threshold
<1>4. r \in Dialing /\ work' = [work EXCEPT ![w] = r]
  BY <1>2, <1>3 DEF Dialing, DialFails
<1>5. r \in States /\ r # Idle /\ r.at \in {"dial", "save"} /\ r.agent = work[w].agent
  BY <1>4 DEF States, Idle
<1>6. After(w, r)
  BY <1>4, <1>5 DEF After, DialFails
<1>7. Answering(w, r)
  BY <1>1, <1>5 DEF Answering, Offering, DialFails
<1>8. Earning(r)
  <2>1. \A f \in Gateways : health[f] <= failed[f] /\ health[f] \in Nat /\ failed[f] \in Nat /\ failed'[f] \in Nat
    <3>1. health \in Counts /\ failed \in Counts /\ \A f \in Gateways : health[f] <= failed[f]
      BY DEF IInv, Types, Behind
    <3> QED
      BY <1>3, <3>1 DEF Counts, Threshold
  <2>2. \A f \in Gateways : health'[f] <= failed'[f]
    BY <1>3, <2>1 DEF DialFails, files
  <2> QED
    BY <1>3, <2>2 DEF Earning, IInv, Types, DialFails, files
<1> QED
  BY <1>5, <1>6, <1>7, <1>8

\* A gateway answers: the copy forgets its failures.
LEMMA AnswersStep ==
    ASSUME IInv, NEW w \in Workers, work[w] # Idle, NEW ok \in BOOLEAN, Answers(w, ok)
    PROVE  \E r : After(w, r) /\ Answering(w, r) /\ Earning(r) /\ r.at # "prove"
<1> DEFINE g == work[w].left[1]
           h == work[w].health
           kept == IF ok THEN <<g>> ELSE << >>
           r == [at |-> "save", agent |-> work[w].agent, left |-> kept,
                 health |-> Updated(h, g, TRUE)]
<1>1. work[w].at = "dial" /\ work[w].left # << >>
  BY DEF Answers, IInv, Candidates
<1>2. /\ h \in Counts /\ g \in Gateways /\ work[w].agent \in Agents
      /\ \A f \in Gateways : h[f] <= failed[f]
      /\ failed \in Counts
  BY <1>1, CopyLocals DEF Copied, IInv, Types
<1>3. Updated(h, g, TRUE) \in Counts /\ \A f \in Gateways : Updated(h, g, TRUE)[f] <= failed[f]
  BY <1>2 DEF Updated, Counts, Threshold
<1>4. kept \in Seq(Gateways)
  BY <1>2
<1>5. r \in Dialing /\ r.agent = work[w].agent
  BY <1>2, <1>3, <1>4 DEF Dialing
<1>6. work' = [work EXCEPT ![w] = r]
  BY DEF Answers
<1>7. After(w, r) /\ Answering(w, r) /\ Earning(r)
  BY <1>1, <1>3, <1>5, <1>6, CopyAfter DEF Answers, files, HealthWritten, Offering
<1> QED
  BY <1>7

\* The health file is emptied.
LEMMA OpenHealthStep ==
    ASSUME IInv, NEW w \in Workers, work[w] # Idle, OpenHealth(w)
    PROVE  \E r : After(w, r) /\ Answering(w, r) /\ Earning(r) /\ r.at # "prove"
<1> DEFINE r == [at |-> "saving", agent |-> work[w].agent, health |-> work[w].health,
                 left |-> work[w].left]
<1>1. work[w].at = "save" /\ work[w] \in Dialing
  BY Locals DEF OpenHealth, IInv
<1>2. r = [work[w] EXCEPT !.at = "saving"] /\ r \in Dialing
  BY <1>1 DEF Dialing
<1>3. work' = [work EXCEPT ![w] = r] /\ r.agent = work[w].agent
  BY <1>2 DEF OpenHealth
<1>4. \A g \in Gateways : r.health[g] <= failed[g]
  BY <1>1, CopyLocals DEF Copied
<1>5. Offering(r) => Offering(work[w])
  BY <1>1 DEF Offering
<1>6. After(w, r) /\ Answering(w, r) /\ Earning(r)
  BY <1>1, <1>2, <1>3, <1>4, <1>5, CopyAfter DEF OpenHealth, HealthWritten
<1> QED
  BY <1>6

\* The health file is filled, and the request has failed or has a tunnel.
LEMMA SaveStep ==
    ASSUME IInv, NEW w \in Workers, work[w] # Idle, Save(w)
    PROVE  \E r : After(w, r) /\ Answering(w, r) /\ Earning(r) /\ r.at # "prove"
<1>1. work[w].at = "saving" /\ work[w].agent \in Agents /\ HealthWritten(w)
  BY Locals DEF Save, IInv, HealthWritten
<1>2. CASE work[w].left = << >>
  <2>1. After(w, Idle) /\ Answering(w, Idle) /\ Earning(Idle)
    BY <1>1, <1>2, FinishAfter DEF Save, Fail
  <2> QED
    BY <2>1 DEF Idle
<1>3. CASE work[w].left # << >>
  <2> DEFINE r == [at |-> "accepted", agent |-> work[w].agent]
  <2>1. r \in Waiting /\ r.agent = work[w].agent /\ Offering(work[w])
    BY <1>1, <1>3 DEF Waiting, Offering
  <2>2. work' = [work EXCEPT ![w] = r]
    BY <1>3 DEF Save
  <2>3. After(w, r) /\ Answering(w, r) /\ Earning(r)
    BY <1>1, <1>3, <2>1, <2>2, WaitingAfter DEF Save
  <2> QED
    BY <2>3
<1> QED
  BY <1>2, <1>3

\* The agent is told, or the tunnel is given up; and the tunnel ends.
LEMMA EstablishStep ==
    ASSUME IInv, NEW w \in Workers, work[w] # Idle, Establish(w) \/ RelayEnds(w)
    PROVE  \E r : After(w, r) /\ Answering(w, r) /\ Earning(r) /\ r.at # "prove"
<1>1. CASE RelayEnds(w)
  <2>1. After(w, Idle) /\ Answering(w, Idle) /\ Earning(Idle)
    BY <1>1, FinishAfter DEF RelayEnds, files, HealthWritten
  <2> QED
    BY <2>1 DEF Idle
<1>2. CASE Establish(w) /\ Fail(w)
  <2>1. After(w, Idle) /\ Answering(w, Idle) /\ Earning(Idle)
    BY <1>2, FinishAfter DEF Establish, Fail, files, HealthWritten
  <2> QED
    BY <2>1 DEF Idle
<1>3. CASE Establish(w) /\ Send(w, 200) /\ work' = [work EXCEPT ![w].at = "relay"] /\ UNCHANGED closed
  <2> DEFINE r == [at |-> "relay", agent |-> work[w].agent]
  <2>1. work[w].at = "accepted" /\ work[w] \in Waiting
    BY <1>3, Locals DEF Establish, IInv
  <2>2. r = [work[w] EXCEPT !.at = "relay"] /\ r \in Waiting
    BY <2>1 DEF Waiting
  <2>3. work' = [work EXCEPT ![w] = r] /\ r.agent = work[w].agent
    BY <1>3, <2>2
  <2>4. r \in States /\ r # Idle /\ r.at \notin Copied
    BY <2>2 DEF States, Idle, Copied
  <2>5. After(w, r)
    BY <1>3, <2>3, <2>4 DEF After, Establish, Copied
  <2>6. Answering(w, r)
    BY <1>3, <2>1 DEF Answering, Offering, Establish
  <2>7. Earning(r)
    BY <1>3, <2>4, HealthBehind DEF Earning, Establish, files, HealthWritten
  <2> QED
    BY <2>5, <2>6, <2>7
<1> QED
  BY <1>1, <1>2, <1>3 DEF Establish

-----------------------------------------------------------------------------
(* What such a step keeps.                                                 *)

\* The thread's own record is the new one, the others are as they were.
LEMMA AfterWork ==
    ASSUME Types, NEW w \in Workers, NEW r, After(w, r)
    PROVE  /\ work' \in [Workers -> States] /\ work'[w] = r
           /\ \A v \in Workers : v # w => work'[v] = work[v]
BY DEF Types, After

\* Agents stay where they are, or are closed.
LEMMA AfterOnePlace ==
    ASSUME IInv, NEW w \in Workers, work[w] # Idle, NEW r, After(w, r)
    PROVE  OnePlace'
<1>0. Types /\ OnePlace
  BY DEF IInv
<1>1. queue' = queue /\ Len(queue) \in Nat
  BY <1>0 DEF After, Types
<1>2. \A v \in Workers : work'[v] # Idle => work[v] # Idle /\ work'[v].agent = work[v].agent
  BY <1>0, AfterWork DEF After
<1>3. \A a : a \in closed' => a \in closed \/ (r = Idle /\ a = work[w].agent)
  BY DEF After
<1>4. ASSUME NEW v \in Workers, work'[v] # Idle PROVE work'[v].agent \notin closed'
  BY <1>0, <1>2, <1>3, <1>4, AfterWork DEF OnePlace
<1>5. ASSUME NEW i \in 1..Len(queue) PROVE queue[i] \notin closed'
  BY <1>0, <1>3, <1>5 DEF OnePlace
<1> QED
  BY <1>0, <1>1, <1>2, <1>4, <1>5 DEF OnePlace

\* A copy of the health file stays behind the failures.
LEMMA AfterBehind ==
    ASSUME IInv, NEW w \in Workers, NEW r, After(w, r), Earning(r)
    PROVE  Behind' /\ Candidates'
<1>0. Types /\ Behind /\ Candidates
  BY DEF IInv
<1>1. ASSUME NEW v \in Workers, v # w, work[v].at \in Copied, NEW g \in Gateways
      PROVE  work[v].health[g] <= failed'[g]
  <2>1. work[v].health \in Counts /\ failed \in Counts /\ failed' \in Counts
    BY <1>0, <1>1, CopyLocals DEF Types, Earning
  <2>2. work[v].health[g] \in Nat /\ failed[g] \in Nat /\ failed'[g] \in Nat
    BY <2>1 DEF Counts, Threshold
  <2> QED
    BY <1>0, <1>1, <2>2 DEF Behind, Earning
<1>2. Behind'
  BY <1>0, <1>1, AfterWork DEF Behind, Earning
<1>3. Candidates'
  BY <1>0, AfterWork DEF Candidates, After
<1> QED
  BY <1>2, <1>3

\* The first status.
LEMMA AppendToNone == \A status : Append(<< >>, status) = <<status>>
OBVIOUS

\* An agent that was answered is closed or in its tunnel.
LEMMA AfterAnswered ==
    ASSUME IInv, NEW w \in Workers, work[w] # Idle, NEW r, After(w, r), Answering(w, r)
    PROVE  Answered' /\ replies' \in [Agents -> Seq({200, 204, 502, 503})]
<1>0. Types /\ OnePlace /\ Answered /\ work[w].agent \in Agents
  BY Locals DEF IInv
<1>1. \A a : HasProof(a, offered) => HasProof(a, offered')
  BY DEF Answering, HasProof
<1>2. ASSUME NEW v \in Workers, Offering(work'[v]) PROVE HasProof(work'[v].agent, offered')
  <2>1. CASE v # w
    BY <1>0, <1>1, <1>2, <2>1, AfterWork DEF Answered
  <2>2. CASE v = w
    <3>1. work'[v] = r /\ r # Idle /\ r.agent = work[w].agent
      <4>1. ~Offering(Idle)
        BY DEF Offering, Idle
      <4> QED
        BY <1>0, <1>2, <2>2, <4>1, AfterWork DEF After
    <3> QED
      BY <1>0, <1>1, <1>2, <3>1 DEF Answering, Answered, HasProof
  <2> QED
    BY <2>1, <2>2
<1>3. work[w].at # "relay" => replies[work[w].agent] = << >>
  <2>1. \A v \in Workers : work[v].at = "relay" => work[v] # Idle
    BY DEF Idle
  <2> QED
    BY <1>0, <2>1 DEF OnePlace, Answered
<1>4. /\ closed \subseteq closed'
      /\ r = Idle => work[w].agent \in closed'
      /\ \A v \in Workers : v # w => work'[v] = work[v]
      /\ work'[w] = r
  BY <1>0, AfterWork DEF After
<1>5. ASSUME NEW a \in Agents
      PROVE  /\ Len(replies'[a]) <= 1
             /\ replies'[a] = <<200>> => HasProof(a, offered')
             /\ replies'[a] # << >> => a \in closed' \/ \E v \in Workers :
                                        work'[v].at = "relay" /\ work'[v].agent = a
  <2>1. CASE replies' = replies /\ work[w].at # "relay"
    BY <1>0, <1>1, <1>4, <2>1 DEF Answered
  <2>2. CASE r = Idle /\ work[w].at = "relay" /\ replies' = replies
    BY <1>0, <1>1, <1>4, <2>2 DEF Answered
  <2>3. ASSUME r = Idle, work[w].at # "relay", NEW status \in {204, 502}, Send(w, status)
        PROVE  /\ Len(replies'[a]) <= 1
               /\ replies'[a] = <<200>> => HasProof(a, offered')
               /\ replies'[a] # << >> => a \in closed' \/ \E v \in Workers :
                                          work'[v].at = "relay" /\ work'[v].agent = a
    <3>1. CASE a = work[w].agent
      <4>0. replies'[a] = Append(replies[a], status) /\ replies[a] = << >>
        BY <1>0, <1>3, <2>3, <3>1 DEF Send, Types
      <4>1. replies'[a] = <<status>>
        BY <4>0, AppendToNone
      <4> QED
        BY <1>4, <2>3, <3>1, <4>1
    <3>2. CASE a # work[w].agent
      <4>1. replies'[a] = replies[a]
        BY <1>0, <2>3, <3>2 DEF Send, Types
      <4> QED
        BY <1>0, <1>1, <1>4, <2>3, <3>2, <4>1 DEF Answered
    <3> QED
      BY <3>1, <3>2
  <2>4. CASE r.at = "relay" /\ work[w].at = "accepted" /\ Send(w, 200)
    <3>0. r # Idle /\ r.agent = work[w].agent
      BY <2>4 DEF After, Idle
    <3>1. CASE a = work[w].agent
      <4>1. replies'[a] = <<200>>
        BY <1>0, <1>3, <2>4, <3>1, AppendToNone DEF Send, Types
      <4>2. HasProof(a, offered')
        BY <1>0, <1>1, <2>4, <3>1 DEF Answered, Offering
      <4> QED
        BY <1>4, <2>4, <3>0, <3>1, <4>1, <4>2
    <3>2. CASE a # work[w].agent
      <4>1. replies'[a] = replies[a]
        BY <1>0, <2>4, <3>2 DEF Send, Types
      <4> QED
        BY <1>0, <1>1, <1>4, <2>4, <3>2, <4>1 DEF Answered
    <3> QED
      BY <3>1, <3>2
  <2> QED
    BY <2>1, <2>2, <2>3, <2>4 DEF Answering
<1>6. replies' \in [Agents -> Seq({200, 204, 502, 503})]
  <2>1. ASSUME NEW status \in {200, 204, 502}, Send(w, status)
        PROVE  replies' \in [Agents -> Seq({200, 204, 502, 503})]
    <3>1. Append(replies[work[w].agent], status) \in Seq({200, 204, 502, 503})
      BY <1>0 DEF Types
    <3> QED
      BY <1>0, <2>1, <3>1 DEF Send, Types
  <2> QED
    BY <1>0, <2>1 DEF Answering, Types
<1> QED
  BY <1>2, <1>5, <1>6 DEF Answered

\* The files a step of a thread leaves keep their shape.
LEMMA FileTypes ==
    ASSUME ProxyConstants, IInv, NEW w \in Workers, Serve(w) \/ RelayEnds(w)
    PROVE  /\ cache' \in Nat /\ cursor' \in [epoch : Nat, next : Nat]
           /\ offered' \in SUBSET (Nat \X Nat \X (Agents \cup {"before"}))
<1>0. Types
  BY DEF IInv
<1>1. CASE Allocate(w)
  <2>1. work[w].epoch \in Nat
    BY <1>0, <1>1, Locals DEF Allocate, Planned
  <2> QED
    BY <1>0, <1>1, <2>1 DEF Allocate, NextSlot, Types
<1>2. CASE Prove(w)
  <2>1. work[w].epoch \in Nat /\ work[w].slot \in Nat /\ work[w].agent \in Agents
    BY <1>0, <1>2, Locals DEF Prove, Proving
  <2> QED
    BY <1>0, <1>2, <2>1 DEF Prove, Types, files
<1>3. CASE OpenCache(w) \/ WriteCache(w)
  <2>1. WriteCache(w) => work[w].dir \in Nat
    BY <1>0, Locals DEF WriteCache, Caching
  <2> QED
    BY <1>0, <1>3, <2>1 DEF OpenCache, WriteCache, Types
<1>4. CASE OpenHealth(w) \/ Save(w)
  BY <1>0, <1>4 DEF OpenHealth, Save, Types
<1>5. CASE UNCHANGED <<cache, cursor, offered>>
  BY <1>0, <1>5 DEF Types
<1> QED
  BY <1>1, <1>2, <1>3, <1>4, <1>5 DEF Serve, RequestOnly, Plan, SetupFails, NoProof, DialFails,
     Establish, Resolve, Answers, RelayEnds, files

\* A step that makes no proof and takes no slot.
LEMMA AheadKept ==
    ASSUME IInv, UNCHANGED <<cursor, offered>>,
           \A v \in Workers : work'[v].at = "prove" => work'[v] = work[v]
    PROVE  Ahead'
BY DEF IInv, Ahead, Past, ProofsDistinct

\* The slot allocated is past every other.
LEMMA AheadAllocated ==
    ASSUME IInv, NEW w \in Workers, work[w] # Idle, Allocate(w)
    PROVE  Ahead'
<1> DEFINE e == work[w].epoch
           n == NextSlot(work[w].epoch)
<1>0. /\ Types /\ Ahead /\ cursor.epoch \in Nat /\ cursor.next \in Nat
      /\ \A p \in offered : p[1] \in Nat /\ p[2] \in Nat
      /\ \A v \in Workers : work[v].at = "prove" => work[v].epoch \in Nat /\ work[v].slot \in Nat
  BY Locals DEF IInv, Types, Proving
<1>1. e \in Nat /\ n \in Nat /\ cursor.epoch <= e /\ UNCHANGED offered
  BY <1>0, Locals DEF Allocate, Planned, NextSlot
<1>2. cursor'.epoch = e /\ cursor'.next = n + 1
  BY DEF Allocate
<1>3. /\ work'[w].at = "prove" /\ work'[w].epoch = e /\ work'[w].slot = n
      /\ \A v \in Workers : v # w => work'[v] = work[v]
  <2>1. work' = [work EXCEPT ![w] = [at |-> "prove", agent |-> work[w].agent,
                                     health |-> work[w].health, left |-> work[w].left,
                                     epoch |-> e, slot |-> n]]
    BY DEF Allocate
  <2> QED
    BY <1>0, <2>1 DEF Types
<1>4. \A f, s \in Nat : Past(f, s) => ~(f = e /\ s = n) /\ Past(f, s)'
  BY <1>0, <1>1, <1>2 DEF Past, NextSlot
<1>5. \A p \in offered' : Past(p[1], p[2])'
  BY <1>0, <1>1, <1>4 DEF Ahead
<1>6. ASSUME NEW v \in Workers, work'[v].at = "prove"
      PROVE  /\ work'[v].epoch < cursor'.epoch
                \/ (work'[v].epoch = cursor'.epoch /\ work'[v].slot < cursor'.next)
             /\ \A p \in offered : ~(p[1] = work'[v].epoch /\ p[2] = work'[v].slot)
             /\ v # w => ~(work'[v].epoch = e /\ work'[v].slot = n)
  <2>1. CASE v = w
    BY <1>0, <1>1, <1>2, <1>3, <1>4, <2>1 DEF Ahead
  <2>2. CASE v # w
    BY <1>0, <1>3, <1>4, <1>6, <2>2 DEF Ahead, Past
  <2> QED
    BY <2>1, <2>2
<1> QED
  BY <1>0, <1>1, <1>3, <1>5, <1>6 DEF Ahead, Past, ProofsDistinct

\* The proof made is of a slot that no other proof has.
LEMMA AheadProved ==
    ASSUME IInv, NEW w \in Workers, work[w] # Idle, Prove(w)
    PROVE  Ahead'
<1> DEFINE p == <<work[w].epoch, work[w].slot, work[w].agent>>
<1>0. Types /\ Ahead /\ work[w].at = "prove"
  BY DEF IInv, Prove
<1>1. offered' = offered \cup {p} /\ UNCHANGED cursor
  BY DEF Prove, files
<1>2. work'[w].at = "dial" /\ \A v \in Workers : v # w => work'[v] = work[v]
  BY <1>0 DEF Prove, Types
<1>3. p[1] = work[w].epoch /\ p[2] = work[w].slot
  OBVIOUS
<1> HIDE DEF p
<1>4. \A q \in offered : ~(q[1] = p[1] /\ q[2] = p[2])
  BY <1>0, <1>3 DEF Ahead
<1> QED
  BY <1>0, <1>1, <1>2, <1>3, <1>4 DEF Ahead, Past, ProofsDistinct

\* A step of a thread that serves an agent keeps the invariant.
LEMMA ThreadStep ==
    ASSUME ProxyConstants, IInv, NEW w \in Workers, work[w] # Idle, Serve(w) \/ RelayEnds(w)
    PROVE  IInv'
<1>0. Types
  BY DEF IInv
<1>1. Allocate(w) \/ Prove(w) \/ (UNCHANGED <<cursor, offered>> /\ ~Allocate(w))
  BY DEF Serve, RequestOnly, OpenCache, WriteCache, Plan, SetupFails, NoProof, DialFails,
     OpenHealth, Save, Establish, Resolve, Answers, RelayEnds, files
<1>2. ASSUME ~Allocate(w)
      PROVE  \E r : After(w, r) /\ Answering(w, r) /\ Earning(r) /\ r.at # "prove"
  BY <1>2, DirectorySteps, PlanStep, ProveStep, NoProofStep, DialFailsStep, AnswersStep,
     OpenHealthStep, SaveStep, EstablishStep DEF Serve
<1>3. PICK r : After(w, r) /\ Answering(w, r) /\ Earning(r)
  BY <1>2, AllocateStep
<1>4. Ahead'
  <2>1. ASSUME ~Allocate(w), UNCHANGED <<cursor, offered>> PROVE Ahead'
    <3>1. PICK q : After(w, q) /\ q.at # "prove"
      BY <1>2, <2>1
    <3>2. \A v \in Workers : work'[v].at = "prove" => work'[v] = work[v]
      BY <1>0, <3>1, AfterWork
    <3> QED
      BY <2>1, <3>2, AheadKept
  <2> QED
    BY <1>1, <2>1, AheadAllocated, AheadProved
<1>5. OnePlace' /\ Behind' /\ Candidates' /\ Answered'
  BY <1>3, AfterOnePlace, AfterBehind, AfterAnswered
<1>6. Types'
  <2>1. work' \in [Workers -> States] /\ replies' \in [Agents -> Seq({200, 204, 502, 503})]
        /\ health' \in Counts /\ failed' \in Counts
    BY <1>0, <1>3, AfterWork, AfterAnswered DEF Earning
  <2>2. UNCHANGED <<clock, queue, crashes>> /\ closed' \in SUBSET Agents
    BY <1>0, <1>3, Locals DEF After, Types
  <2> QED
    BY <1>0, <2>1, <2>2, FileTypes DEF Types
<1> QED
  BY <1>4, <1>5, <1>6 DEF IInv

-----------------------------------------------------------------------------
(* The other steps.                                                        *)

\* A new agent is in no place yet.
LEMMA AcceptStep ==
    ASSUME IInv, NEW a \in Agents, AcceptAgent(a)
    PROVE  IInv'
<1>0. /\ Types /\ UNCHANGED <<clock, files, failed, work, offered, crashes>>
      /\ a \notin closed /\ queue \in Seq(Agents) /\ Len(queue) \in Nat
      /\ \A i \in 1..Len(queue) : queue[i] # a
      /\ \A w \in Workers : work[w] # Idle => work[w].agent # a
  BY DEF IInv, Types, AcceptAgent, Arrived, Serving, Range
<1>1. Ahead' /\ Behind' /\ Candidates'
  BY <1>0 DEF IInv, Ahead, Past, ProofsDistinct, Behind, Candidates, files
<1>2. CASE queue' = Append(queue, a) /\ UNCHANGED <<replies, closed>>
  <2>1. /\ Len(queue') = Len(queue) + 1
        /\ \A i \in 1..Len(queue') : queue'[i] = IF i <= Len(queue) THEN queue[i] ELSE a
        /\ queue' \in Seq(Agents)
    BY <1>0, <1>2
  <2>2. OnePlace'
    BY <1>0, <1>2, <2>1 DEF IInv, OnePlace
  <2>3. Types' /\ Answered'
    BY <1>0, <1>2, <2>1 DEF IInv, Types, Answered, files
  <2> QED
    BY <1>1, <2>2, <2>3 DEF IInv
<1>3. CASE /\ replies' = [replies EXCEPT ![a] = <<503>>]
           /\ closed' = closed \cup {a} /\ UNCHANGED queue
  <2>1. OnePlace'
    BY <1>0, <1>3 DEF IInv, OnePlace
  <2>2. /\ replies' \in [Agents -> Seq({200, 204, 502, 503})] /\ replies'[a] = <<503>>
        /\ \A b \in Agents : b # a => replies'[b] = replies[b]
    BY <1>0, <1>3 DEF Types
  <2>3. Types'
    BY <1>0, <1>3, <2>2 DEF Types, files
  <2>4. Len(<<503>>) = 1 /\ <<503>> # <<200>>
    OBVIOUS
  <2>5. Answered'
    BY <1>0, <1>3, <2>2, <2>4 DEF IInv, Answered
  <2> QED
    BY <1>1, <2>1, <2>3, <2>5 DEF IInv
<1> QED
  BY <1>2, <1>3 DEF AcceptAgent

\* The agent goes from the channel to the thread.
LEMMA TakeStep ==
    ASSUME IInv, NEW w \in Workers, Take(w)
    PROVE  IInv'
<1> DEFINE r == [at |-> "request", agent |-> queue[1]]
<1>0. /\ Types /\ work[w] = Idle /\ queue # << >> /\ work' = [work EXCEPT ![w] = r]
      /\ queue' = Tail(queue)
      /\ UNCHANGED <<clock, files, failed, replies, closed, offered, crashes>>
  BY DEF IInv, Take
<1>1. /\ Len(queue) \in Nat \ {0} /\ Len(queue') = Len(queue) - 1 /\ queue' \in Seq(Agents)
      /\ \A i \in 1..Len(queue') : queue'[i] = queue[i + 1] /\ i + 1 \in 1..Len(queue)
      /\ queue[1] \in Agents
  BY <1>0 DEF Types
<1>2. /\ r \in States /\ r # Idle /\ r.agent = queue[1] /\ r.at = "request"
      /\ work' \in [Workers -> States] /\ work'[w] = r
      /\ \A v \in Workers : v # w => work'[v] = work[v]
  BY <1>0, <1>1 DEF Types, States, Waiting, Idle
<1> HIDE DEF r
<1>3. Types'
  BY <1>0, <1>1, <1>2 DEF Types, files
<1>4. Ahead' /\ Behind' /\ Candidates'
  BY <1>0, <1>2, AheadKept DEF IInv, Behind, Candidates, Copied, files
<1>5. OnePlace'
  <2>1. \A i \in 1..Len(queue') : queue'[i] # queue[1]
    BY <1>1 DEF IInv, OnePlace
  <2>2. \A i \in 1..Len(queue') : queue'[i] \notin closed
    BY <1>1 DEF IInv, OnePlace
  <2>3. \A i, j \in 1..Len(queue') : queue'[i] = queue'[j] => i = j
    BY <1>1 DEF IInv, OnePlace
  <2>4. \A v \in Workers : v # w /\ work[v] # Idle => work[v].agent # queue[1]
    BY <1>1 DEF IInv, OnePlace
  <2>5. \A i \in 1..Len(queue'), v \in Workers : v # w /\ work[v] # Idle => work[v].agent # queue'[i]
    BY <1>1 DEF IInv, OnePlace
  <2>6. queue[1] \notin closed /\ \A v \in Workers : work[v] # Idle => work[v].agent \notin closed
    BY <1>1 DEF IInv, OnePlace
  <2>7. \A u, v \in Workers :
           work[u] # Idle /\ work[v] # Idle /\ work[u].agent = work[v].agent => u = v
    BY DEF IInv, OnePlace
  <2> QED
    BY <1>0, <1>2, <2>1, <2>2, <2>3, <2>4, <2>5, <2>6, <2>7 DEF OnePlace
<1>6. Answered'
  <2>1. ~Offering(r) /\ work[w].at # "relay"
    BY <1>0, <1>2 DEF Offering, Idle
  <2> QED
    BY <1>0, <1>2, <2>1 DEF IInv, Answered
<1> QED
  BY <1>3, <1>4, <1>5, <1>6 DEF IInv

\* A crash closes every agent that was in a place.
LEMMA CrashStep ==
    ASSUME IInv, Crash
    PROVE  IInv'
<1>0. /\ Types /\ queue' = << >> /\ work' = [w \in Workers |-> Idle]
      /\ UNCHANGED <<clock, files, failed, replies, offered>>
      /\ crashes' = crashes + 1 /\ closed' = {a \in Agents : Arrived(a)}
  BY DEF IInv, Crash
<1>1. Idle \in States /\ Idle.at = "idle" /\ ~Offering(Idle)
  BY DEF States, Idle, Offering
<1>2. \A w \in Workers : work'[w] = Idle
  BY <1>0
<1>3. Types'
  BY <1>0, <1>1 DEF Types, files
<1>4. Ahead' /\ Behind' /\ Candidates' /\ OnePlace'
  BY <1>0, <1>1, <1>2, AheadKept DEF IInv, Behind, Candidates, OnePlace, Copied, files
<1>5. \A a \in Agents : replies[a] # << >> => a \in closed'
  <2>1. \A w \in Workers : work[w].at = "relay" => work[w] # Idle
    BY <1>1
  <2> QED
    BY <1>0, <2>1 DEF IInv, Answered, Arrived, Serving
<1>6. Answered'
  BY <1>0, <1>1, <1>2, <1>5 DEF IInv, Answered
<1> QED
  BY <1>3, <1>4, <1>6 DEF IInv

-----------------------------------------------------------------------------
(* The invariant.                                                          *)

\* The proxy starts with the slots of earlier runs spent and no agents.
LEMMA InitIInv ==
    ASSUME ProxyConstants, ProxyInit
    PROVE  IInv
<1>0. Slots \in Nat /\ cursor.epoch = 0 /\ cursor.next \in 0..Slots
      /\ cursor \in [epoch : Nat, next : Nat]
      /\ offered = {<<0, n, "before">> : n \in 0..(cursor.next - 1)}
  BY Constants DEF ProxyInit
<1>1. ASSUME NEW p \in offered
      PROVE  /\ p \in Nat \X Nat \X (Agents \cup {"before"}) /\ p[1] = 0
             /\ p = <<0, p[2], "before">> /\ p[2] < cursor.next
  BY <1>0, <1>1
<1>2. Idle \in States /\ Idle.at = "idle" /\ ~Offering(Idle)
  BY DEF States, Idle, Offering
<1>3. Unknown \in Counts
  BY DEF Unknown, Counts, Threshold
<1>4. << >> \in Seq({200, 204, 502, 503}) /\ << >> \in Seq(Agents) /\ Len(<< >>) = 0
  OBVIOUS
<1>5. Types
  BY <1>0, <1>1, <1>2, <1>3, <1>4 DEF ProxyInit, Types
<1>6. \A w \in Workers : work[w] = Idle
  BY DEF ProxyInit
<1>7. Ahead
  <2>1. ProofsDistinct
    BY <1>1 DEF ProofsDistinct
  <2> QED
    BY <1>0, <1>1, <1>2, <1>6, <2>1 DEF Ahead, Past
<1>8. Behind /\ Candidates /\ OnePlace
  BY <1>2, <1>4, <1>6 DEF ProxyInit, Behind, Candidates, OnePlace, Copied, Unknown
<1>9. Answered
  BY <1>2, <1>4, <1>6 DEF ProxyInit, Answered
<1> QED
  BY <1>5, <1>7, <1>8, <1>9 DEF IInv

\* Every step of the proxy keeps the invariant.
LEMMA NextIInv ==
    ASSUME ProxyConstants, IInv, [ProxyNext]_proxyVars
    PROVE  IInv'
<1>1. ASSUME NEW a \in Agents, AcceptAgent(a) PROVE IInv'
  BY <1>1, AcceptStep
<1>2. ASSUME NEW w \in Workers, Take(w) PROVE IInv'
  BY <1>2, TakeStep
<1>3. ASSUME NEW w \in Workers, Serve(w) \/ RelayEnds(w) PROVE IInv'
  <2>1. work[w] # Idle
    BY <1>3 DEF Serve, RelayEnds, Idle
  <2> QED
    BY <1>3, <2>1, ThreadStep
<1>4. CASE NewEpoch
  <2>1. Types'
    BY <1>4 DEF NewEpoch, IInv, Types, files
  <2> QED
    BY <1>4, <2>1 DEF NewEpoch, IInv, Ahead, Past, ProofsDistinct, Behind, Candidates, OnePlace,
       Answered, files
<1>5. CASE Crash
  BY <1>5, CrashStep
<1>6. CASE UNCHANGED proxyVars
  BY <1>6 DEF proxyVars, files, IInv, Types, Ahead, Past, ProofsDistinct, Behind, Candidates, OnePlace,
     Answered
<1> QED
  BY <1>1, <1>2, <1>3, <1>4, <1>5, <1>6 DEF ProxyNext

\* The proxy keeps the invariant.
THEOREM InvariantHolds ==
    ASSUME ProxyConstants
    PROVE  ProxySpec => []IInv
<1>1. ProxyInit => IInv
  BY InitIInv
<1>2. IInv /\ [ProxyNext]_proxyVars => IInv'
  BY NextIInv
<1> QED
  BY <1>1, <1>2, PTL DEF ProxySpec

\* ProofsDistinct: with any number of threads, crashes and epochs, no two proofs
\* have the same epoch and slot.
THEOREM ProofsNeverRepeat ==
    ASSUME ProxyConstants
    PROVE  ProxySpec => []ProofsDistinct
<1>1. IInv => ProofsDistinct
  BY DEF IInv, Ahead
<1> QED
  BY <1>1, InvariantHolds, PTL

\* HealthEarned: however the threads empty, read and overwrite the health file,
\* it counts no failure that did not happen.
THEOREM HealthIsEarned ==
    ASSUME ProxyConstants
    PROVE  ProxySpec => []HealthEarned
<1>1. IInv => HealthEarned
  BY DEF IInv, Behind, HealthEarned
<1> QED
  BY <1>1, InvariantHolds, PTL

\* At most one element.
LEMMA AtMostOne ==
    ASSUME NEW S, \A x, y \in S : x = y
    PROVE  /\ Cardinality(S) \in {0, 1}
           /\ Cardinality(S) = 1 <=> S # {}
<1>1. CASE S = {}
  BY <1>1, FS_EmptySet
<1>2. CASE S # {}
  <2>1. PICK x : x \in S
    BY <1>2
  <2>2. S = {x}
    BY <2>1
  <2> QED
    BY <1>2, <2>2, FS_Singleton
<1> QED
  BY <1>1, <1>2

\* OneAnswer: an agent is in one place, the channel, a thread or closed, and gets
\* one status, "200" only after a proof of its own.
THEOREM OneAnswerEach ==
    ASSUME ProxyConstants
    PROVE  ProxySpec => []OneAnswer
<1>1. ASSUME IInv PROVE OneAnswer
  <2>0. Types /\ OnePlace /\ Answered /\ DOMAIN queue = 1..Len(queue)
    BY <1>1 DEF IInv, Types
  <2> SUFFICES ASSUME NEW a \in Agents
               PROVE  /\ Cardinality({i \in DOMAIN queue : queue[i] = a}) + Cardinality(Serving(a))
                            + (IF a \in closed THEN 1 ELSE 0) <= 1
                      /\ Len(replies[a]) <= 1
                      /\ replies[a] = <<200>> => \E p \in offered : p[3] = a
                      /\ replies[a] # << >> => a \in closed \/ \E w \in Serving(a) : work[w].at = "relay"
    BY DEF OneAnswer
  <2> DEFINE Q == {i \in DOMAIN queue : queue[i] = a}
  <2>1. /\ Cardinality(Q) \in {0, 1} /\ (Cardinality(Q) = 1 <=> Q # {})
    <3>1. \A i, j \in Q : i = j
      BY <2>0 DEF OnePlace
    <3> QED
      BY <3>1, AtMostOne
  <2>2. /\ Cardinality(Serving(a)) \in {0, 1} /\ (Cardinality(Serving(a)) = 1 <=> Serving(a) # {})
    <3>1. \A v, w \in Serving(a) : v = w
      BY <2>0 DEF OnePlace, Serving
    <3> QED
      BY <3>1, AtMostOne
  <2>3. /\ Q # {} => Serving(a) = {} /\ a \notin closed
        /\ Serving(a) # {} => a \notin closed
    BY <2>0 DEF OnePlace, Serving
  <2>4. Cardinality(Q) + Cardinality(Serving(a)) + (IF a \in closed THEN 1 ELSE 0) <= 1
    BY <2>1, <2>2, <2>3
  <2>5. \A w \in Workers : work[w].at = "relay" /\ work[w].agent = a => w \in Serving(a)
    BY DEF Serving, Idle
  <2> QED
    BY <2>0, <2>4, <2>5 DEF Answered, HasProof
<1> QED
  BY <1>1, InvariantHolds, PTL
=============================================================================
