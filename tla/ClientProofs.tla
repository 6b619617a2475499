---------------------------- MODULE ClientProofs ----------------------------
(***************************************************************************)
(* Proofs about the two ways a client hands out slots, for every set of    *)
(* processes, calls, leaves and gateways.                                  *)
(*                                                                         *)
(* Slot file: GrantsSurviveCrash is not inductive.  Whether a returned     *)
(* slot survives depends on what the lock holder has read and written so   *)
(* far, and on there being one lock holder.  Inv adds both.                *)
(* Tunnel: a reservation is below its epoch's counter and no other call's, *)
(* whether its proof is made yet or not and wherever the pool is by then   *)
(* (Reserved, SpentSlots); a socket is held only where some step is bound  *)
(* to close it (OwnedSockets).                                             *)
(***************************************************************************)
EXTENDS SlotState, ClientTunnel, FiniteSetTheorems, TLAPS

\* Every slot returned so far precedes (e, k) of leaf l.
AllBefore(l, e, k) ==
    \A i \in DOMAIN log :
        log[i].leaf = l => Ledger!Earlier(log[i].epoch, log[i].slot, e, k)

\* A process between mkdir and rmdir owns the lock directory, alone.
LockHeld == \A p \in Procs : InCriticalSection(p) => lock[LeafOf[p]]

MutualExclusion ==
    \A p, q \in Procs :
        /\ InCriticalSection(p)
        /\ InCriticalSection(q)
        /\ LeafOf[p] = LeafOf[q]
        => p = q

\* What the path shows is one of the states that may be on the disk.
FileOnDisk == \A l \in Leaves : file[l] \in disk[l]

\* The slot about to be burnt is the first one the file does not exclude.
SaveOK(p) ==
    pc[p] = "save" =>
        /\ slot[p] < Limit[LeafOf[p]]
        /\ \/ file[LeafOf[p]].epoch < ep[p]
           \/ /\ file[LeafOf[p]].epoch = ep[p]
              /\ file[LeafOf[p]].nextSlot = slot[p]

\* A slot on its way to the caller: the file is just past it, and every slot
\* returned before precedes it.
Burnt(p) ==
    /\ slot[p] < Limit[LeafOf[p]]
    /\ file[LeafOf[p]] = [epoch |-> ep[p], nextSlot |-> slot[p] + 1]
    /\ AllBefore(LeafOf[p], ep[p], slot[p])

SyncOK(p) == pc[p] = "sync" => Burnt(p)

UnlockOK(p) ==
    outcome[p] = "slot" =>
        /\ pc[p] = "unlock"
        /\ Burnt(p)
        /\ disk[LeafOf[p]] = {file[LeafOf[p]]}

Inv ==
    /\ TypeOK
    /\ LockHeld
    /\ MutualExclusion
    /\ FileOnDisk
    /\ GrantsSurviveCrash
    /\ \A p \in Procs : SaveOK(p) /\ SyncOK(p) /\ UnlockOK(p)

-----------------------------------------------------------------------------
(* Type correctness.                                                       *)

\* An entry appended to the log is its last one; the earlier ones stay.
LEMMA AppendOne ==
    ASSUME NEW S, NEW q \in Seq(S), NEW e \in S
    PROVE  /\ Append(q, e) \in Seq(S)
           /\ Len(Append(q, e)) = Len(q) + 1
           /\ DOMAIN Append(q, e) = DOMAIN q \cup {Len(q) + 1}
           /\ Append(q, e)[Len(q) + 1] = e
           /\ \A i \in DOMAIN q : Append(q, e)[i] = q[i]
OBVIOUS

\* The files, locks and callers start well typed.
LEMMA TypeInit == Init => TypeOK
BY LeafAssumption, BoundAssumption
DEF Init, TypeOK, Epochs, State, NoState, InLock

\* Every step of allocatePersistentSlot() and of its environment keeps the types.
LEMMA TypeStep == TypeOK /\ [Next]_vars => TypeOK'
<1> SUFFICES ASSUME TypeOK, [Next]_vars PROVE TypeOK'
  OBVIOUS
<1> USE LeafAssumption, LimitAssumption, BoundAssumption
        DEF TypeOK, Epochs, State, InLock, Mine
<1>1. ASSUME NEW p \in Procs, Start(p) PROVE TypeOK'
  BY <1>1 DEF Start
<1>2. ASSUME NEW p \in Procs, Acquire(p) PROVE TypeOK'
  BY <1>2 DEF Acquire
<1>3. ASSUME NEW p \in Procs, LockFails(p) PROVE TypeOK'
  BY <1>3 DEF LockFails, Return
<1>4. ASSUME NEW p \in Procs, Refuse(p) PROVE TypeOK'
  BY <1>4 DEF Refuse, Leave
<1>5. ASSUME NEW p \in Procs, Choose(p) PROVE TypeOK'
  BY <1>5 DEF Choose, NextSlotOf
<1>6. ASSUME NEW p \in Procs, Rename(p) PROVE TypeOK'
  <2> DEFINE s == [epoch |-> ep[p], nextSlot |-> slot[p] + 1]
  <2>1. s \in State /\ LeafOf[p] \in Leaves
    OBVIOUS
  <2>2. file' \in [Leaves -> State]
    BY <1>6, <2>1 DEF Rename
  <2>3. disk' \in [Leaves -> SUBSET State]
    <3>1. disk' = [disk EXCEPT ![LeafOf[p]] = disk[LeafOf[p]] \cup {s}]
      BY <1>6 DEF Rename
    <3>2. disk[LeafOf[p]] \cup {s} \in SUBSET State
      BY <2>1
    <3> HIDE DEF s
    <3> QED BY <3>1, <3>2
  <2> QED BY <1>6, <2>2, <2>3 DEF Rename
<1>7. ASSUME NEW p \in Procs, SyncDirectory(p) PROVE TypeOK'
  BY <1>7 DEF SyncDirectory, Leave
<1>8. ASSUME NEW p \in Procs, SaveFails(p) PROVE TypeOK'
  BY <1>8 DEF SaveFails, Leave
<1>9. ASSUME NEW p \in Procs, Unlock(p) PROVE TypeOK'
  <2> DEFINE g == [leaf |-> Mine(p), epoch |-> ep[p], slot |-> slot[p]]
  <2>1. g \in Entry
    BY DEF Entry
  <2>2. log' \in Seq(Entry)
    <3>1. log' = log \/ log' = Append(log, g)
      BY <1>9 DEF Unlock
    <3>2. log \in Seq(Entry)
      OBVIOUS
    <3> HIDE DEF g, TypeOK
    <3>3. Append(log, g) \in Seq(Entry)
      BY <2>1, <3>2, AppendOne, Zenon
    <3> QED BY <3>1, <3>2, <3>3
  <2> QED BY <1>9, <2>2 DEF Unlock, Return
<1>10. ASSUME NEW p \in Procs, UnlockFails(p) PROVE TypeOK'
  BY <1>10 DEF UnlockFails, Return
<1>11. ASSUME NEW p \in Procs, Crash(p) PROVE TypeOK'
  BY <1>11 DEF Crash, Return
<1>12. ASSUME NEW l \in Leaves, ClearStaleLock(l) PROVE TypeOK'
  BY <1>12 DEF ClearStaleLock
<1>13. CASE PowerLoss
  <2>1. /\ file' \in [Leaves -> State]
        /\ disk' \in [Leaves -> SUBSET State]
    BY <1>13 DEF PowerLoss
  <2>2. lock' \in [Leaves -> BOOLEAN]
    BY <1>13, Zenon DEF PowerLoss
  <2> QED BY <1>13, <2>1, <2>2 DEF PowerLoss
<1>14. CASE Tick
  BY <1>14 DEF Tick
<1>15. CASE UNCHANGED vars
  BY <1>15 DEF vars
<1> QED
  BY <1>1, <1>2, <1>3, <1>4, <1>5, <1>6, <1>7, <1>8, <1>9, <1>10, <1>11,
     <1>12, <1>13, <1>14, <1>15 DEF Next, CallStep

\* What the log holds are grants of a slot to a leaf in an epoch.
LEMMA EntryType ==
    ASSUME TypeOK, NEW i \in DOMAIN log
    PROVE  /\ log[i].leaf \in Leaves
           /\ log[i].epoch \in Int
           /\ log[i].slot \in Int
<1>1. log[i] \in Entry
  BY DEF TypeOK
<1> QED BY <1>1, BoundAssumption DEF Entry, Epochs

\* Every reachable state of the allocator is well typed.
THEOREM TypeCorrect == Spec => []TypeOK
BY TypeInit, TypeStep, PTL DEF Spec

-----------------------------------------------------------------------------
(* The inductive invariant.                                                *)

\* With no file, lock or grant the invariant holds.
LEMMA InvInit == Init => Inv
<1> SUFFICES ASSUME Init PROVE Inv
  OBVIOUS
<1>1. TypeOK
  BY TypeInit
<1>2. LockHeld /\ MutualExclusion
  BY DEF Init, LockHeld, MutualExclusion, InCriticalSection, InLock
<1>3. FileOnDisk
  BY DEF Init, FileOnDisk
<1>4. GrantsSurviveCrash
  BY DEF Init, GrantsSurviveCrash
<1>5. \A p \in Procs : SaveOK(p) /\ SyncOK(p) /\ UnlockOK(p)
  BY DEF Init, SaveOK, SyncOK, UnlockOK
<1> QED BY <1>1, <1>2, <1>3, <1>4, <1>5 DEF Inv

\* A step in which process p leaves the call, or a process that is not inside
\* the critical section moves, without touching the files or the log.
LEMMA QuietStep ==
    ASSUME Inv, TypeOK', NEW p \in Procs,
           UNCHANGED <<file, disk, lock, log>>,
           pc' \in [Procs -> {"idle", "lock"} \cup InLock],
           outcome' \in [Procs -> {"none", "slot", "exhausted", "error"}],
           \A q \in Procs \ {p} :
               /\ pc'[q] = pc[q]
               /\ ep'[q] = ep[q]
               /\ slot'[q] = slot[q]
               /\ outcome'[q] = outcome[q],
           \/ pc'[p] \in {"idle", "lock"}
           \/ pc'[p] = "unlock" /\ InCriticalSection(p),
           outcome'[p] # "slot"
    PROVE  Inv'
<1> USE LeafAssumption DEF Inv
<1>1. \A q \in Procs : InCriticalSection(q)' => InCriticalSection(q)
  BY DEF InCriticalSection, InLock
<1>2. LockHeld'
  BY <1>1 DEF LockHeld
<1>3. MutualExclusion'
  BY <1>1 DEF MutualExclusion
<1>4. FileOnDisk' /\ GrantsSurviveCrash'
  BY DEF FileOnDisk, GrantsSurviveCrash, Spent, Ledger!Earlier
<1>5. ASSUME NEW q \in Procs PROVE (SaveOK(q) /\ SyncOK(q) /\ UnlockOK(q))'
  <2>1. CASE q = p
    BY <2>1 DEF SaveOK, SyncOK, UnlockOK
  <2>2. CASE q # p
    <3>1. Burnt(q) => Burnt(q)'
      BY <2>2 DEF Burnt, AllBefore, Ledger!Earlier
    <3>2. SaveOK(q) /\ SyncOK(q) /\ UnlockOK(q)
      OBVIOUS
    <3> QED BY <2>2, <3>1, <3>2 DEF SaveOK, SyncOK, UnlockOK
  <2> QED BY <2>1, <2>2
<1> QED BY <1>2, <1>3, <1>4, <1>5

\* A call samples its epoch before it waits for the lock.
LEMMA StepStart == ASSUME Inv, TypeOK', NEW p \in Procs, Start(p) PROVE Inv'
<1>1. outcome[p] # "slot"
  BY DEF Inv, UnlockOK, Start
<1> QED BY <1>1, QuietStep DEF Start, Inv, TypeOK

\* A caller outside every call keeps nothing: it failed, was killed or gave up.
LEMMA StepReturn ==
    ASSUME Inv, TypeOK', NEW p \in Procs, Return(p),
           UNCHANGED <<file, disk, lock, log>>
    PROVE  Inv'
BY QuietStep DEF Return, Inv, TypeOK

\* A call that fails with the lock held goes on to release it and touches no file.
LEMMA StepLeave ==
    ASSUME Inv, TypeOK', NEW p \in Procs, NEW r \in {"exhausted", "error"},
           Leave(p, r), InCriticalSection(p),
           UNCHANGED <<file, disk, lock, ep, slot, log>>
    PROVE  Inv'
BY QuietStep DEF Leave, Inv, TypeOK

\* mkdir succeeds for one process alone: nobody else is in the critical section.
LEMMA StepAcquire == ASSUME Inv, TypeOK', NEW p \in Procs, Acquire(p) PROVE Inv'
<1> USE LeafAssumption DEF Inv
<1>1. /\ ~lock[LeafOf[p]]
      /\ lock' = [lock EXCEPT ![LeafOf[p]] = TRUE]
      /\ pc' = [pc EXCEPT ![p] = "load"]
      /\ pc[p] = "lock"
      /\ UNCHANGED <<file, disk, ep, slot, outcome, log>>
  BY DEF Acquire, Mine
<1>2. \A q \in Procs : InCriticalSection(q) => LeafOf[q] # LeafOf[p]
  BY <1>1 DEF LockHeld
<1>3. \A q \in Procs : InCriticalSection(q)' => q = p \/ InCriticalSection(q)
  BY <1>1 DEF InCriticalSection, TypeOK
<1>4. LockHeld'
  BY <1>1, <1>3 DEF LockHeld, TypeOK
<1>5. MutualExclusion'
  BY <1>2, <1>3 DEF MutualExclusion
<1>6. FileOnDisk' /\ GrantsSurviveCrash'
  BY <1>1 DEF FileOnDisk, GrantsSurviveCrash, Spent, Ledger!Earlier
<1>7. ASSUME NEW q \in Procs PROVE (SaveOK(q) /\ SyncOK(q) /\ UnlockOK(q))'
  <2>1. Burnt(q) => Burnt(q)'
    BY <1>1 DEF Burnt, AllBefore, Ledger!Earlier
  <2>2. SaveOK(q) /\ SyncOK(q) /\ UnlockOK(q)
    OBVIOUS
  <2>3. pc'[q] \in {"save", "sync"} => pc'[q] = pc[q]
    BY <1>1 DEF TypeOK
  <2>4. pc[q] = "unlock" => pc'[q] = "unlock"
    BY <1>1 DEF TypeOK
  <2> QED BY <1>1, <2>1, <2>2, <2>3, <2>4 DEF SaveOK, SyncOK, UnlockOK
<1> QED BY <1>4, <1>5, <1>6, <1>7

\* Inside the critical section a process has the state of its leaf to itself.
LEMMA Alone ==
    ASSUME Inv, NEW p \in Procs, InCriticalSection(p), NEW q \in Procs, q # p,
           InCriticalSection(q) \/ outcome[q] = "slot"
    PROVE  LeafOf[q] # LeafOf[p]
BY DEF Inv, MutualExclusion, UnlockOK, InCriticalSection, InLock

\* What a process that is not p needs is kept by a step that leaves its locals
\* and the files of the other leaves alone and adds no slot for its leaf.
LEMMA OthersKept ==
    ASSUME Inv, NEW p \in Procs, InCriticalSection(p), NEW q \in Procs, q # p,
           \A r \in Procs \ {p} :
               /\ pc'[r] = pc[r]
               /\ ep'[r] = ep[r]
               /\ slot'[r] = slot[r]
               /\ outcome'[r] = outcome[r],
           \A l \in Leaves \ {LeafOf[p]} :
               file'[l] = file[l] /\ disk'[l] = disk[l],
           \A i \in DOMAIN log' :
               log'[i].leaf # LeafOf[p] => i \in DOMAIN log /\ log'[i] = log[i]
    PROVE  (SaveOK(q) /\ SyncOK(q) /\ UnlockOK(q))'
<1> USE LeafAssumption
<1>1. LeafOf[q] \in Leaves
  OBVIOUS
<1>2. CASE LeafOf[q] = LeafOf[p]
  <2>1. ~InCriticalSection(q) /\ outcome[q] # "slot"
    BY <1>2, Alone
  <2> QED BY <2>1 DEF SaveOK, SyncOK, UnlockOK, InCriticalSection, InLock
<1>3. CASE LeafOf[q] # LeafOf[p]
  <2>1. /\ file'[LeafOf[q]] = file[LeafOf[q]]
        /\ disk'[LeafOf[q]] = disk[LeafOf[q]]
    BY <1>1, <1>3
  <2>2. Burnt(q) => AllBefore(LeafOf[q], ep[q], slot[q])'
    BY <1>3 DEF Burnt, AllBefore, Ledger!Earlier
  <2>3. Burnt(q) => Burnt(q)'
    BY <2>1, <2>2 DEF Burnt, AllBefore, Ledger!Earlier
  <2>4. SaveOK(q) /\ SyncOK(q) /\ UnlockOK(q)
    BY DEF Inv
  <2> QED BY <2>1, <2>3, <2>4 DEF SaveOK, SyncOK, UnlockOK
<1> QED BY <1>2, <1>3

\* The slot chosen is above every slot granted to the leaf in its epoch.
LEMMA StepChoose == ASSUME Inv, TypeOK', NEW p \in Procs, Choose(p) PROVE Inv'
<1> USE LeafAssumption
<1> DEFINE s == file[LeafOf[p]]
<1>1. /\ pc[p] = "load"
      /\ s.epoch <= ep[p]
      /\ NextSlotOf(s, ep[p]) < Limit[LeafOf[p]]
      /\ slot' = [slot EXCEPT ![p] = NextSlotOf(s, ep[p])]
      /\ pc' = [pc EXCEPT ![p] = "save"]
      /\ UNCHANGED <<file, disk, lock, ep, outcome, log>>
  BY DEF Choose, Mine
<1>2. InCriticalSection(p) /\ outcome[p] # "slot"
  BY <1>1 DEF InCriticalSection, InLock, Inv, UnlockOK
<1>3. \A q \in Procs : InCriticalSection(q)' <=> InCriticalSection(q)
  BY <1>1, <1>2 DEF InCriticalSection, InLock, Inv, TypeOK
<1>4. LockHeld' /\ MutualExclusion'
  BY <1>1, <1>3 DEF Inv, LockHeld, MutualExclusion
<1>5. FileOnDisk' /\ GrantsSurviveCrash'
  BY <1>1 DEF Inv, FileOnDisk, GrantsSurviveCrash, Spent, Ledger!Earlier
<1>6. (SaveOK(p) /\ SyncOK(p) /\ UnlockOK(p))'
  <2>1. /\ pc'[p] = "save"
        /\ slot'[p] = NextSlotOf(s, ep[p])
    BY <1>1 DEF Inv, TypeOK
  <2>2. s.epoch < ep[p] \/ (s.epoch = ep[p] /\ s.nextSlot = slot'[p])
    BY <1>1, <2>1 DEF NextSlotOf, Inv, TypeOK, State, Epochs
  <2> QED BY <1>1, <1>2, <2>1, <2>2 DEF SaveOK, SyncOK, UnlockOK
<1>7. ASSUME NEW q \in Procs, q # p
      PROVE  (SaveOK(q) /\ SyncOK(q) /\ UnlockOK(q))'
  BY <1>1, <1>2, <1>7, OthersKept DEF Inv, TypeOK
<1> QED BY <1>4, <1>5, <1>6, <1>7 DEF Inv

\* The rename makes the new cursor visible, not yet durable.
LEMMA StepRename == ASSUME Inv, TypeOK', NEW p \in Procs, Rename(p) PROVE Inv'
<1> USE LeafAssumption
<1> DEFINE l == LeafOf[p]
           s == [epoch |-> ep[p], nextSlot |-> slot[p] + 1]
<1>1. /\ pc[p] = "save"
      /\ file' = [file EXCEPT ![l] = s]
      /\ disk' = [disk EXCEPT ![l] = disk[l] \cup {s}]
      /\ pc' = [pc EXCEPT ![p] = "sync"]
      /\ UNCHANGED <<lock, ep, slot, outcome, log>>
  BY DEF Rename, Mine
<1>2. InCriticalSection(p) /\ outcome[p] # "slot" /\ SaveOK(p)
  BY <1>1 DEF InCriticalSection, InLock, Inv, UnlockOK
<1>3. \A q \in Procs : InCriticalSection(q)' <=> InCriticalSection(q)
  BY <1>1, <1>2 DEF InCriticalSection, InLock, Inv, TypeOK
<1>4. LockHeld' /\ MutualExclusion'
  BY <1>1, <1>3 DEF Inv, LockHeld, MutualExclusion
<1>5. FileOnDisk'
  BY <1>1 DEF Inv, FileOnDisk, TypeOK
<1>6. AllBefore(l, ep[p], slot[p])
  <2> SUFFICES ASSUME NEW i \in DOMAIN log, log[i].leaf = l
               PROVE  Ledger!Earlier(log[i].epoch, log[i].slot, ep[p], slot[p])
    BY DEF AllBefore
  <2>1. Spent(log[i], file[l])
    BY DEF Inv, FileOnDisk, GrantsSurviveCrash
  <2>2. /\ log[i].epoch \in Int /\ log[i].slot \in Int
        /\ file[l].epoch \in Int /\ file[l].nextSlot \in Int
        /\ ep[p] \in Int /\ slot[p] \in Int
    <3>1. log[i].epoch \in Int /\ log[i].slot \in Int
      BY EntryType DEF Inv
    <3>2. file[l] \in State /\ ep[p] \in Epochs /\ slot[p] \in Nat
      BY DEF Inv, TypeOK
    <3> QED BY <3>1, <3>2, BoundAssumption DEF State, Epochs
  <2> QED BY <1>1, <1>2, <2>1, <2>2 DEF Spent, Ledger!Earlier, SaveOK
<1>7. GrantsSurviveCrash'
  <2> SUFFICES ASSUME NEW i \in DOMAIN log, NEW t \in disk'[log[i].leaf]
               PROVE  Spent(log[i], t)
    BY <1>1 DEF GrantsSurviveCrash, Spent, Ledger!Earlier
  <2>1. log[i].leaf \in Leaves
    BY EntryType DEF Inv
  <2>2. CASE t \in disk[log[i].leaf]
    BY <2>2 DEF Inv, GrantsSurviveCrash
  <2>3. CASE log[i].leaf = l /\ t = s
    <3>1. Ledger!Earlier(log[i].epoch, log[i].slot, ep[p], slot[p])
      BY <1>6, <2>3 DEF AllBefore
    <3>2. log[i].slot \in Int /\ slot[p] \in Int
      BY EntryType DEF Inv, TypeOK
    <3> QED BY <2>3, <3>1, <3>2 DEF Spent, Ledger!Earlier
  <2> QED BY <1>1, <2>1, <2>2, <2>3 DEF Inv, TypeOK
<1>8. (SaveOK(p) /\ SyncOK(p) /\ UnlockOK(p))'
  <2>1. pc'[p] = "sync" /\ file'[l] = s
    BY <1>1 DEF Inv, TypeOK
  <2>2. Burnt(p)'
    BY <1>1, <1>2, <1>6, <2>1 DEF Burnt, SaveOK, AllBefore, Ledger!Earlier
  <2> QED BY <1>1, <1>2, <2>1, <2>2 DEF SaveOK, SyncOK, UnlockOK
<1>9. ASSUME NEW q \in Procs, q # p
      PROVE  (SaveOK(q) /\ SyncOK(q) /\ UnlockOK(q))'
  BY <1>1, <1>2, <1>9, OthersKept DEF Inv, TypeOK
<1> QED BY <1>4, <1>5, <1>7, <1>8, <1>9 DEF Inv

\* After the directory fsync only the new cursor can survive a power loss.
LEMMA StepSync ==
    ASSUME Inv, TypeOK', NEW p \in Procs, SyncDirectory(p) PROVE Inv'
<1> USE LeafAssumption
<1> DEFINE l == LeafOf[p]
<1>1. /\ pc[p] = "sync"
      /\ disk' = [disk EXCEPT ![l] = {file[l]}]
      /\ pc' = [pc EXCEPT ![p] = "unlock"]
      /\ outcome' = [outcome EXCEPT ![p] = "slot"]
      /\ UNCHANGED <<file, lock, ep, slot, log>>
  BY DEF SyncDirectory, Leave, Mine
<1>2. InCriticalSection(p) /\ Burnt(p)
  BY <1>1 DEF InCriticalSection, InLock, Inv, SyncOK
<1>3. \A q \in Procs : InCriticalSection(q)' <=> InCriticalSection(q)
  BY <1>1, <1>2 DEF InCriticalSection, InLock, Inv, TypeOK
<1>4. LockHeld' /\ MutualExclusion'
  BY <1>1, <1>3 DEF Inv, LockHeld, MutualExclusion
<1>5. FileOnDisk'
  BY <1>1 DEF Inv, FileOnDisk, TypeOK
<1>6. GrantsSurviveCrash'
  <2> SUFFICES ASSUME NEW i \in DOMAIN log, NEW t \in disk'[log[i].leaf]
               PROVE  Spent(log[i], t)
    BY <1>1 DEF GrantsSurviveCrash, Spent, Ledger!Earlier
  <2>1. log[i].leaf \in Leaves
    BY EntryType DEF Inv
  <2>2. t \in disk[log[i].leaf]
    BY <1>1, <2>1 DEF Inv, FileOnDisk, TypeOK
  <2> QED BY <2>2 DEF Inv, GrantsSurviveCrash
<1>7. (SaveOK(p) /\ SyncOK(p) /\ UnlockOK(p))'
  <2>1. pc'[p] = "unlock" /\ disk'[l] = {file'[l]}
    BY <1>1 DEF Inv, TypeOK
  <2>2. Burnt(p)'
    BY <1>1, <1>2 DEF Burnt, AllBefore, Ledger!Earlier
  <2> QED BY <2>1, <2>2 DEF SaveOK, SyncOK, UnlockOK
<1>8. ASSUME NEW q \in Procs, q # p
      PROVE  (SaveOK(q) /\ SyncOK(q) /\ UnlockOK(q))'
  BY <1>1, <1>2, <1>8, OthersKept DEF Inv, TypeOK
<1> QED BY <1>4, <1>5, <1>6, <1>7, <1>8 DEF Inv

\* The slot reaches the caller when every surviving cursor is past it.
LEMMA StepUnlock == ASSUME Inv, TypeOK', NEW p \in Procs, Unlock(p) PROVE Inv'
<1> USE LeafAssumption
<1> DEFINE l == LeafOf[p]
           g == [leaf |-> l, epoch |-> ep[p], slot |-> slot[p]]
<1>1. /\ pc[p] = "unlock"
      /\ lock' = [lock EXCEPT ![l] = FALSE]
      /\ log' = IF outcome[p] = "slot" THEN Append(log, g) ELSE log
      /\ pc' = [pc EXCEPT ![p] = "idle"]
      /\ ep' = [ep EXCEPT ![p] = 0]
      /\ slot' = [slot EXCEPT ![p] = 0]
      /\ outcome' = [outcome EXCEPT ![p] = "none"]
      /\ UNCHANGED <<file, disk>>
  BY DEF Unlock, Return, Mine
<1>2. InCriticalSection(p)
  BY <1>1 DEF InCriticalSection, InLock
<1>3. \A q \in Procs :
        InCriticalSection(q)' => q # p /\ InCriticalSection(q)
  BY <1>1 DEF InCriticalSection, InLock, Inv, TypeOK
<1>4. LockHeld' /\ MutualExclusion'
  BY <1>1, <1>2, <1>3 DEF Inv, LockHeld, MutualExclusion, TypeOK
<1>5. FileOnDisk'
  BY <1>1 DEF Inv, FileOnDisk
<1>6. g \in Entry /\ log \in Seq(Entry)
  BY DEF Inv, TypeOK, Entry
<1>7. \A i \in DOMAIN log' :
        \/ i \in DOMAIN log /\ log'[i] = log[i]
        \/ outcome[p] = "slot" /\ log'[i] = g
  <2> HIDE DEF g
  <2>1. CASE outcome[p] = "slot"
    <3>1. log' = Append(log, g)
      BY <1>1, <2>1
    <3>2. /\ DOMAIN Append(log, g) = DOMAIN log \cup {Len(log) + 1}
          /\ Append(log, g)[Len(log) + 1] = g
          /\ \A i \in DOMAIN log : Append(log, g)[i] = log[i]
      BY <1>6
    <3> QED BY <2>1, <3>1, <3>2, Zenon
  <2>2. CASE outcome[p] # "slot"
    BY <1>1, <2>2
  <2> QED BY <2>1, <2>2
<1>8. GrantsSurviveCrash'
  <2> SUFFICES ASSUME NEW i \in DOMAIN log', NEW t \in disk[log'[i].leaf]
               PROVE  Spent(log'[i], t)
    BY <1>1 DEF GrantsSurviveCrash, Spent, Ledger!Earlier
  <2>1. CASE i \in DOMAIN log /\ log'[i] = log[i]
    BY <2>1 DEF Inv, GrantsSurviveCrash
  <2>2. CASE outcome[p] = "slot" /\ log'[i] = g
    <3>0. log'[i].leaf = l
      BY <2>2
    <3>1. t = [epoch |-> ep[p], nextSlot |-> slot[p] + 1]
      BY <2>2, <3>0 DEF Inv, UnlockOK, Burnt
    <3>2. slot[p] \in Int
      BY DEF Inv, TypeOK
    <3> QED BY <2>2, <3>1, <3>2 DEF Spent, Ledger!Earlier
  <2> QED BY <1>7, <2>1, <2>2
<1>9. (SaveOK(p) /\ SyncOK(p) /\ UnlockOK(p))'
  BY <1>1 DEF SaveOK, SyncOK, UnlockOK, Inv, TypeOK
<1>10. ASSUME NEW q \in Procs, q # p
       PROVE  (SaveOK(q) /\ SyncOK(q) /\ UnlockOK(q))'
  <2>1. \A i \in DOMAIN log' :
          log'[i].leaf # LeafOf[p] => i \in DOMAIN log /\ log'[i] = log[i]
    BY <1>7
  <2> QED BY <1>1, <1>2, <1>10, <2>1, OthersKept DEF Inv, TypeOK
<1> QED BY <1>4, <1>5, <1>8, <1>9, <1>10 DEF Inv

\* A lock removed by hand is one that no process in the critical section holds.
LEMMA StepClearStaleLock ==
    ASSUME Inv, TypeOK', NEW l \in Leaves, ClearStaleLock(l) PROVE Inv'
<1> USE LeafAssumption DEF Inv
<1>1. /\ lock' = [lock EXCEPT ![l] = FALSE]
      /\ \A p \in Procs : LeafOf[p] = l => ~InCriticalSection(p)
      /\ UNCHANGED <<file, disk, pc, ep, slot, outcome, log>>
  BY DEF ClearStaleLock
<1>2. LockHeld' /\ MutualExclusion'
  BY <1>1 DEF LockHeld, MutualExclusion, InCriticalSection, TypeOK
<1>3. FileOnDisk' /\ GrantsSurviveCrash'
  BY <1>1 DEF FileOnDisk, GrantsSurviveCrash, Spent, Ledger!Earlier
<1>4. \A q \in Procs : (SaveOK(q) /\ SyncOK(q) /\ UnlockOK(q))'
  BY <1>1 DEF SaveOK, SyncOK, UnlockOK, Burnt, AllBefore, Ledger!Earlier
<1> QED BY <1>2, <1>3, <1>4

\* Whichever cursor survives a power loss is past every slot returned.
LEMMA StepPowerLoss == ASSUME Inv, TypeOK', PowerLoss PROVE Inv'
<1> USE LeafAssumption
<1>1. \A p \in Procs : pc'[p] = "idle" /\ outcome'[p] = "none"
  BY DEF PowerLoss
<1>2. \A l \in Leaves : file'[l] \in disk[l] /\ disk'[l] = {file'[l]}
  BY DEF PowerLoss
<1>3. log' = log
  BY DEF PowerLoss
<1>4. LockHeld' /\ MutualExclusion'
  BY <1>1 DEF LockHeld, MutualExclusion, InCriticalSection, InLock
<1>5. FileOnDisk'
  BY <1>2 DEF FileOnDisk
<1>6. GrantsSurviveCrash'
  <2> SUFFICES ASSUME NEW i \in DOMAIN log, NEW t \in disk'[log[i].leaf]
               PROVE  Spent(log[i], t)
    BY <1>3 DEF GrantsSurviveCrash, Spent, Ledger!Earlier
  <2>1. log[i].leaf \in Leaves
    BY EntryType DEF Inv
  <2>2. t \in disk[log[i].leaf]
    BY <1>2, <2>1
  <2> QED BY <2>2 DEF Inv, GrantsSurviveCrash
<1>7. \A q \in Procs : (SaveOK(q) /\ SyncOK(q) /\ UnlockOK(q))'
  BY <1>1 DEF SaveOK, SyncOK, UnlockOK
<1> QED BY <1>4, <1>5, <1>6, <1>7 DEF Inv

\* The clock moves no file and no caller.
LEMMA StepClock ==
    ASSUME Inv, TypeOK',
           UNCHANGED <<file, disk, lock, pc, ep, slot, outcome, log>>
    PROVE  Inv'
<1>1. LockHeld' /\ MutualExclusion'
  BY DEF Inv, LockHeld, MutualExclusion, InCriticalSection
<1>2. FileOnDisk' /\ GrantsSurviveCrash'
  BY DEF Inv, FileOnDisk, GrantsSurviveCrash, Spent, Ledger!Earlier
<1>3. \A q \in Procs : (SaveOK(q) /\ SyncOK(q) /\ UnlockOK(q))'
  BY DEF Inv, SaveOK, SyncOK, UnlockOK, Burnt, AllBefore, Ledger!Earlier
<1> QED BY <1>1, <1>2, <1>3 DEF Inv

\* Every step preserves the invariant.
LEMMA InvStep == Inv /\ [Next]_vars => Inv'
<1> SUFFICES ASSUME Inv, [Next]_vars PROVE Inv'
  OBVIOUS
<1>0. TypeOK'
  BY TypeStep DEF Inv
<1>1. ASSUME NEW p \in Procs, Start(p) PROVE Inv'
  BY <1>0, <1>1, StepStart
<1>2. ASSUME NEW p \in Procs, Acquire(p) PROVE Inv'
  BY <1>0, <1>2, StepAcquire
<1>3. ASSUME NEW p \in Procs, LockFails(p) \/ UnlockFails(p) \/ Crash(p)
      PROVE  Inv'
  BY <1>0, <1>3, StepReturn DEF LockFails, UnlockFails, Crash
<1>4. ASSUME NEW p \in Procs, Refuse(p) \/ SaveFails(p) PROVE Inv'
  <2>1. InCriticalSection(p)
    BY <1>4 DEF Refuse, SaveFails, InCriticalSection, InLock
  <2>2. PICK r \in {"exhausted", "error"} : Leave(p, r)
    BY <1>4 DEF Refuse, SaveFails
  <2>3. UNCHANGED <<file, disk, lock, ep, slot, log>>
    BY <1>4 DEF Refuse, SaveFails
  <2> QED BY <1>0, <2>1, <2>2, <2>3, StepLeave
<1>5. ASSUME NEW p \in Procs, Choose(p) PROVE Inv'
  BY <1>0, <1>5, StepChoose
<1>6. ASSUME NEW p \in Procs, Rename(p) PROVE Inv'
  BY <1>0, <1>6, StepRename
<1>7. ASSUME NEW p \in Procs, SyncDirectory(p) PROVE Inv'
  BY <1>0, <1>7, StepSync
<1>8. ASSUME NEW p \in Procs, Unlock(p) PROVE Inv'
  BY <1>0, <1>8, StepUnlock
<1>9. ASSUME NEW l \in Leaves, ClearStaleLock(l) PROVE Inv'
  BY <1>0, <1>9, StepClearStaleLock
<1>10. CASE PowerLoss
  BY <1>0, <1>10, StepPowerLoss
<1>11. CASE Tick \/ UNCHANGED vars
  BY <1>0, <1>11, StepClock DEF Tick, vars
<1> QED
  BY <1>1, <1>2, <1>3, <1>4, <1>5, <1>6, <1>7, <1>8, <1>9, <1>10, <1>11
  DEF Next, CallStep

\* The invariant holds of every reachable state.
LEMMA Invariance == Spec => []Inv
BY InvInit, InvStep, PTL DEF Spec

\* No state a kill or a power loss can leave on the disk would hand out again
\* a slot that allocatePersistentSlot() has returned.
THEOREM GrantsSafe == Spec => []GrantsSurviveCrash
<1>1. Inv => GrantsSurviveCrash
  BY DEF Inv
<1> QED BY Invariance, <1>1, PTL

-----------------------------------------------------------------------------
(* The refinement.                                                         *)

\* Every step of the allocator is a step, or a stutter, of the ledger of slots.
LEMMA LedgerStep == Inv /\ Inv' /\ [Next]_vars => [Ledger!LedgerNext]_log
<1> SUFFICES ASSUME Inv, Inv', [Next]_vars, log' # log
             PROVE  Ledger!LedgerNext
  OBVIOUS
<1>1. PICK p \in Procs : Unlock(p) /\ outcome[p] = "slot"
  BY DEF Next, CallStep, Start, Acquire, LockFails, Refuse, Choose, Rename,
         SyncDirectory, SaveFails, Unlock, UnlockFails, Crash, ClearStaleLock,
         PowerLoss, Tick, vars
<1> DEFINE g == [leaf |-> LeafOf[p], epoch |-> ep[p], slot |-> slot[p]]
<1>2. log' = Append(log, g)
  BY <1>1 DEF Unlock, Mine
<1>3. Burnt(p)
  BY <1>1 DEF Inv, UnlockOK
<1>4. g \in Entry /\ log \in Seq(Entry)
  BY LeafAssumption DEF Inv, TypeOK, Entry
<1>5. g \in Ledger!Grant
  BY <1>4, BoundAssumption DEF Entry, Epochs, Ledger!Grant
<1>6. Ledger!HandOut(g)
  <2>1. g.slot < Limit[g.leaf]
    BY <1>3 DEF Burnt
  <2>2. \A i \in DOMAIN log :
          log[i].leaf = g.leaf =>
            Ledger!Earlier(log[i].epoch, log[i].slot, g.epoch, g.slot)
    BY <1>3 DEF Burnt, AllBefore
  <2> QED BY <1>2, <2>1, <2>2 DEF Ledger!HandOut
<1>7. Len(log') = Len(log) + 1 /\ log'[Len(log')] = g
  <2> HIDE DEF g
  <2> QED BY <1>2, <1>4
<1> QED BY <1>5, <1>6, <1>7 DEF Ledger!LedgerNext

\* allocatePersistentSlot() implements the ledger: whatever the interleaving
\* of processes, kills, power losses, failures and clock steps, the slots of a
\* leaf are returned in strictly increasing order and below its limit.
THEOREM Refinement == Spec => ImplementsLedger
<1>1. Init => Ledger!LedgerInit
  BY DEF Init, Ledger!LedgerInit
<1> QED BY Invariance, <1>1, LedgerStep, PTL
        DEF Spec, ImplementsLedger, Ledger!LedgerSpec

-----------------------------------------------------------------------------
(* The tunnel client.                                                      *)

Places == {"idle", "source", "proving", "dial", "gate", "open", "egress", "over"}

TunnelTypes ==
    /\ epoch \in PoolEpochs
    /\ used \in [PoolEpochs -> Nat]
    /\ reserved \in [Calls -> PoolEpochs \X Nat]
    /\ at \in [Calls -> Places]
    /\ fetch \in [Calls -> {"running", "failed", "done"}]
    /\ DOMAIN open = Calls
    /\ offered \in SUBSET ((PoolEpochs \X Nat) \X Calls)

\* A slot that was handed out.
Taken(n) == n[2] < used[n[1]]

Reserved ==
    /\ \A c \in Calls : at[c] = "proving" =>
          /\ Taken(reserved[c])
          /\ \A p \in offered : p[1] # reserved[c]
    /\ \A c, d \in Calls : at[c] = "proving" /\ at[d] = "proving" /\ c # d => reserved[c] # reserved[d]

SpentSlots ==
    /\ \A p \in offered : Taken(p[1])
    /\ NullifiersUnique

OwnedSockets ==
    \A c \in Calls :
        /\ at[c] \notin {"gate", "open", "egress"} => open[c] = {}
        /\ at[c] = "egress" => fetch[c] = "running"
        /\ \A g, h \in open[c] : g = h

TunnelInv == TunnelTypes /\ Reserved /\ SpentSlots /\ OwnedSockets

-----------------------------------------------------------------------------
(* Reservations.                                                           *)

\* What is assumed of the constants.
LEMMA TunnelFacts ==
    ASSUME TunnelConstants
    PROVE  Slots \in Nat /\ LastEpoch \in Nat /\ PoolEpochs \subseteq Nat /\ 0 \in PoolEpochs
BY DEF TunnelConstants, PoolEpochs

\* A reservation takes the next slot, which no other call has.
LEMMA ReserveStep ==
    ASSUME TunnelConstants, TunnelInv, NEW c \in Calls, NEW order, Reserve(c, order)
    PROVE  TunnelInv'
<1> DEFINE n == <<epoch, used[epoch]>>
<1>0. /\ TunnelTypes /\ Reserved /\ SpentSlots /\ OwnedSockets /\ at[c] = "source"
      /\ used' = [used EXCEPT ![epoch] = @ + 1] /\ reserved' = [reserved EXCEPT ![c] = n]
      /\ at' = [at EXCEPT ![c] = "proving"]
      /\ UNCHANGED <<epoch, open, fetch, offered>>
  BY DEF TunnelInv, Reserve, NextSlot, Goto
<1>1. n \in PoolEpochs \X Nat /\ n[1] = epoch /\ n[2] = used[epoch]
  BY <1>0 DEF TunnelTypes
<1>2. TunnelTypes'
  BY <1>0, <1>1 DEF TunnelTypes, Places
<1>3. \A m \in PoolEpochs \X Nat : Taken(m) => m # n /\ Taken(m)'
  <2>1. \A e \in PoolEpochs : used[e] \in Nat /\ used'[e] = IF e = epoch THEN used[e] + 1 ELSE used[e]
    BY <1>0 DEF TunnelTypes
  <2>2. \A m \in PoolEpochs \X Nat : m[1] \in PoolEpochs /\ m[2] \in Nat
    OBVIOUS
  <2> QED
    BY <1>1, <2>1, <2>2 DEF Taken
<1>4. n[2] < used'[n[1]]
  BY <1>0, <1>1 DEF TunnelTypes
<1> HIDE DEF n
<1>5. /\ \A d \in Calls : reserved[d] \in PoolEpochs \X Nat
      /\ reserved'[c] = n /\ \A d \in Calls : d # c => reserved'[d] = reserved[d]
      /\ \A p \in offered : p[1] \in PoolEpochs \X Nat
      /\ at'[c] = "proving" /\ \A d \in Calls : d # c => at'[d] = at[d]
  BY <1>0 DEF TunnelTypes
<1>6. Reserved'
  BY <1>0, <1>3, <1>4, <1>5 DEF Reserved, SpentSlots, Taken
<1>7. SpentSlots'
  BY <1>0, <1>3, <1>5 DEF SpentSlots, NullifiersUnique
<1>8. OwnedSockets'
  BY <1>0, <1>5 DEF OwnedSockets
<1> QED
  BY <1>2, <1>6, <1>7, <1>8 DEF TunnelInv

\* The proof made is for the slot reserved.
LEMMA ProveStep ==
    ASSUME TunnelInv, NEW c \in Calls, Prove(c)
    PROVE  TunnelInv'
<1> DEFINE p == <<reserved[c], c>>
<1>0. /\ TunnelTypes /\ Reserved /\ SpentSlots /\ OwnedSockets /\ at[c] = "proving"
      /\ at' = [at EXCEPT ![c] = "dial"] /\ offered' = offered \cup {p}
      /\ UNCHANGED <<epoch, used, reserved, open, fetch>>
  BY DEF TunnelInv, Prove, Goto, Nullifier, poolVars
<1>1. /\ at'[c] = "dial" /\ \A d \in Calls : d # c => at'[d] = at[d]
  BY <1>0 DEF TunnelTypes
<1>2. p[1] = reserved[c] /\ p \in (PoolEpochs \X Nat) \X Calls
  BY <1>0 DEF TunnelTypes
<1>3. TunnelTypes'
  BY <1>0, <1>2 DEF TunnelTypes, Places
<1> HIDE DEF p
<1>4. Reserved'
  BY <1>0, <1>1, <1>2 DEF Reserved, Taken
<1>5. SpentSlots'
  BY <1>0, <1>2 DEF SpentSlots, Reserved, Taken, NullifiersUnique
<1>6. OwnedSockets'
  BY <1>0, <1>1 DEF OwnedSockets
<1> QED
  BY <1>3, <1>4, <1>5, <1>6 DEF TunnelInv

\* A step that reserves nothing and makes no proof.
LEMMA SlotsKept ==
    ASSUME TunnelInv, UNCHANGED <<used, reserved, offered>>,
           \A c \in Calls : at'[c] = "proving" => at[c] = "proving"
    PROVE  Reserved' /\ SpentSlots'
BY DEF TunnelInv, Reserved, SpentSlots, Taken, NullifiersUnique

-----------------------------------------------------------------------------
(* Sockets.                                                                *)

\* The other steps of a call.
Others(c) ==
    \/ Begin(c) \/ (\E order \in Orders : Refused(c, order)) \/ ProveFails(c) \/ Dialed(c) \/ NoneLeft(c)
    \/ AckOk(c) \/ FailOver(c) \/ AckTerminal(c) \/ Returned(c)
    \/ Deadline(c) \/ Response(c)

\* They reserve nothing, make no proof and keep what they hold.
LEMMA OtherStep ==
    ASSUME TunnelInv, NEW c \in Calls, Others(c)
    PROVE  TunnelInv'
<1>0. TunnelTypes /\ OwnedSockets
  BY DEF TunnelInv
<1>1. UNCHANGED <<epoch, used, reserved, offered>>
  BY DEF Others, Begin, Refused, ProveFails, Dialed, NoneLeft, AckOk, FailOver, AckTerminal, Returned,
         Deadline, Response, poolVars
<1> USE DEF TunnelTypes, OwnedSockets, Places, Goto, Throw, Close
<1>2. /\ at' \in [Calls -> Places] /\ fetch' \in [Calls -> {"running", "failed", "done"}]
      /\ DOMAIN open' = Calls /\ OwnedSockets'
      /\ \A d \in Calls : at'[d] = "proving" => at[d] = "proving"
  <2>1. CASE Begin(c)
    BY <1>0, <2>1 DEF Begin
  <2>2. CASE \E order \in Orders : Refused(c, order)
    BY <1>0, <2>2 DEF Refused
  <2>3. CASE ProveFails(c)
    BY <1>0, <2>3 DEF ProveFails
  <2>4. CASE Dialed(c)
    <3>1. CASE at' = [at EXCEPT ![c] = "gate"] /\ open' = [open EXCEPT ![c] = {left[c][1]}]
      BY <1>0, <2>4, <3>1 DEF Dialed
    <3>2. CASE UNCHANGED <<at, open>>
      BY <1>0, <2>4, <3>2 DEF Dialed
    <3> QED
      BY <2>4, <3>1, <3>2 DEF Dialed
  <2>5. CASE NoneLeft(c)
    BY <1>0, <2>5 DEF NoneLeft
  <2>6. CASE AckOk(c)
    BY <1>0, <2>6 DEF AckOk
  <2>7. CASE FailOver(c)
    BY <1>0, <2>7 DEF FailOver
  <2>8. CASE AckTerminal(c)
    BY <1>0, <2>8 DEF AckTerminal
  <2>9. CASE Returned(c)
    <3>1. CASE Goto(c, "egress") /\ UNCHANGED open
      BY <1>0, <2>9, <3>1 DEF Returned
    <3>2. CASE Goto(c, "over") /\ Close(c)
      BY <1>0, <2>9, <3>2 DEF Returned
    <3> QED
      BY <2>9, <3>1, <3>2 DEF Returned
  <2>10. CASE Deadline(c)
    BY <1>0, <2>10 DEF Deadline
  <2>11. CASE Response(c)
    BY <1>0, <2>11 DEF Response
  <2> QED
    BY <2>1, <2>2, <2>3, <2>4, <2>5, <2>6, <2>7, <2>8, <2>9, <2>10, <2>11 DEF Others
<1> QED
  BY <1>0, <1>1, <1>2, SlotsKept DEF TunnelInv

-----------------------------------------------------------------------------
(* The invariant.                                                          *)

\* No call is made yet.
LEMMA InitIInv ==
    ASSUME TunnelConstants, TunnelInit
    PROVE  TunnelInv
BY TunnelFacts DEF TunnelInit, TunnelInv, TunnelTypes, Places, Reserved, SpentSlots, OwnedSockets, NullifiersUnique

\* Every step keeps the invariant.
LEMMA NextIInv ==
    ASSUME TunnelConstants, TunnelInv, [TunnelNext]_tunnelVars
    PROVE  TunnelInv'
<1>1. CASE NewEpoch
  <2>1. epoch' \in PoolEpochs /\ UNCHANGED <<used, reserved, at, fetch, open, offered>>
    BY <1>1, TunnelFacts DEF NewEpoch, callVars, TunnelInv, TunnelTypes, PoolEpochs
  <2> QED
    BY <2>1, SlotsKept DEF TunnelInv, TunnelTypes, OwnedSockets
<1>2. CASE \E e \in PoolEpochs : Loaded(e)
  <2>1. UNCHANGED <<epoch, used, reserved, at, fetch, open, offered>>
    BY <1>2 DEF Loaded, callVars
  <2> QED
    BY <2>1, SlotsKept DEF TunnelInv, TunnelTypes, OwnedSockets
<1>3. ASSUME NEW c \in Calls, Begin(c) \/ Step(c) \/ Deadline(c) \/ Response(c)
      PROVE  TunnelInv'
  BY <1>3, ReserveStep, ProveStep, OtherStep DEF Step, Others
<1>4. CASE UNCHANGED tunnelVars
  <2>1. UNCHANGED <<epoch, used, reserved, at, fetch, open, offered>>
    BY <1>4 DEF tunnelVars, poolVars, callVars
  <2> QED
    BY <2>1, SlotsKept DEF TunnelInv, TunnelTypes, OwnedSockets
<1> QED
  BY <1>1, <1>2, <1>3, <1>4 DEF TunnelNext

\* The client keeps the invariant.
THEOREM TunnelInvariant ==
    ASSUME TunnelConstants
    PROVE  TunnelSpec => []TunnelInv
<1>1. TunnelInit => TunnelInv
  BY InitIInv
<1>2. TunnelInv /\ [TunnelNext]_tunnelVars => TunnelInv'
  BY NextIInv
<1> QED
  BY <1>1, <1>2, PTL DEF TunnelSpec

\* NullifiersUnique: whatever calls run at once, and however the epoch rolls over
\* under them, no two envelopes have the same epoch and slot.
THEOREM NullifiersNeverRepeat ==
    ASSUME TunnelConstants
    PROVE  TunnelSpec => []NullifiersUnique
<1>1. TunnelInv => NullifiersUnique
  BY DEF TunnelInv, SpentSlots
<1> QED
  BY <1>1, TunnelInvariant, PTL

\* NoSocketLeaks: no order of failover, deadline and late acknowledgement leaves a
\* call with two sockets, or with one that nobody is bound to close.
THEOREM NoSocketIsLeaked ==
    ASSUME TunnelConstants
    PROVE  TunnelSpec => []NoSocketLeaks
<1>1. ASSUME TunnelInv PROVE NoSocketLeaks
  <2>1. ASSUME NEW c \in Calls PROVE Cardinality(open[c]) <= 1
    <3>1. CASE open[c] = {}
      BY <3>1, FS_EmptySet
    <3>2. CASE open[c] # {}
      <4>1. PICK g : g \in open[c]
        BY <3>2
      <4>2. open[c] = {g}
        BY <1>1, <4>1 DEF TunnelInv, OwnedSockets
      <4>3. Cardinality(open[c]) = 1
        BY <4>2, FS_Singleton
      <4> QED
        BY <4>3
    <3> QED
      BY <3>1, <3>2
  <2> QED
    BY <1>1, <2>1 DEF NoSocketLeaks, TunnelInv, OwnedSockets
<1> QED
  BY <1>1, TunnelInvariant, PTL
=============================================================================
