----------------------------- MODULE SlotState ------------------------------
(***************************************************************************)
(* client/slot-state.mjs: crash-safe allocation of RLN message slots that  *)
(* several client processes (Proxy, SDK, the Rust client) share through a  *)
(* state file and a lock directory, both named after the member's public   *)
(* leaf.  One process runs allocatePersistentSlot() synchronously, so the  *)
(* interleaving is between processes; each file system call is a step, and *)
(* a process may be killed, or the machine lose power, between two calls.  *)
(***************************************************************************)
EXTENDS Integers, Sequences, FiniteSets

CONSTANTS
    Procs,      \* client processes of one member
    Leaves,     \* the rate-commitment leaves of that member's secret
    LeafOf,     \* LeafOf[p]: the leaf process p proves with (its path())
    Limit,      \* Limit[l]: the message limit bound into the leaf
    MaxEpoch,   \* bound: last epoch the clock shows
    MaxGrants   \* bound: slots handed out in a behaviour

ASSUME LeafAssumption == LeafOf \in [Procs -> Leaves]
ASSUME LimitAssumption == Limit \in [Leaves -> Nat \ {0}]
ASSUME BoundAssumption == MaxEpoch \in Nat /\ MaxGrants \in Nat

VARIABLES
    clock,      \* epoch shown by the wall clock (epochOf())
    file,       \* file[l]: the state a reader of the path sees now
    disk,       \* disk[l]: the states the path may hold after a power loss
    lock,       \* lock[l]: the lock directory exists
    pc,         \* where each process is in allocatePersistentSlot()
    ep,         \* epoch each process sampled before it asked for the lock
    slot,       \* slot each process is about to burn
    outcome,    \* what each process will report once the lock is released
    log         \* every slot returned to a caller, oldest first

vars == <<clock, file, disk, lock, pc, ep, slot, outcome, log>>

Epochs == 0..MaxEpoch

State == [epoch : Int, nextSlot : Nat]

\* "Missing state is the one valid fresh-start case": it behaves like a state
\* of an epoch before every epoch.
NoState == [epoch |-> -1, nextSlot |-> 0]

\* A slot returned to a caller.
Entry == [leaf : Leaves, epoch : Epochs, slot : Nat]

InLock == {"load", "save", "sync", "unlock"}

InCriticalSection(p) == pc[p] \in InLock

Mine(p) == LeafOf[p]

Init ==
    /\ clock = 0
    /\ file = [l \in Leaves |-> NoState]
    /\ disk = [l \in Leaves |-> {NoState}]
    /\ lock = [l \in Leaves |-> FALSE]
    /\ pc = [p \in Procs |-> "idle"]
    /\ ep = [p \in Procs |-> 0]
    /\ slot = [p \in Procs |-> 0]
    /\ outcome = [p \in Procs |-> "none"]
    /\ log = << >>

-----------------------------------------------------------------------------
(* The steps of allocatePersistentSlot().                                  *)

\* The call ends, with a result or an exception: its locals are gone.
Return(p) ==
    /\ pc' = [pc EXCEPT ![p] = "idle"]
    /\ ep' = [ep EXCEPT ![p] = 0]
    /\ slot' = [slot EXCEPT ![p] = 0]
    /\ outcome' = [outcome EXCEPT ![p] = "none"]

\* nextSlot() samples the epoch, then asks for the lock.
Start(p) ==
    /\ pc[p] = "idle"
    /\ Len(log) < MaxGrants
    /\ pc' = [pc EXCEPT ![p] = "lock"]
    /\ ep' = [ep EXCEPT ![p] = clock]
    /\ UNCHANGED <<clock, file, disk, lock, slot, outcome, log>>

\* mkdir succeeds: this process owns the lock directory.
Acquire(p) ==
    /\ pc[p] = "lock"
    /\ ~lock[Mine(p)]
    /\ lock' = [lock EXCEPT ![Mine(p)] = TRUE]
    /\ pc' = [pc EXCEPT ![p] = "load"]
    /\ UNCHANGED <<clock, file, disk, ep, slot, outcome, log>>

\* Mutant: the wait for an existing lock directory has no deadline.
LockFailsWithoutDeadline(p) ==
    /\ pc[p] = "lock"
    /\ ~lock[Mine(p)]
    /\ Return(p)
    /\ UNCHANGED <<clock, file, disk, lock, log>>

\* EEXIST at or past the deadline (SLOT_STATE_LOCKED), or mkdir fails for
\* another reason (SLOT_STATE_UNAVAILABLE): the call throws.
LockFails(p) ==
    /\ pc[p] = "lock"
    /\ Return(p)
    /\ UNCHANGED <<clock, file, disk, lock, log>>

\* The slot a process of epoch e takes next, given the state it has read.
NextSlotOf(s, e) == IF s.epoch < e THEN 0 ELSE s.nextSlot

\* Leave the critical section with a result but without a new slot.
Leave(p, result) ==
    /\ pc' = [pc EXCEPT ![p] = "unlock"]
    /\ outcome' = [outcome EXCEPT ![p] = result]

\* loadState() and the checks on what it read: a file that cannot be read or
\* parsed, an epoch rollback and a cursor beyond the limit are errors, a
\* cursor at the limit is an exhausted budget.
Refuse(p) ==
    LET s    == file[Mine(p)]
        next == NextSlotOf(s, ep[p])
    IN  /\ pc[p] = "load"
        /\ \/ Leave(p, "error")
           \/ /\ s.epoch <= ep[p]
              /\ next = Limit[Mine(p)]
              /\ Leave(p, "exhausted")
        /\ UNCHANGED <<clock, file, disk, lock, ep, slot, log>>

\* Mutant: an epoch rollback is not refused.
ChooseAfterRollback(p) ==
    LET next == NextSlotOf(file[Mine(p)], ep[p])
    IN  /\ pc[p] = "load"
        /\ next < Limit[Mine(p)]
        /\ slot' = [slot EXCEPT ![p] = next]
        /\ pc' = [pc EXCEPT ![p] = "save"]
        /\ UNCHANGED <<clock, file, disk, lock, ep, outcome, log>>

\* The same checks pass: the next slot is chosen and will be burnt.
Choose(p) ==
    LET s    == file[Mine(p)]
        next == NextSlotOf(s, ep[p])
    IN  /\ pc[p] = "load"
        /\ s.epoch <= ep[p]
        /\ next < Limit[Mine(p)]
        /\ slot' = [slot EXCEPT ![p] = next]
        /\ pc' = [pc EXCEPT ![p] = "save"]
        /\ UNCHANGED <<clock, file, disk, lock, ep, outcome, log>>

\* saveState(): the temporary file is written and fsynced, then renamed over
\* the path.  The rename is visible at once; whether it survives a power loss
\* is open until the parent directory is fsynced.
Rename(p) ==
    LET s == [epoch |-> ep[p], nextSlot |-> slot[p] + 1]
    IN  /\ pc[p] = "save"
        /\ file' = [file EXCEPT ![Mine(p)] = s]
        /\ disk' = [disk EXCEPT ![Mine(p)] = @ \cup {s}]
        /\ pc' = [pc EXCEPT ![p] = "sync"]
        /\ UNCHANGED <<clock, lock, ep, slot, outcome, log>>

\* Mutant: the parent directory is not fsynced before the slot is returned.
SyncDirectorySkipped(p) ==
    /\ pc[p] = "sync"
    /\ Leave(p, "slot")
    /\ UNCHANGED <<clock, file, disk, lock, ep, slot, log>>

\* syncDirectory(): only now may the slot be returned.
SyncDirectory(p) ==
    /\ pc[p] = "sync"
    /\ disk' = [disk EXCEPT ![Mine(p)] = {file[Mine(p)]}]
    /\ Leave(p, "slot")
    /\ UNCHANGED <<clock, file, lock, ep, slot, log>>

\* Any file system call of saveState() may fail, before or after the rename:
\* the slot is not returned, whether or not the cursor has moved.
SaveFails(p) ==
    /\ pc[p] \in {"save", "sync"}
    /\ Leave(p, "error")
    /\ UNCHANGED <<clock, file, disk, lock, ep, slot, log>>

\* rmdir of the lock directory, then the result reaches the caller.
Unlock(p) ==
    /\ pc[p] = "unlock"
    /\ lock' = [lock EXCEPT ![Mine(p)] = FALSE]
    /\ log' = IF outcome[p] = "slot"
              THEN Append(log, [leaf |-> Mine(p), epoch |-> ep[p], slot |-> slot[p]])
              ELSE log
    /\ Return(p)
    /\ UNCHANGED <<clock, file, disk>>

\* rmdir fails: the caller gets an error and the lock directory stays.
UnlockFails(p) ==
    /\ pc[p] = "unlock"
    /\ Return(p)
    /\ UNCHANGED <<clock, file, disk, lock, log>>

-----------------------------------------------------------------------------
(* The environment.                                                        *)

\* The process is killed; what it did to the file system stays, the lock
\* directory included.
Crash(p) ==
    /\ pc[p] # "idle"
    /\ Return(p)
    /\ UNCHANGED <<clock, file, disk, lock, log>>

\* The machine loses power: every process ends, each path falls back to one
\* of the states that may have reached the disk, and a lock directory, whose
\* creation is never fsynced, may be gone.
PowerLoss ==
    /\ pc' = [p \in Procs |-> "idle"]
    /\ ep' = [p \in Procs |-> 0]
    /\ slot' = [p \in Procs |-> 0]
    /\ outcome' = [p \in Procs |-> "none"]
    /\ \E survivor \in [Leaves -> UNION {disk[l] : l \in Leaves}] :
          /\ \A l \in Leaves : survivor[l] \in disk[l]
          /\ file' = survivor
          /\ disk' = [l \in Leaves |-> {survivor[l]}]
    /\ \E kept \in SUBSET Leaves :
          lock' = [l \in Leaves |-> lock[l] /\ l \in kept]
    /\ UNCHANGED <<clock, log>>

\* The operator removes the lock directory a dead process left behind.
ClearStaleLock(l) ==
    /\ lock[l]
    /\ \A p \in Procs : LeafOf[p] = l => ~InCriticalSection(p)
    /\ lock' = [lock EXCEPT ![l] = FALSE]
    /\ UNCHANGED <<clock, file, disk, pc, ep, slot, outcome, log>>

\* The wall clock moves, forwards or (a clock correction) backwards.
Tick ==
    /\ clock' \in Epochs \ {clock}
    /\ UNCHANGED <<file, disk, lock, pc, ep, slot, outcome, log>>

-----------------------------------------------------------------------------

\* The steps of a call once it has started.
CallStep(p) ==
    \/ Acquire(p) \/ LockFails(p) \/ Refuse(p) \/ Choose(p) \/ Rename(p)
    \/ SyncDirectory(p) \/ SaveFails(p) \/ Unlock(p) \/ UnlockFails(p)

Next ==
    \/ \E p \in Procs : Start(p) \/ CallStep(p) \/ Crash(p)
    \/ \E l \in Leaves : ClearStaleLock(l)
    \/ PowerLoss
    \/ Tick

Spec == Init /\ [][Next]_vars

\* A running process is scheduled: the call is synchronous code, and its wait
\* for the lock directory is bounded by the deadline.
Fairness == \A p \in Procs : WF_vars(CallStep(p))

FairSpec == Spec /\ Fairness

-----------------------------------------------------------------------------
(* Properties.                                                             *)

\* Types of the clock, the state files and what of them may be on the disk, the
\* locks, the callers and the slots they were given.
TypeOK ==
    /\ clock \in Epochs
    /\ file \in [Leaves -> State]
    /\ disk \in [Leaves -> SUBSET State]
    /\ lock \in [Leaves -> BOOLEAN]
    /\ pc \in [Procs -> {"idle", "lock"} \cup InLock]
    /\ ep \in [Procs -> Epochs]
    /\ slot \in [Procs -> Nat]
    /\ outcome \in [Procs -> {"none", "slot", "exhausted", "error"}]
    /\ log \in Seq(Entry)

Ledger == INSTANCE SlotLedger

\* g precedes the slot that cursor s hands out next.
Spent(g, s) == Ledger!Earlier(g.epoch, g.slot, s.epoch, s.nextSlot)

\* No file system state a crash or power loss can leave behind would hand out
\* again a slot that has already been returned to a caller: what saveState()
\* and syncDirectory() establish before allocatePersistentSlot() returns.
GrantsSurviveCrash ==
    \A i \in DOMAIN log : \A s \in disk[log[i].leaf] : Spent(log[i], s)

\* The allocator implements the ledger: slots of a leaf are returned in
\* strictly increasing order and below the limit, so none is returned twice,
\* whatever the interleaving of processes, crashes and clock steps.
ImplementsLedger == Ledger!LedgerSpec

\* One nullifier per returned slot: the RLN nullifier depends on the secret,
\* the epoch and the slot, not on the leaf's limit, so no two returned slots
\* of one secret may agree on both ("can never cause a later process to reuse
\* the same nullifier").
NullifiersDistinct ==
    \A i, j \in DOMAIN log :
        i # j => <<log[i].epoch, log[i].slot>> # <<log[j].epoch, log[j].slot>>

\* Every call of allocatePersistentSlot() ends: a stale lock directory makes
\* it fail, never hang.
CallReturns == \A p \in Procs : (pc[p] # "idle") ~> (pc[p] = "idle")
=============================================================================
