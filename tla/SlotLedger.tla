----------------------------- MODULE SlotLedger -----------------------------
(***************************************************************************)
(* What the RLN slot allocator promises its callers, independently of the  *)
(* lock directory, the state file and the crashes behind it: the slots of  *)
(* one member leaf are handed out in strictly increasing (epoch, slot)     *)
(* order and never beyond the leaf's limit.  A slot is therefore never     *)
(* handed out twice, which is what keeps an honest member from producing   *)
(* two signals under one nullifier.                                        *)
(***************************************************************************)
EXTENDS Integers, Sequences

CONSTANTS
    Leaves,     \* the member's public rate-commitment leaves
    Limit       \* Limit[l]: the message limit the leaf commits to

VARIABLE log    \* the slots handed out so far, oldest first

Grant == [leaf : Leaves, epoch : Nat, slot : Nat]

\* Lexicographic order on (epoch, slot).
Earlier(e1, s1, e2, s2) == e1 < e2 \/ (e1 = e2 /\ s1 < s2)

LedgerInit == log = << >>

HandOut(g) ==
    /\ g.slot < Limit[g.leaf]
    /\ \A i \in DOMAIN log :
          log[i].leaf = g.leaf =>
            Earlier(log[i].epoch, log[i].slot, g.epoch, g.slot)
    /\ log' = Append(log, g)

\* The slot handed out by a step is the one the log ends with after it.
LedgerNext ==
    /\ Len(log') = Len(log) + 1
    /\ log'[Len(log')] \in Grant
    /\ HandOut(log'[Len(log')])

LedgerSpec == LedgerInit /\ [][LedgerNext]_log
=============================================================================
