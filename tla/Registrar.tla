------------------------------ MODULE Registrar ------------------------------
(***************************************************************************)
(* payments/registrar.mjs: from a payment authorization to a leaf of the   *)
(* paid set.  A request settles the payment, waits for its receipt,        *)
(* inserts the leaf and waits again.  Requests run concurrently between    *)
(* awaits, a wait may fail at any time, the process may crash and recover  *)
(* from its order store, and the last blocks of the chain may be undone.   *)
(*                                                                         *)
(* The chain is the sequence of its blocks, each with the state after it:  *)
(* the storage of PaidAccessSet and the authorizations the token has       *)
(* burnt.  One block holds one transaction.                                *)
(***************************************************************************)
EXTENDS PaidAccessSet

CONSTANTS
    Auths,          \* authorizations: (asset, from, nonce)
    For,            \* For[a]: the commitment that authorization a is posted with
    Handlers,       \* concurrent POST /pay
    Boot,           \* recover(), which runs before the server listens
    Wallet,         \* the registrar's operator key
    Overlap,        \* may a buyer post an authorization again before the first answer?
    Confirmations,  \* SHADE_TREE_PAY_CONFIRMATIONS
    ReorgDepth,     \* blocks that may be undone
    MaxInflight,    \* SHADE_TREE_REGISTRAR_MAX_INFLIGHT
    MaxTxs,         \* bound: transactions sent
    MaxBlocks,      \* bound: length of the chain
    MaxFaults       \* bound: crashes, undone blocks, lost answers, and transactions of others

\* What the configuration guarantees of the constants.
RegistrarConstants ==
    /\ PaidConstants
    /\ For \in [Auths -> Commitments]
    /\ Boot \notin Handlers
    /\ Wallet \in Addresses
    /\ Overlap \in BOOLEAN
    /\ {Confirmations, MaxInflight} \subseteq Nat \ {0}
    /\ ReorgDepth \in Nat

VARIABLES
    orders,     \* every order object ever created, with its key
    kept,       \* kept[a]: the object stored for a (0: none), saved at each put
    inflight,   \* keys being settled or inserted
    req,        \* what each handler awaits
    todo,       \* orders that recover() has still to look at
    txs,        \* transactions the registrar broadcast
    blocks,     \* blocks after genesis
    final,      \* blocks that cannot be undone
    left        \* faults that may still happen

registrarVars == <<orders, kept, inflight, req, todo, txs, blocks, final, left>>

process == <<orders, kept, inflight, req, todo>>

world == <<txs, blocks, final>>

Resting == [at |-> "idle"]

Genesis == [tx |-> 0, ok |-> TRUE, set |-> Deployed(Wallet), used |-> {}]

RegistrarInit ==
    /\ orders = << >> /\ kept = [a \in Auths |-> 0]
    /\ inflight = {} /\ req = [r \in Handlers \cup {Boot} |-> Resting] /\ todo = {}
    /\ txs = << >> /\ blocks = << >> /\ final = 0
    /\ left = MaxFaults

-----------------------------------------------------------------------------
(* The chain.                                                              *)

Latest == IF blocks = << >> THEN Genesis ELSE blocks[Len(blocks)]

Height(t) == {i \in DOMAIN blocks : blocks[i].tx = t}

IsMined(t) == Height(t) # {}

Succeeded(t) == \E i \in Height(t) : blocks[i].ok

\* A transaction with the depth that the registrar asks for.
Confirmed(t) == \E i \in Height(t) : Len(blocks) - i + 1 >= Confirmations

\* With the wallet no longer the operator, or the leaf already live, insert()
\* reverts; transferWithAuthorization() when the nonce is burnt.
Insertable(c) == CanInsert(Latest.set, Wallet, c, TierOf[c])

Settleable(a) == a \notin Latest.used

Block(b) ==
    /\ Len(blocks) < MaxBlocks
    /\ blocks' = Append(blocks, b)
    /\ final' = IF Len(blocks) + 1 > final + ReorgDepth THEN Len(blocks) + 1 - ReorgDepth ELSE final

\* A payment may also fail because the payer's balance is gone or the
\* authorization expired.
Mine(t) ==
    /\ ~IsMined(t)
    /\ LET a == txs[t].a
           c == For[a]
       IN  \/ /\ txs[t].kind = "settle" /\ Settleable(a)
              /\ Block([tx |-> t, ok |-> TRUE, set |-> Latest.set, used |-> Latest.used \cup {a}])
           \/ /\ txs[t].kind = "insert" /\ Insertable(c)
              /\ Block([tx |-> t, ok |-> TRUE, set |-> Inserted(Latest.set, c, TierOf[c]), used |-> Latest.used])
           \/ /\ txs[t].kind = "insert" => ~Insertable(c)
              /\ Block([Latest EXCEPT !.tx = t, !.ok = FALSE])
    /\ UNCHANGED <<process, txs, left>>

\* A block without a transaction of the registrar: empty, or somebody slashes
\* a leaf or hands the role of the operator over.
MineOther ==
    /\ \/ Block([Latest EXCEPT !.tx = 0]) /\ UNCHANGED left
       \/ /\ left > 0
          /\ \/ \E c \in Commitments : CanSlash(Latest.set, c, TierOf[c])
                   /\ Block([Latest EXCEPT !.tx = 0, !.set = Slashed(Latest.set, c)])
             \/ \E to \in Addresses \ {Wallet} :
                   Block([Latest EXCEPT !.tx = 0, !.set = Accepted(Nominated(Latest.set, to))])
          /\ left' = left - 1
    /\ UNCHANGED <<process, txs>>

Reorg ==
    /\ left > 0 /\ Len(blocks) > final
    /\ blocks' = SubSeq(blocks, 1, Len(blocks) - 1)
    /\ left' = left - 1
    /\ UNCHANGED <<process, txs, final>>

-----------------------------------------------------------------------------
(* Orders.                                                                 *)

Order(r) == orders[req[r].order]

\* The object changes and is put in the store.
Put(r, change) ==
    LET o == req[r].order
    IN  /\ orders' = [orders EXCEPT ![o] = change]
        /\ kept' = [kept EXCEPT ![req[r].a] = o]

Untouched == UNCHANGED <<orders, kept>>

Goto(r, to) == req' = [req EXCEPT ![r] = to]

\* The transaction looked at so far is of no more use.
Onward(r, at) == [req[r] EXCEPT !.at = at, !.tx = 0, !.kind = "none"]

Await(r, at) == Goto(r, [req[r] EXCEPT !.at = at])

\* The handler answers, or recover() goes on to the next order.
Finish(r) ==
    /\ Goto(r, Resting)
    /\ inflight' = IF r = Boot THEN inflight ELSE inflight \ {req[r].a}
    /\ todo' = IF r = Boot THEN todo \ {req[r].a} ELSE todo

\* The answer of one that never took the key.
Answer(r) ==
    /\ Goto(r, Resting)
    /\ todo' = IF r = Boot THEN todo \ {req[r].a} ELSE todo
    /\ UNCHANGED inflight

\* insertLeaf() begins; recover() takes no key.
Take(r, a, to) ==
    /\ Goto(r, to)
    /\ inflight' = IF r = Boot THEN inflight ELSE inflight \cup {a}

Booted == todo = {} /\ req[Boot] = Resting

Busy(a) == \E r \in Handlers : req[r].at # "idle" /\ req[r].a = a

-----------------------------------------------------------------------------
(* verifyAndSettle().                                                      *)

Pending == {"settling", "inserting"}

Pursued(o) == IF orders[o].state = "settling" THEN orders[o].settleTx ELSE orders[o].insertTx

\* What a task begins with: at work on the order, or asking for its receipt.
At(at, a, o) == [at |-> at, a |-> a, order |-> o, tx |-> 0, kind |-> "none"]

Asking(a, o) ==
    [at |-> "reconcile", a |-> a, order |-> o, tx |-> Pursued(o), kind |-> orders[o].state]

\* Up to the first await.  Requests that are refused at once, or are answered
\* from a finished order, change nothing.
Post(r, a) ==
    /\ Booted
    /\ req[r] = Resting
    /\ Overlap \/ ~Busy(a)
    /\ LET o == kept[a]
           known == o # 0
       IN  \/ /\ known /\ a \notin inflight /\ orders[o].state \in Pending
              /\ Goto(r, Asking(a, o))
              /\ UNCHANGED inflight
           \/ /\ known /\ a \notin inflight /\ orders[o].state = "settled"
              /\ Take(r, a, At("limitOf", a, o))
           \/ /\ known => a \notin inflight /\ orders[o].state = "failed"
              /\ Cardinality(inflight) < MaxInflight
              /\ Goto(r, At("read", a, o))
              /\ UNCHANGED inflight
    /\ Untouched
    /\ UNCHANGED <<todo, world, left>>

\* Mutant: any receipt settles the matter.
ReceiptAny(t) == IsMined(t)

\* getTransactionReceipt() and receiptIsFinal().
ReceiptIsFinal(t) == IsMined(t) /\ Confirmed(t)

\* Mutant: a transaction that reverted fails the order, whichever it was.
ReconciledFailed(r) ==
    LET next == IF req[r].kind = "settling" THEN "settled" ELSE "inserted"
    IN  [Order(r) EXCEPT !.state = IF Succeeded(req[r].tx) THEN next ELSE "failed"]

\* What reconcilePending() makes of the order, from the state it had when the
\* receipt was asked for.
Reconciled(r) ==
    LET ok == Succeeded(req[r].tx)
    IN  [Order(r) EXCEPT !.state =
            CASE req[r].kind = "settling"  -> IF ok THEN "settled" ELSE "failed"
              [] req[r].kind = "inserting" -> IF ok THEN "inserted" ELSE "settled"]

\* The receipt arrives.  A confirmed payment goes on to the insert; a confirmed
\* failure is settled anew, but not by recover().
Reconcile(r) ==
    /\ req[r].at = "reconcile" /\ ReceiptIsFinal(req[r].tx)
    /\ Put(r, Reconciled(r))
    /\ CASE Reconciled(r).state = "settled" ->
               Take(r, req[r].a, Onward(r, "limitOf")) /\ UNCHANGED todo
         [] Reconciled(r).state = "failed" /\ r # Boot /\ Cardinality(inflight) < MaxInflight ->
               Goto(r, Onward(r, "read")) /\ UNCHANGED <<inflight, todo>>
         [] OTHER -> Answer(r)
    /\ UNCHANGED <<world, left>>

\* There is no receipt yet, or the node does not answer.
ReconcileLater(r) ==
    /\ req[r].at = "reconcile"
    /\ Answer(r)
    /\ Untouched
    /\ UNCHANGED <<world, left>>

\* The chain was read: nonce, balance and leaf.  The order object is made
\* unless one is known, and the key is taken.
ReadChain(r) ==
    /\ req[r].at = "read"
    /\ LET a == req[r].a
           fresh == req[r].order = 0
       IN  IF Settleable(a) /\ ~Live(Latest.set, For[a])
           THEN /\ orders' = IF fresh THEN Append(orders, [a |-> a, state |-> "new", settleTx |-> 0, insertTx |-> 0])
                                      ELSE orders
                /\ Take(r, a, [req[r] EXCEPT !.at = "settle", !.order = IF fresh THEN Len(orders) + 1 ELSE @])
                /\ UNCHANGED <<kept, todo>>
           ELSE Untouched /\ Answer(r)
    /\ UNCHANGED <<world, left>>

\* The payer's balance is short, or the node does not answer.
ReadFails(r) ==
    /\ req[r].at = "read"
    /\ Answer(r)
    /\ Untouched
    /\ UNCHANGED <<world, left>>

-----------------------------------------------------------------------------
(* settle() and insertLeaf().                                              *)

\* Under the lock: a simulation that succeeds, then the broadcast.
Broadcast(r, kind, next) ==
    /\ Len(txs) < MaxTxs
    /\ txs' = Append(txs, [kind |-> kind, a |-> req[r].a, known |-> FALSE])
    /\ Goto(r, [req[r] EXCEPT !.at = next, !.tx = Len(txs) + 1])
    /\ UNCHANGED <<orders, kept, inflight, todo, blocks, final, left>>

SettleSend(r) ==
    /\ req[r].at = "settle" /\ Settleable(req[r].a)
    /\ Broadcast(r, "settle", "settleSent")

\* Mutant: a settlement that fails after its broadcast is one that failed.
SettleFailedAlways(r) ==
    /\ Put(r, [Order(r) EXCEPT !.state = "failed"])
    /\ Finish(r)
    /\ UNCHANGED <<world, left>>

\* The catch around settle(): failed unless a transaction was recorded.
SettleFailed(r) ==
    /\ Put(r, [Order(r) EXCEPT !.state = IF Order(r).settleTx # 0 THEN @ ELSE "failed"])
    /\ Finish(r)
    /\ UNCHANGED <<world, left>>

\* The simulation reverts, for the nonce or the payer's balance.
SettleRefused(r) == req[r].at = "settle" /\ SettleFailed(r)

Learn(r) == txs' = [txs EXCEPT ![req[r].tx].known = TRUE]

\* The answer to the broadcast: the hash is stored.
SettleSent(r) ==
    /\ req[r].at = "settleSent"
    /\ Put(r, [Order(r) EXCEPT !.settleTx = req[r].tx, !.state = "settling"])
    /\ Learn(r)
    /\ Await(r, "settleWait")
    /\ UNCHANGED <<inflight, todo, blocks, final, left>>

\* The answer is lost: send() throws, and the transaction is on its way.
SettleAnswerLost(r) ==
    /\ req[r].at = "settleSent" /\ left > 0
    /\ Put(r, [Order(r) EXCEPT !.state = IF Order(r).settleTx # 0 THEN @ ELSE "failed"])
    /\ Finish(r)
    /\ left' = left - 1
    /\ UNCHANGED world

\* The receipt, at the depth asked for.
SettleReceipt(r) ==
    /\ req[r].at = "settleWait" /\ Confirmed(req[r].tx)
    /\ IF Succeeded(req[r].tx)
       THEN /\ Put(r, [Order(r) EXCEPT !.state = "settled"])
            /\ Goto(r, Onward(r, "limitOf"))
            /\ UNCHANGED <<inflight, todo>>
       ELSE Put(r, [Order(r) EXCEPT !.state = "failed"]) /\ Finish(r)
    /\ UNCHANGED <<world, left>>

\* The wait times out, or throws: also on a reverted receipt.
SettleThrows(r) == req[r].at = "settleWait" /\ SettleFailed(r)

\* A leaf that is live is taken for the one this order inserted.
CheckLeaf(r) ==
    /\ req[r].at = "limitOf"
    /\ IF Live(Latest.set, For[req[r].a])
       THEN Put(r, [Order(r) EXCEPT !.state = "inserted"]) /\ Finish(r)
       ELSE Await(r, "insert") /\ Untouched /\ UNCHANGED <<inflight, todo>>
    /\ UNCHANGED <<world, left>>

InsertSend(r) ==
    /\ req[r].at = "insert" /\ Insertable(For[req[r].a])
    /\ Broadcast(r, "insert", "insertSent")

InsertSent(r) ==
    /\ req[r].at = "insertSent"
    /\ Put(r, [Order(r) EXCEPT !.insertTx = req[r].tx, !.state = "inserting"])
    /\ Learn(r)
    /\ Await(r, "insertWait")
    /\ UNCHANGED <<inflight, todo, blocks, final, left>>

\* finishInsert().
InsertReceipt(r) ==
    /\ req[r].at = "insertWait" /\ Confirmed(req[r].tx)
    /\ Put(r, [Order(r) EXCEPT !.state = IF Succeeded(req[r].tx) THEN "inserted" ELSE "settled"])
    /\ Finish(r)
    /\ UNCHANGED <<world, left>>

\* A read, the simulation or the wait throws: the order is put as it is.
InsertThrows(r) ==
    /\ req[r].at \in {"limitOf", "insert", "insertWait"}
    /\ Put(r, Order(r))
    /\ Finish(r)
    /\ UNCHANGED <<world, left>>

InsertAnswerLost(r) ==
    /\ req[r].at = "insertSent" /\ left > 0
    /\ Put(r, Order(r))
    /\ Finish(r)
    /\ left' = left - 1
    /\ UNCHANGED world

-----------------------------------------------------------------------------
(* Crash and recover().                                                    *)

Crash ==
    /\ left > 0
    /\ req' = [r \in DOMAIN req |-> Resting]
    /\ inflight' = {}
    /\ todo' = {a \in Auths : kept[a] # 0}
    /\ left' = left - 1
    /\ Untouched
    /\ UNCHANGED world

\* The next stored order.
Recover(a) ==
    /\ a \in todo /\ req[Boot] = Resting
    /\ LET o == kept[a]
       IN  CASE orders[o].state \in Pending ->
                   /\ Goto(Boot, Asking(a, o))
                   /\ UNCHANGED todo
             [] orders[o].state = "settled" -> Goto(Boot, At("limitOf", a, o)) /\ UNCHANGED todo
             [] OTHER -> todo' = todo \ {a} /\ UNCHANGED req
    /\ Untouched
    /\ UNCHANGED <<inflight, world, left>>

-----------------------------------------------------------------------------
Step(r) ==
    \/ Reconcile(r) \/ ReconcileLater(r) \/ ReadChain(r) \/ ReadFails(r)
    \/ SettleSend(r) \/ SettleRefused(r) \/ SettleSent(r) \/ SettleAnswerLost(r)
    \/ SettleReceipt(r) \/ SettleThrows(r)
    \/ CheckLeaf(r) \/ InsertSend(r) \/ InsertSent(r) \/ InsertReceipt(r)
    \/ InsertThrows(r) \/ InsertAnswerLost(r)

RegistrarNext ==
    \/ \E r \in Handlers, a \in Auths : Post(r, a)
    \/ \E r \in Handlers \cup {Boot} : Step(r)
    \/ \E a \in Auths : Recover(a)
    \/ \E t \in DOMAIN txs : Mine(t)
    \/ MineOther \/ Reorg \/ Crash

RegistrarSpec == RegistrarInit /\ [][RegistrarNext]_registrarVars

-----------------------------------------------------------------------------
(* Properties.                                                             *)

Is(t, kind) == txs[t].kind = kind /\ Succeeded(t)

\* A payment that was taken for good, and whose transaction the registrar has
\* once stored, is never forgotten: once no request is at work on it, the order
\* kept for it still leads to its leaf, on the next boot or identical request.
PaidIsServed ==
    \A t \in DOMAIN txs :
        Is(t, "settle") /\ txs[t].known /\ (\A i \in Height(t) : i <= final) /\ ~Busy(txs[t].a) =>
            /\ kept[txs[t].a] # 0
            /\ LET o == orders[kept[txs[t].a]]
               IN  o.state \in {"settled", "inserting", "inserted"} \/ (o.state = "settling" /\ o.settleTx = t)

\* Nobody gets two leaves for one payment, or a leaf for none: not by retries,
\* not by resuming after a crash, not after a slash, and not when the block of
\* a payment is undone.  (An insert whose hash the crash lost is not counted: it
\* is sent again, and if the first leaf is slashed in between, both succeed.)
OneLeafPerPayment ==
    \A c \in Commitments :
        LET Of(kind) == {t \in DOMAIN txs : Is(t, kind) /\ For[txs[t].a] = c}
        IN  Cardinality({t \in Of("insert") : txs[t].known}) <= Cardinality(Of("settle"))

StateOf(a) == IF kept[a] = 0 THEN "none" ELSE orders[kept[a]].state

StaysPaid ==
    \A a \in DOMAIN kept :
        /\ StateOf(a) \in {"settled", "inserting"} => StateOf(a)' \in {"settled", "inserting", "inserted"}
        /\ StateOf(a) = "inserted" => StateOf(a)' = "inserted"

\* An order whose payment was taken is never one to be paid again, and a
\* finished order stays finished.
PaidStaysPaid == [][StaysPaid]_registrarVars
=============================================================================
