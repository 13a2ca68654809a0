------------------------------ MODULE CoinOrders ------------------------------
(***************************************************************************)
(* Coin purchases of one player: coin_provider.go and coin_store.go.       *)
(*                                                                         *)
(* The game's RPCs (order/create, order/get), the provider's two webhooks, *)
(* the operator's refund and the player's spending run concurrently, each  *)
(* as one database transaction.  A worker is a request being served.  A    *)
(* transaction is split where it takes a row lock, where it waits for the  *)
(* provider, and where it commits: what is written shows at the commit,    *)
(* and a lock is held from the step that takes it to that commit.  Any     *)
(* transaction may roll back instead (Abort).                              *)
(*                                                                         *)
(* Orders of different players share no row, so one player suffices.  The  *)
(* provider is external: a payment is asked for, then approved by the      *)
(* answer to its pre-checkout query, then paid; until it is paid it may    *)
(* fail, and failed is final.                                              *)
(***************************************************************************)
EXTENDS Integers, Sequences

CONSTANTS
  Orders,           \* order ids the player's devices may propose
  Txns,             \* payments at the provider
  Workers,          \* requests being served at one time
  Products, Starter, Price,   \* what a product credits; Starter is sold once
  NoTxn, NoOrder, NoProduct,
  InitialCoins, CoinLimit, UpgradeCost,
  MaxSpends, MaxAborts        \* bounds of the model only

ASSUME CoinAssumption ==
  /\ Starter \in Products /\ NoProduct \notin Products
  /\ Price \in [Products -> Nat \ {0}]
  /\ NoTxn \notin Txns /\ NoOrder \notin Orders
  /\ {InitialCoins, CoinLimit, MaxSpends, MaxAborts} \subseteq Nat
  /\ UpgradeCost \in Nat \ {0}
  /\ InitialCoins <= CoinLimit

VARIABLES
  orders,    \* coin_orders: state, product and bound provider transaction
  coins,     \* the player's balance
  ledger,    \* economy_ledger entries in the order they were inserted
  txns,      \* the provider's payments
  work,      \* the requests being served
  spends, aborts

vars == <<orders, coins, ledger, txns, work, spends, aborts>>

Idle == [at |-> "idle", order |-> NoOrder, txn |-> NoTxn,
         product |-> NoProduct, coins |-> 0]

Init ==
  /\ orders = [o \in Orders |-> [state |-> "none", product |-> NoProduct, bound |-> NoTxn]]
  /\ coins = InitialCoins
  /\ ledger = <<>>
  /\ txns = [t \in Txns |-> [order |-> NoOrder, status |-> "none"]]
  /\ work = [w \in Workers |-> Idle]
  /\ spends = 0 /\ aborts = 0

-----------------------------------------------------------------------------
(* Row locks.  realmCareerForUpdate locks the player's row; the order row  *)
(* is locked FOR UPDATE.                                                   *)

NoCareerLock == TRUE                                               \* mutant
CareerFree == \A w \in Workers : work[w].at \notin {"create", "fulfil", "refund"}
OrderFree(o) == \A w \in Workers : work[w].at \in {"invoice", "bind"} => work[w].order # o

Enter(w, step) == work[w] = Idle /\ work' = [work EXCEPT ![w] = step]
Goto(w, at) == work' = [work EXCEPT ![w].at = at]
Leave(w) == work' = [work EXCEPT ![w] = Idle]

(* ON CONFLICT (id) DO NOTHING.                                            *)
InsertLedger(id, before, after) ==
  ledger' = IF \E k \in DOMAIN ledger : ledger[k].id = id THEN ledger
            ELSE Append(ledger, [id |-> id, previous |-> before, resulting |-> after])

-----------------------------------------------------------------------------
(* order/create: CreateCoinOrder, then EnsureCoinInvoice.                  *)

CreateBegin(w, o, p) ==
  /\ CareerFree
  /\ Enter(w, [Idle EXCEPT !.at = "create", !.order = o, !.product = p])
  /\ UNCHANGED <<orders, coins, ledger, txns, spends, aborts>>

Open(o) == orders[o].state \in {"created", "pending"}
OnlyInvoiced(p) == \E o \in Orders : orders[o].product = p /\ orders[o].state = "pending"  \* mutant
Reusable(p) == \E o \in Orders : orders[o].product = p /\ (p = Starter \/ Open(o))

CreateCommit(w) ==
  LET o == work[w].order  p == work[w].product IN
  /\ work[w].at = "create"
  /\ orders' = IF orders[o].state = "none" /\ ~Reusable(p)
                 THEN [orders EXCEPT ![o].state = "created", ![o].product = p]
                 ELSE orders
  /\ Leave(w)
  /\ UNCHANGED <<coins, ledger, txns, spends, aborts>>

InvoiceBegin(w, o) ==
  /\ orders[o].state # "none"
  /\ OrderFree(o)
  /\ Enter(w, [Idle EXCEPT !.at = "invoice", !.order = o])
  /\ UNCHANGED <<orders, coins, ledger, txns, spends, aborts>>

InvoiceCommit(w) ==
  LET o == work[w].order IN
  /\ work[w].at = "invoice"
  /\ orders' = IF orders[o].state = "created"
                 THEN [orders EXCEPT ![o].state = "pending"] ELSE orders
  /\ Leave(w)
  /\ UNCHANGED <<coins, ledger, txns, spends, aborts>>

-----------------------------------------------------------------------------
(* The pre-checkout webhook: bindCoinCheckout, then the answer.  The query *)
(* may be delivered again, at any time.                                    *)

PreCheckout(w, t) ==
  LET o == txns[t].order
      step == [Idle EXCEPT !.order = o, !.txn = t] IN
  /\ txns[t].status # "none"
  /\ OrderFree(o)
  /\ Enter(w, [step EXCEPT !.at = IF orders[o].state = "pending" THEN "bind" ELSE "refuse"])
  /\ UNCHANGED <<orders, coins, ledger, txns, spends, aborts>>

NotPaid(t) == txns[t].status # "paid"                              \* mutant
Replaceable(t) == txns[t].status = "failed"
MayBind(o, t) ==
  LET prior == orders[o].bound
  IN IF prior \in {NoTxn, t} THEN TRUE ELSE Replaceable(prior)

BindCommit(w) ==
  LET o == work[w].order  t == work[w].txn IN
  /\ work[w].at = "bind"
  /\ \/ /\ MayBind(o, t)
        /\ orders' = [orders EXCEPT ![o].bound = t]
        /\ Goto(w, "approve") \/ Goto(w, "refuse")   \* refuse: the commit's reply was lost
     \/ /\ ~MayBind(o, t)
        /\ Goto(w, "refuse")
        /\ UNCHANGED orders
  /\ UNCHANGED <<coins, ledger, txns, spends, aborts>>

(* The answer counts only while the provider still waits for it.           *)
Answer(w) ==
  LET t == work[w].txn IN
  /\ work[w].at \in {"approve", "refuse"}
  /\ Leave(w)
  /\ \/ /\ txns[t].status = "asked"
        /\ txns' = [txns EXCEPT ![t].status =
                      IF work[w].at = "approve" THEN "approved" ELSE "failed"]
     \/ UNCHANGED txns
  /\ UNCHANGED <<orders, coins, ledger, spends, aborts>>

-----------------------------------------------------------------------------
(* The receipt webhook (VerifyCoinReceipt) and order/get                   *)
(* (RecoverCoinOrder) ask the provider, and then FulfillCoinOrder.         *)

NotFailed(t) == txns[t].status \notin {"none", "failed"}            \* mutant
Confirmed(t) == txns[t].status = "paid"

VerifyReceipt(w, t) ==
  /\ Confirmed(t)
  /\ Enter(w, [Idle EXCEPT !.at = "paid", !.order = txns[t].order, !.txn = t])
  /\ UNCHANGED <<orders, coins, ledger, txns, spends, aborts>>

RecoverRead(w, o) ==
  /\ orders[o].state = "pending" /\ orders[o].bound # NoTxn
  /\ Enter(w, [Idle EXCEPT !.at = "recover", !.order = o, !.txn = orders[o].bound])
  /\ UNCHANGED <<orders, coins, ledger, txns, spends, aborts>>

RecoverInquire(w) ==
  /\ work[w].at = "recover"
  /\ IF Confirmed(work[w].txn) THEN Goto(w, "paid") ELSE Leave(w)
  /\ UNCHANGED <<orders, coins, ledger, txns, spends, aborts>>

FulfilBegin(w) ==
  /\ work[w].at = "paid" /\ CareerFree
  /\ work' = [work EXCEPT ![w].at = "fulfil", ![w].coins = coins]
  /\ UNCHANGED <<orders, coins, ledger, txns, spends, aborts>>

Below(balance) == balance < CoinLimit                              \* mutant
Fits(balance) == balance <= CoinLimit

FulfilCommit(w) ==
  LET o == work[w].order
      after == work[w].coins + Price[orders[o].product] IN
  /\ work[w].at = "fulfil"
  /\ OrderFree(o)
  /\ Leave(w)
  /\ IF orders[o].state = "pending" /\ orders[o].bound = work[w].txn /\ Fits(after)
       THEN /\ coins' = after
            /\ InsertLedger(<<"coin_order", o>>, work[w].coins, after)
            /\ orders' = [orders EXCEPT ![o].state = "fulfilled"]
       ELSE UNCHANGED <<orders, coins, ledger>>
  /\ UNCHANGED <<txns, spends, aborts>>

-----------------------------------------------------------------------------
(* RecordCoinRefund by the operator, and the player's own spending.        *)

RefundBegin(w, o) ==
  /\ orders[o].state # "none" /\ CareerFree
  /\ Enter(w, [Idle EXCEPT !.at = "refund", !.order = o, !.coins = coins])
  /\ UNCHANGED <<orders, coins, ledger, txns, spends, aborts>>

WholePrice(balance, price) == price                                \* mutant
Clawback(balance, price) == IF balance < price THEN balance ELSE price

RefundCommit(w) ==
  LET o == work[w].order
      after == work[w].coins - Clawback(work[w].coins, Price[orders[o].product]) IN
  /\ work[w].at = "refund"
  /\ OrderFree(o)
  /\ Leave(w)
  /\ IF orders[o].state = "fulfilled"
       THEN /\ coins' = after
            /\ InsertLedger(<<"coin_refund", o>>, work[w].coins, after)
            /\ orders' = [orders EXCEPT ![o].state = "refunded"]
       ELSE UNCHANGED <<orders, coins, ledger>>
  /\ UNCHANGED <<txns, spends, aborts>>

(* PurchaseUpgrade, as far as it concerns the balance.                     *)
Spend ==
  /\ CareerFree
  /\ spends < MaxSpends /\ coins >= UpgradeCost
  /\ spends' = spends + 1
  /\ coins' = coins - UpgradeCost
  /\ InsertLedger(<<"upgrade", spends>>, coins, coins')
  /\ UNCHANGED <<orders, txns, work, aborts>>

(* A request fails, or its provider call does, and its transaction rolls   *)
(* back.                                                                   *)
Abort(w) ==
  /\ work[w] # Idle /\ aborts < MaxAborts
  /\ aborts' = aborts + 1
  /\ Leave(w)
  /\ UNCHANGED <<orders, coins, ledger, txns, spends>>

-----------------------------------------------------------------------------
(* The provider and the payer.                                             *)

Checkout(t, o) ==
  /\ txns[t].status = "none" /\ orders[o].state \in {"pending", "fulfilled", "refunded"}
  /\ txns' = [txns EXCEPT ![t] = [order |-> o, status |-> "asked"]]
  /\ UNCHANGED <<orders, coins, ledger, work, spends, aborts>>

Pay(t) ==
  /\ txns[t].status = "approved"
  /\ txns' = [txns EXCEPT ![t].status = "paid"]
  /\ UNCHANGED <<orders, coins, ledger, work, spends, aborts>>

Fail(t) ==
  /\ txns[t].status \in {"asked", "approved"}
  /\ txns' = [txns EXCEPT ![t].status = "failed"]
  /\ UNCHANGED <<orders, coins, ledger, work, spends, aborts>>

-----------------------------------------------------------------------------
Serve(w) ==
  \/ \E o \in Orders, p \in Products : CreateBegin(w, o, p)
  \/ \E o \in Orders : InvoiceBegin(w, o) \/ RecoverRead(w, o) \/ RefundBegin(w, o)
  \/ \E t \in Txns : PreCheckout(w, t) \/ VerifyReceipt(w, t)

Proceed(w) ==
  \/ CreateCommit(w) \/ InvoiceCommit(w) \/ BindCommit(w) \/ Answer(w)
  \/ RecoverInquire(w) \/ FulfilBegin(w) \/ FulfilCommit(w) \/ RefundCommit(w)

Provider == \E t \in Txns : Pay(t) \/ Fail(t) \/ \E o \in Orders : Checkout(t, o)

Next ==
  \/ \E w \in Workers : Serve(w) \/ Proceed(w) \/ Abort(w)
  \/ Spend
  \/ Provider

Spec == Init /\ [][Next]_vars

(* Postgres grants row locks in the order they were asked for, Go serves   *)
(* every request on a goroutine of its own, and the receipt webhook is     *)
(* answered 503 until it succeeds, which makes Bale send it again.         *)
FairSpec ==
  /\ Spec
  /\ \A w \in Workers : SF_vars(Proceed(w))
  /\ \A t \in Txns : SF_vars(\E w \in Workers : VerifyReceipt(w, t))

-----------------------------------------------------------------------------
(* Properties.                                                             *)

OrderRow == [state : {"none", "created", "pending", "fulfilled", "refunded"},
             product : Products \cup {NoProduct}, bound : Txns \cup {NoTxn}]
Payment == [order : Orders \cup {NoOrder},
            status : {"none", "asked", "approved", "paid", "failed"}]
Request == [at : {"idle", "create", "invoice", "bind", "approve", "refuse",
                  "recover", "paid", "fulfil", "refund"},
            order : Orders \cup {NoOrder}, txn : Txns \cup {NoTxn},
            product : Products \cup {NoProduct}, coins : Nat]
LedgerId == ({"coin_order", "coin_refund"} \X Orders) \cup ({"upgrade"} \X Nat)
LedgerEntry == [id : LedgerId, previous : Nat, resulting : Nat]

(* The balance is a natural number within Postgres's INTEGER, which no     *)
(* credit overflows and no clawback takes below zero; rows keep to their   *)
(* CHECK constraints.                                                      *)
TypeOK ==
  /\ orders \in [Orders -> OrderRow]
  /\ coins \in 0..CoinLimit
  /\ ledger \in Seq(LedgerEntry)
  /\ txns \in [Txns -> Payment]
  /\ work \in [Workers -> Request]
  /\ spends \in Nat /\ aborts \in Nat

(* docs/realm-commercial-pilot.md:127, "pre-checkout binding prevents a    *)
(* second paid transaction": the payer is never charged twice for an order *)
(* and whatever was paid is what its order is bound to, so that a receipt  *)
(* or a recovery can still find it.                                        *)
PaidIsBound ==
  \A t \in Txns : txns[t].status = "paid" => orders[txns[t].order].bound = t

(* Coins are credited for a confirmed payment of that very order, once,    *)
(* and taken back once: the ledger holds the entries of exactly the orders *)
(* whose state says so.                                                    *)
CreditedOnce ==
  \A o \in Orders :
    LET entries(kind) == {k \in DOMAIN ledger : ledger[k].id = <<kind, o>>} IN
    /\ orders[o].state \in {"fulfilled", "refunded"} =>
         /\ orders[o].bound # NoTxn
         /\ txns[orders[o].bound] = [order |-> o, status |-> "paid"]
    /\ entries("coin_order") # {} <=> orders[o].state \in {"fulfilled", "refunded"}
    /\ entries("coin_refund") # {} <=> orders[o].state = "refunded"

(* The ledger explains the balance: every entry starts from the balance    *)
(* the one before it left, and the last one left the balance there is.     *)
LedgerExplainsBalance ==
  /\ \A k \in DOMAIN ledger :
       ledger[k].previous = IF k = 1 THEN InitialCoins ELSE ledger[k - 1].resulting
  /\ coins = IF ledger = <<>> THEN InitialCoins ELSE ledger[Len(ledger)].resulting

(* "A lost response or reopen must recover the pending refill, not issue a *)
(* second invoice" (coin_store.go:87): never two open orders of a product, *)
(* nor a second starter.                                                   *)
OneOpenOrder ==
  \A o, q \in Orders : o # q /\ orders[o].product = orders[q].product /\ Open(o) =>
    orders[o].product # Starter /\ ~Open(q)

(* A binding is replaced only when the payment it names has failed: "a     *)
(* failed/rejected pre-checkout may be replaced; a pending/paid one may    *)
(* not" (docs/realm-commercial-pilot.md:128).                              *)
BindingIsKept ==
  [][\A o \in Orders :
       LET prior == orders[o].bound IN
       prior # NoTxn /\ orders'[o].bound # prior => txns[prior].status = "failed"]_vars

(* What was paid for is credited, however many webhooks are lost or        *)
(* repeated, unless the balance is too high to hold it.                    *)
PaidIsCredited ==
  \A t \in Txns, o \in Orders :
    txns[t] = [order |-> o, status |-> "paid"] ~>
      \/ orders[o].state \in {"fulfilled", "refunded"}
      \/ \E p \in Products : orders[o].product = p /\ coins + Price[p] > CoinLimit
=============================================================================
