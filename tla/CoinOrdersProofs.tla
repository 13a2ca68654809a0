--------------------------- MODULE CoinOrdersProofs ---------------------------
(***************************************************************************)
(* Proofs about CoinOrders, for any number of orders, payments, concurrent *)
(* requests and products.  IInv says what the row locks achieve (Locked),  *)
(* what a request under way knows (Requests), how bindings and payments    *)
(* relate (Payments), and that the ledger is a chain whose entries are     *)
(* those the order states call for (Ledger).                               *)
(***************************************************************************)
EXTENDS CoinOrders, SetSums, FiniteSetTheorems, TLAPS

InCareer(w) == work[w].at \in {"create", "fulfil", "refund"}

Locked ==
  /\ \A v, w \in Workers : InCareer(v) /\ InCareer(w) => v = w
  /\ \A w \in Workers : work[w].at \in {"fulfil", "refund"} => work[w].coins = coins
  /\ \A w \in Workers : work[w].at = "bind" => orders[work[w].order].state = "pending"

Requests ==
  \A w \in Workers :
    /\ work[w].at # "idle" => work[w].order \in Orders
    /\ work[w].at = "create" => work[w].product \in Products
    /\ work[w].at = "refund" => orders[work[w].order].state # "none"
    /\ work[w].at \in {"bind", "approve", "refuse", "recover", "paid", "fulfil"} =>
         /\ work[w].txn \in Txns
         /\ txns[work[w].txn].order = work[w].order
         /\ txns[work[w].txn].status # "none"
    /\ work[w].at \in {"paid", "fulfil"} => txns[work[w].txn].status = "paid"
    /\ work[w].at = "approve" =>
         \/ orders[work[w].order].bound = work[w].txn
         \/ txns[work[w].txn].status = "failed"

Credited(o) == orders[o].state \in {"fulfilled", "refunded"}

Payments ==
  /\ \A t \in Txns : txns[t].status # "none" => txns[t].order \in Orders
  /\ \A t \in Txns : txns[t].status \in {"approved", "paid"} =>
       orders[txns[t].order].bound = t
  /\ \A o \in Orders : orders[o].bound # NoTxn =>
       /\ txns[orders[o].bound].order = o
       /\ txns[orders[o].bound].status # "none"
  /\ \A o \in Orders : Credited(o) =>
       orders[o].bound # NoTxn /\ txns[orders[o].bound].status = "paid"
  /\ \A o \in Orders : orders[o].state # "none" => orders[o].product \in Products

Entered(id) == \E k \in DOMAIN ledger : ledger[k].id = id

Ledger ==
  /\ \A o \in Orders : Entered(<<"coin_order", o>>) <=> Credited(o)
  /\ \A o \in Orders : Entered(<<"coin_refund", o>>) <=> orders[o].state = "refunded"
  /\ \A n \in Nat : Entered(<<"upgrade", n>>) => n < spends
  /\ LedgerExplainsBalance

IInv == TypeOK /\ Locked /\ Requests /\ Payments /\ Ledger

-----------------------------------------------------------------------------
LEMMA InitInv == Init => IInv
  <1> SUFFICES ASSUME Init PROVE IInv
    OBVIOUS
  <1>1. TypeOK
    <2>1. Idle \in Request
      BY DEF Idle, Request
    <2>2. InitialCoins \in 0..CoinLimit
      BY CoinAssumption
    <2> QED
      BY <2>1, <2>2 DEF Init, TypeOK, OrderRow, Payment
  <1>2. Locked /\ Requests /\ Payments
    BY DEF Init, Locked, Requests, Payments, InCareer, Credited, Idle
  <1>3. Ledger
    BY DEF Init, Ledger, Entered, Credited, LedgerExplainsBalance
  <1> QED
    BY <1>1, <1>2, <1>3 DEF IInv

(* A ledger insertion keeps the ledger's type and enters just its id.      *)
LEMMA InsertTyped ==
  ASSUME TypeOK, NEW id \in LedgerId, NEW after \in Nat, InsertLedger(id, coins, after)
  PROVE  ledger' \in Seq(LedgerEntry)
  <1>1. coins \in Nat
    BY CoinAssumption DEF TypeOK
  <1>2. [id |-> id, previous |-> coins, resulting |-> after] \in LedgerEntry
    BY <1>1 DEF LedgerEntry
  <1> QED
    BY <1>2 DEF InsertLedger, TypeOK

(* What a request turns into is a request, wherever it goes next.          *)
LEMMA WorkTyped ==
  ASSUME TypeOK, NEW w \in Workers
  PROVE  /\ Leave(w) => work' \in [Workers -> Request]
         /\ \A at \in {"approve", "refuse", "paid"} :
              Goto(w, at) => work' \in [Workers -> Request]
         /\ \A step \in Request : Enter(w, step) => work' \in [Workers -> Request]
  <1>1. Idle \in Request
    BY DEF Idle, Request
  <1>2. ASSUME NEW at \in {"approve", "refuse", "paid"}, Goto(w, at)
        PROVE  work' \in [Workers -> Request]
    <2>1. work \in [Workers -> Request] /\ work[w] \in Request
      BY DEF TypeOK
    <2>2. [work[w] EXCEPT !.at = at] \in Request
      BY <1>2, <2>1 DEF Request
    <2>3. work' = [work EXCEPT ![w] = [work[w] EXCEPT !.at = at]]
      BY <1>2 DEF Goto
    <2> QED
      BY <2>1, <2>2, <2>3
  <1> QED
    BY <1>1, <1>2 DEF Leave, Enter, TypeOK

LEMMA TypeStep == IInv /\ [Next]_vars => TypeOK'
  <1> SUFFICES ASSUME IInv, [Next]_vars PROVE TypeOK'
    OBVIOUS
  <1> USE DEF IInv
  <1>c. coins \in Nat
    BY CoinAssumption DEF TypeOK
  <1>1. ASSUME NEW w \in Workers, NEW o \in Orders, NEW p \in Products, CreateBegin(w, o, p)
        PROVE  TypeOK'
    <2>1. [Idle EXCEPT !.at = "create", !.order = o, !.product = p] \in Request
      BY DEF Idle, Request
    <2> QED
      BY <1>1, <2>1, WorkTyped DEF CreateBegin, TypeOK
  <1>2. ASSUME NEW w \in Workers, NEW o \in Orders, InvoiceBegin(w, o) PROVE TypeOK'
    <2>1. [Idle EXCEPT !.at = "invoice", !.order = o] \in Request
      BY DEF Idle, Request
    <2> QED
      BY <1>2, <2>1, WorkTyped DEF InvoiceBegin, TypeOK
  <1>3. ASSUME NEW w \in Workers, NEW o \in Orders, RecoverRead(w, o) PROVE TypeOK'
    <2>1. orders[o].bound \in Txns
      BY <1>3 DEF RecoverRead, TypeOK, OrderRow
    <2>2. [Idle EXCEPT !.at = "recover", !.order = o, !.txn = orders[o].bound] \in Request
      BY <2>1 DEF Idle, Request
    <2> QED
      BY <1>3, <2>2, WorkTyped DEF RecoverRead, TypeOK
  <1>4. ASSUME NEW w \in Workers, NEW o \in Orders, RefundBegin(w, o) PROVE TypeOK'
    <2>1. [Idle EXCEPT !.at = "refund", !.order = o, !.coins = coins] \in Request
      BY <1>c DEF Idle, Request
    <2> QED
      BY <1>4, <2>1, WorkTyped DEF RefundBegin, TypeOK
  <1>5. ASSUME NEW w \in Workers, NEW t \in Txns, PreCheckout(w, t) PROVE TypeOK'
    <2> DEFINE at == IF orders[txns[t].order].state = "pending" THEN "bind" ELSE "refuse"
               step == [Idle EXCEPT !.order = txns[t].order, !.txn = t, !.at = at]
    <2>1. txns[t].order \in Orders
      BY <1>5 DEF PreCheckout, Payments
    <2>2. step \in Request
      BY <2>1 DEF Idle, Request
    <2>3. Enter(w, step)
      BY <1>5 DEF PreCheckout
    <2> QED
      BY <1>5, <2>2, <2>3, WorkTyped DEF PreCheckout, TypeOK
  <1>6. ASSUME NEW w \in Workers, NEW t \in Txns, VerifyReceipt(w, t) PROVE TypeOK'
    <2>1. txns[t].order \in Orders
      BY <1>6 DEF VerifyReceipt, Confirmed, Payments
    <2>2. [Idle EXCEPT !.at = "paid", !.order = txns[t].order, !.txn = t] \in Request
      BY <2>1 DEF Idle, Request
    <2> QED
      BY <1>6, <2>2, WorkTyped DEF VerifyReceipt, TypeOK
  <1>7. ASSUME NEW w \in Workers, CreateCommit(w) PROVE TypeOK'
    <2>1. orders' \in [Orders -> OrderRow]
      BY SMTT(30), <1>7 DEF CreateCommit, TypeOK, OrderRow, Requests
    <2> QED
      BY <1>7, <2>1, WorkTyped DEF CreateCommit, TypeOK
  <1>8. ASSUME NEW w \in Workers, InvoiceCommit(w) PROVE TypeOK'
    <2>1. orders' \in [Orders -> OrderRow]
      BY ZenonT(40), <1>8 DEF InvoiceCommit, TypeOK, OrderRow
    <2> QED
      BY <1>8, <2>1, WorkTyped DEF InvoiceCommit, TypeOK
  <1>9. ASSUME NEW w \in Workers, BindCommit(w) PROVE TypeOK'
    <2>1. work[w].txn \in Txns
      BY <1>9 DEF BindCommit, Requests
    <2>2. orders' \in [Orders -> OrderRow]
      BY <1>9, <2>1 DEF BindCommit, TypeOK, OrderRow
    <2> QED
      BY <1>9, <2>2, WorkTyped DEF BindCommit, TypeOK
  <1>10. ASSUME NEW w \in Workers, Answer(w) PROVE TypeOK'
    <2>1. txns' \in [Txns -> Payment]
      BY <1>10 DEF Answer, TypeOK, Payment
    <2> QED
      BY <1>10, <2>1, WorkTyped DEF Answer, TypeOK
  <1>11. ASSUME NEW w \in Workers, RecoverInquire(w) PROVE TypeOK'
    BY <1>11, WorkTyped DEF RecoverInquire, TypeOK
  <1>12. ASSUME NEW w \in Workers, FulfilBegin(w) PROVE TypeOK'
    <2>1. work' \in [Workers -> Request]
      BY ZenonT(40), <1>12, <1>c DEF FulfilBegin, TypeOK, Request
    <2> QED
      BY <1>12, <2>1 DEF FulfilBegin, TypeOK
  <1>13. ASSUME NEW w \in Workers, FulfilCommit(w) PROVE TypeOK'
    <2> DEFINE o == work[w].order
               after == coins + Price[orders[o].product]
    <2>1. o \in Orders /\ work[w].coins = coins
      BY <1>13 DEF FulfilCommit, Requests, Locked
    <2>2. CASE orders[o].state = "pending" /\ orders[o].bound = work[w].txn /\ Fits(after)
      <3>1. Price[orders[o].product] \in Nat
        BY <2>1, <2>2, CoinAssumption DEF Payments
      <3>2. after \in 0..CoinLimit /\ after \in Nat
        BY <3>1, <1>c, <2>2 DEF Fits
      <3>3. <<"coin_order", o>> \in LedgerId
        BY <2>1 DEF LedgerId
      <3>4. coins' = after /\ InsertLedger(<<"coin_order", o>>, coins, after)
            /\ orders' = [orders EXCEPT ![o].state = "fulfilled"]
        BY <1>13, <2>1, <2>2 DEF FulfilCommit
      <3>5. ledger' \in Seq(LedgerEntry)
        BY <3>2, <3>3, <3>4, InsertTyped
      <3>6. orders' \in [Orders -> OrderRow]
        BY <2>1, <3>4 DEF TypeOK, OrderRow
      <3> QED
        BY <1>13, <3>2, <3>4, <3>5, <3>6, WorkTyped DEF FulfilCommit, TypeOK
    <2>3. CASE ~(orders[o].state = "pending" /\ orders[o].bound = work[w].txn /\ Fits(after))
      BY <1>13, <2>1, <2>3, WorkTyped DEF FulfilCommit, TypeOK
    <2> QED
      BY <2>2, <2>3
  <1>14. ASSUME NEW w \in Workers, RefundCommit(w) PROVE TypeOK'
    <2> DEFINE o == work[w].order
               after == coins - Clawback(coins, Price[orders[o].product])
    <2>1. o \in Orders /\ work[w].coins = coins
      BY <1>14 DEF RefundCommit, Requests, Locked
    <2>2. CASE orders[o].state = "fulfilled"
      <3>1. Price[orders[o].product] \in Nat
        BY <2>1, <2>2, CoinAssumption DEF Payments
      <3>2. after \in 0..coins
        BY <3>1, <1>c DEF Clawback
      <3>3. after \in Nat /\ after \in 0..CoinLimit
        BY <3>2, <1>c, CoinAssumption DEF TypeOK
      <3>4. <<"coin_refund", o>> \in LedgerId
        BY <2>1 DEF LedgerId
      <3>5. coins' = after /\ InsertLedger(<<"coin_refund", o>>, coins, after)
            /\ orders' = [orders EXCEPT ![o].state = "refunded"]
        BY <1>14, <2>1, <2>2 DEF RefundCommit
      <3>6. ledger' \in Seq(LedgerEntry)
        BY <3>3, <3>4, <3>5, InsertTyped
      <3>7. orders' \in [Orders -> OrderRow]
        BY <2>1, <3>5 DEF TypeOK, OrderRow
      <3> QED
        BY <1>14, <3>3, <3>5, <3>6, <3>7, WorkTyped DEF RefundCommit, TypeOK
    <2>3. CASE orders[o].state # "fulfilled"
      BY <1>14, <2>3, WorkTyped DEF RefundCommit, TypeOK
    <2> QED
      BY <2>2, <2>3
  <1>15. ASSUME NEW w \in Workers, Abort(w) PROVE TypeOK'
    BY <1>15, WorkTyped DEF Abort, TypeOK
  <1>16. CASE Spend
    <2>1. coins' \in Nat /\ coins' \in 0..CoinLimit
      BY <1>16, <1>c, CoinAssumption DEF Spend, TypeOK
    <2>2. <<"upgrade", spends>> \in LedgerId
      BY DEF LedgerId, TypeOK
    <2>3. ledger' \in Seq(LedgerEntry)
      BY <1>16, <2>1, <2>2, InsertTyped DEF Spend
    <2> QED
      BY <1>16, <2>1, <2>3 DEF Spend, TypeOK
  <1>17. CASE Provider
    <2>1. txns' \in [Txns -> Payment]
      BY <1>17 DEF Provider, Checkout, Pay, Fail, TypeOK, Payment
    <2> QED
      BY <1>17, <2>1 DEF Provider, Checkout, Pay, Fail, TypeOK
  <1>18. CASE UNCHANGED vars
    BY <1>18 DEF TypeOK, vars
  <1> QED
    BY <1>1, <1>2, <1>3, <1>4, <1>5, <1>6, <1>7, <1>8, <1>9, <1>10, <1>11, <1>12,
       <1>13, <1>14, <1>15, <1>16, <1>17, <1>18 DEF Next, Serve, Proceed

-----------------------------------------------------------------------------
(* What each row of coin_orders and each payment can do in a step: the     *)
(* facts about orders and txns the other invariants are kept by.           *)
LEMMA RowStep ==
  ASSUME IInv, [Next]_vars
  PROVE  /\ \A o \in Orders : orders'[o].bound # orders[o].bound =>
              \E w \in Workers : /\ work[w].at = "bind" /\ work[w].order = o
                                 /\ orders'[o].bound = work[w].txn
                                 /\ MayBind(o, work[w].txn)
         /\ \A o \in Orders : orders'[o].product # orders[o].product =>
              orders[o].state = "none"
         /\ \A t \in Txns : txns'[t].order # txns[t].order => txns[t].status = "none"
         /\ \A t \in Txns : txns[t].status \in {"paid", "failed"} =>
              txns'[t].status = txns[t].status
         /\ \A t \in Txns : txns[t].status # "none" => txns'[t].status # "none"
  <1> USE DEF IInv
  <1>1. ASSUME NEW w \in Workers, Serve(w) \/ Abort(w) PROVE orders' = orders /\ txns' = txns
    BY <1>1 DEF Serve, Abort, CreateBegin, InvoiceBegin, RecoverRead, RefundBegin,
                PreCheckout, VerifyReceipt
  <1>2. ASSUME NEW w \in Workers, CreateCommit(w) \/ InvoiceCommit(w)
        PROVE  /\ txns' = txns
               /\ \A o \in Orders : orders'[o].bound = orders[o].bound
               /\ \A o \in Orders : orders'[o].product # orders[o].product =>
                    orders[o].state = "none"
    BY <1>2 DEF CreateCommit, InvoiceCommit, TypeOK, OrderRow
  <1>3. ASSUME NEW w \in Workers, BindCommit(w)
        PROVE  /\ txns' = txns
               /\ \A o \in Orders : orders'[o].product = orders[o].product
               /\ \A o \in Orders : orders'[o].bound # orders[o].bound =>
                    /\ work[w].at = "bind" /\ work[w].order = o
                    /\ orders'[o].bound = work[w].txn
                    /\ MayBind(o, work[w].txn)
    BY <1>3 DEF BindCommit, TypeOK, OrderRow
  <1>4. ASSUME NEW w \in Workers, Answer(w)
        PROVE  /\ orders' = orders
               /\ \A t \in Txns : txns'[t].order = txns[t].order
               /\ \A t \in Txns : txns'[t].status # txns[t].status =>
                    txns[t].status = "asked" /\ txns'[t].status # "none"
    BY <1>4 DEF Answer, TypeOK, Payment
  <1>5. ASSUME NEW w \in Workers, RecoverInquire(w) \/ FulfilBegin(w)
        PROVE  orders' = orders /\ txns' = txns
    BY <1>5 DEF RecoverInquire, FulfilBegin
  <1>6. ASSUME NEW w \in Workers, FulfilCommit(w) \/ RefundCommit(w)
        PROVE  /\ txns' = txns
               /\ \A o \in Orders : orders'[o].bound = orders[o].bound
               /\ \A o \in Orders : orders'[o].product = orders[o].product
    <2>1. txns' = txns
      BY <1>6 DEF FulfilCommit, RefundCommit
    <2>2. \/ orders' = orders
          \/ orders' = [orders EXCEPT ![work[w].order].state = "fulfilled"]
          \/ orders' = [orders EXCEPT ![work[w].order].state = "refunded"]
      BY <1>6 DEF FulfilCommit, RefundCommit
    <2>3. ASSUME NEW o \in Orders, NEW q, NEW st, orders' = [orders EXCEPT ![q].state = st]
          PROVE  orders'[o].bound = orders[o].bound /\ orders'[o].product = orders[o].product
      BY <2>3 DEF TypeOK, OrderRow
    <2> QED
      BY SMTT(30), <2>1, <2>2, <2>3
  <1>7. CASE Spend \/ UNCHANGED vars
    BY <1>7 DEF Spend, vars
  <1>8. CASE Provider
    <2>1. orders' = orders
      BY <1>8 DEF Provider, Pay, Fail, Checkout
    <2>2. \A t \in Txns : txns'[t].order # txns[t].order => txns[t].status = "none"
      BY <1>8 DEF Provider, Pay, Fail, Checkout, TypeOK, Payment
    <2>3. \A t \in Txns : txns'[t].status # txns[t].status =>
            txns[t].status \notin {"paid", "failed"} /\ txns'[t].status # "none"
      BY <1>8 DEF Provider, Pay, Fail, Checkout, TypeOK, Payment
    <2> QED
      BY <2>1, <2>2, <2>3
  <1>9. ASSUME NEW w \in Workers, Proceed(w)
        PROVE  \/ CreateCommit(w) \/ InvoiceCommit(w)
               \/ BindCommit(w)
               \/ Answer(w)
               \/ RecoverInquire(w) \/ FulfilBegin(w)
               \/ FulfilCommit(w) \/ RefundCommit(w)
    BY <1>9 DEF Proceed
  <1>10. \/ \E w \in Workers : Serve(w) \/ Abort(w)
         \/ \E w \in Workers : Proceed(w)
         \/ Spend \/ UNCHANGED vars
         \/ Provider
    BY DEF Next
  <1> HIDE DEF IInv
  <1>11. CASE \E w \in Workers : Serve(w) \/ Abort(w)
    BY <1>1, <1>11
  <1>12. CASE \E w \in Workers : Proceed(w)
    <2> PICK w \in Workers : Proceed(w)
      BY <1>12
    <2>1. CASE CreateCommit(w) \/ InvoiceCommit(w)
      BY <1>2, <2>1
    <2>2. CASE BindCommit(w)
      BY <1>3, <2>2
    <2>3. CASE Answer(w)
      BY <1>4, <2>3
    <2>4. CASE RecoverInquire(w) \/ FulfilBegin(w)
      BY <1>5, <2>4
    <2>5. CASE FulfilCommit(w) \/ RefundCommit(w)
      BY <1>6, <2>5
    <2> QED
      BY <1>9, <2>1, <2>2, <2>3, <2>4, <2>5
  <1> QED
    BY <1>7, <1>8, <1>10, <1>11, <1>12

LEMMA StateStep ==
  ASSUME IInv, [Next]_vars
  PROVE  \A o \in Orders : orders'[o].state # orders[o].state =>
           \/ /\ orders[o].state = "none" /\ orders'[o].state = "created"
              /\ orders'[o].product \in Products
           \/ orders[o].state = "created" /\ orders'[o].state = "pending"
           \/ /\ orders[o].state = "pending" /\ orders'[o].state = "fulfilled"
              /\ \E w \in Workers : /\ FulfilCommit(w) /\ work[w].order = o
                                    /\ orders[o].bound = work[w].txn
           \/ /\ orders[o].state = "fulfilled" /\ orders'[o].state = "refunded"
              /\ \E w \in Workers : RefundCommit(w) /\ work[w].order = o
  <1> SUFFICES ASSUME NEW o \in Orders, orders'[o].state # orders[o].state
               PROVE  \/ /\ orders[o].state = "none" /\ orders'[o].state = "created"
                         /\ orders'[o].product \in Products
                      \/ orders[o].state = "created" /\ orders'[o].state = "pending"
                      \/ /\ orders[o].state = "pending" /\ orders'[o].state = "fulfilled"
                         /\ \E w \in Workers : /\ FulfilCommit(w) /\ work[w].order = o
                                               /\ orders[o].bound = work[w].txn
                      \/ /\ orders[o].state = "fulfilled" /\ orders'[o].state = "refunded"
                         /\ \E w \in Workers : RefundCommit(w) /\ work[w].order = o
    OBVIOUS
  <1>a. orders \in [Orders -> OrderRow]
    BY DEF IInv, TypeOK
  <1>b. ASSUME NEW q, NEW st, orders' = [orders EXCEPT ![q].state = st]
        PROVE  q = o /\ orders'[o].state = st
    BY <1>a, <1>b DEF OrderRow
  <1>1. \E w \in Workers : \/ CreateCommit(w) \/ InvoiceCommit(w) \/ BindCommit(w)
                           \/ FulfilCommit(w) \/ RefundCommit(w)
    BY DEF Next, Serve, Proceed, Abort, CreateBegin, InvoiceBegin, RecoverRead,
           RefundBegin, PreCheckout, VerifyReceipt, Answer, RecoverInquire,
           FulfilBegin, Spend, Provider, Checkout, Pay, Fail, vars
  <1> PICK w \in Workers : \/ CreateCommit(w) \/ InvoiceCommit(w) \/ BindCommit(w)
                           \/ FulfilCommit(w) \/ RefundCommit(w)
    BY <1>1
  <1>2. CASE CreateCommit(w)
    <2>1. work[w].product \in Products
      BY <1>2 DEF CreateCommit, IInv, Requests
    <2> QED
      BY <1>2, <1>a, <2>1 DEF CreateCommit, OrderRow
  <1>3. CASE InvoiceCommit(w)
    BY <1>3, <1>a DEF InvoiceCommit, OrderRow
  <1>4. CASE BindCommit(w)
    BY <1>4, <1>a DEF BindCommit, OrderRow
  <1>5. CASE FulfilCommit(w)
    <2>1. /\ orders[work[w].order].state = "pending"
          /\ orders[work[w].order].bound = work[w].txn
          /\ orders' = [orders EXCEPT ![work[w].order].state = "fulfilled"]
      BY <1>5 DEF FulfilCommit
    <2> QED
      BY <1>5, <1>b, <2>1
  <1>6. CASE RefundCommit(w)
    <2>1. /\ orders[work[w].order].state = "fulfilled"
          /\ orders' = [orders EXCEPT ![work[w].order].state = "refunded"]
      BY <1>6 DEF RefundCommit
    <2> QED
      BY <1>6, <1>b, <2>1
  <1> QED
    BY <1>2, <1>3, <1>4, <1>5, <1>6

LEMMA StatusStep ==
  ASSUME IInv, [Next]_vars
  PROVE  \A t \in Txns : txns'[t].status # txns[t].status =>
           \/ txns'[t].status = "asked" /\ txns'[t].order \in Orders
           \/ /\ txns[t].status = "asked" /\ txns'[t].status = "approved"
              /\ \E w \in Workers : work[w].at = "approve" /\ work[w].txn = t
              /\ orders' = orders
           \/ txns[t].status # "none" /\ txns'[t].status = "failed"
           \/ txns[t].status = "approved" /\ txns'[t].status = "paid" /\ orders' = orders
  <1>a. txns \in [Txns -> Payment]
    BY DEF IInv, TypeOK
  <1>1. \/ \E w \in Workers : Answer(w)
        \/ Provider
        \/ txns' = txns
    BY DEF Next, Serve, Proceed, Abort, CreateBegin, InvoiceBegin, RecoverRead,
           RefundBegin, PreCheckout, VerifyReceipt, RecoverInquire, CreateCommit,
           InvoiceCommit, BindCommit, FulfilBegin, FulfilCommit, RefundCommit, Spend, vars
  <1>2. ASSUME NEW w \in Workers, Answer(w), NEW t \in Txns,
               txns'[t].status # txns[t].status
        PROVE  \/ /\ txns[t].status = "asked" /\ txns'[t].status = "approved"
                  /\ work[w].at = "approve" /\ work[w].txn = t
                  /\ orders' = orders
               \/ txns[t].status # "none" /\ txns'[t].status = "failed"
    BY <1>2, <1>a DEF Answer, Payment
  <1>3. ASSUME Provider, NEW t \in Txns, txns'[t].status # txns[t].status
        PROVE  \/ txns'[t].status = "asked" /\ txns'[t].order \in Orders
               \/ txns[t].status # "none" /\ txns'[t].status = "failed"
               \/ txns[t].status = "approved" /\ txns'[t].status = "paid" /\ orders' = orders
    BY <1>3, <1>a DEF Provider, Checkout, Pay, Fail, Payment
  <1> QED
    BY <1>1, <1>2, <1>3

LEMMA PaymentStep == IInv /\ [Next]_vars => Payments'
  <1> SUFFICES ASSUME IInv, [Next]_vars PROVE Payments'
    OBVIOUS
  <1>i. Requests /\ Locked /\ Payments
    BY DEF IInv
  <1>t. /\ orders \in [Orders -> OrderRow] /\ txns \in [Txns -> Payment]
        /\ orders' \in [Orders -> OrderRow] /\ txns' \in [Txns -> Payment]
    BY TypeStep DEF IInv, TypeOK
  <1>n. \A t \in Txns : t # NoTxn
    BY CoinAssumption
  <1>1. ASSUME NEW t \in Txns, txns'[t].status # "none" PROVE txns'[t].order \in Orders
    BY <1>1, <1>i, RowStep, StatusStep DEF Payments
  <1>2. ASSUME NEW t \in Txns, txns'[t].status \in {"approved", "paid"}
        PROVE  orders'[txns'[t].order].bound = t
    <2> DEFINE o == txns[t].order
    <2>1. txns[t].status # "none" /\ txns'[t].order = o /\ o \in Orders
      BY <1>2, <1>i, RowStep, StatusStep DEF Payments
    <2>2. CASE txns[t].status \in {"approved", "paid"}
      <3>1. orders[o].bound = t
        BY <2>2, <1>i DEF Payments
      <3>2. ASSUME orders'[o].bound # t PROVE FALSE
        <4>1. PICK w \in Workers : orders'[o].bound = work[w].txn /\ MayBind(o, work[w].txn)
          BY <2>1, <3>1, <3>2, RowStep
        <4> QED
          BY <1>n, <2>2, <3>1, <3>2, <4>1 DEF MayBind, Replaceable
      <3> QED
        BY <2>1, <3>2
    <2>3. CASE txns[t].status \notin {"approved", "paid"}
      <3>1. /\ txns[t].status = "asked" /\ orders' = orders
            /\ \E w \in Workers : work[w].at = "approve" /\ work[w].txn = t
        BY <1>2, <2>3, StatusStep
      <3> QED
        BY <2>1, <3>1, <1>i DEF Requests
    <2> QED
      BY <2>2, <2>3
  <1>3. ASSUME NEW o \in Orders, orders'[o].bound # NoTxn
        PROVE  /\ txns'[orders'[o].bound].order = o
               /\ txns'[orders'[o].bound].status # "none"
    <2>1. orders'[o].bound \in Txns
      BY <1>3, <1>t DEF OrderRow
    <2>2. /\ txns[orders'[o].bound].order = o
          /\ txns[orders'[o].bound].status # "none"
      BY <1>3, <1>i, RowStep DEF Payments, Requests
    <2> QED
      BY <2>1, <2>2, RowStep
  <1>4. ASSUME NEW o \in Orders, Credited(o)'
        PROVE  orders'[o].bound # NoTxn /\ txns'[orders'[o].bound].status = "paid"
    <2>1. orders[o].bound # NoTxn /\ txns[orders[o].bound].status = "paid"
          /\ orders[o].bound \in Txns
      <3>1. CASE Credited(o)
        BY <3>1, <1>i, <1>t DEF Payments, OrderRow
      <3>2. CASE ~Credited(o)
        <4>1. PICK w \in Workers : FulfilCommit(w) /\ orders[o].bound = work[w].txn
          BY <1>4, <3>2, StateStep DEF Credited
        <4> QED
          BY <4>1, <1>i, <1>n DEF FulfilCommit, Requests
      <3> QED
        BY <3>1, <3>2
    <2>2. orders'[o].bound = orders[o].bound
      <3> SUFFICES ASSUME orders'[o].bound # orders[o].bound PROVE FALSE
        OBVIOUS
      <3>1. PICK w \in Workers : /\ work[w].at = "bind" /\ work[w].order = o
                                 /\ orders'[o].bound = work[w].txn
                                 /\ MayBind(o, work[w].txn)
        BY RowStep
      <3> QED
        BY <2>1, <3>1, <1>n DEF MayBind, Replaceable
    <2> QED
      BY <2>1, <2>2, RowStep
  <1>5. ASSUME NEW o \in Orders, orders'[o].state # "none"
        PROVE  orders'[o].product \in Products
    BY <1>5, <1>i, RowStep, StateStep DEF Payments
  <1> QED
    BY <1>1, <1>2, <1>3, <1>4, <1>5 DEF Payments

-----------------------------------------------------------------------------
(* How the request of worker w goes on, and that no other one does.        *)
Advance(w) ==
  LET old == work[w]  new == work'[w] IN
  \/ new = Idle
  \/ /\ new.at = "create" /\ CareerFree
     /\ new.order \in Orders /\ new.product \in Products
  \/ new.at = "invoice" /\ new.order \in Orders
  \/ /\ new.at = "refund" /\ CareerFree /\ new.coins = coins /\ coins' = coins
     /\ new.order \in Orders /\ orders[new.order].state # "none"
  \/ /\ new.at = "recover" /\ new.order \in Orders
     /\ new.txn = orders[new.order].bound /\ new.txn # NoTxn
  \/ /\ new.at \in {"bind", "refuse"} /\ new.txn \in Txns
     /\ new.order = txns[new.txn].order /\ txns[new.txn].status # "none"
     /\ new.at = "bind" => orders[new.order].state = "pending" /\ orders' = orders
  \/ /\ new.at = "paid" /\ new.txn \in Txns
     /\ new.order = txns[new.txn].order /\ txns[new.txn].status = "paid"
  \/ /\ old.at = "bind" /\ new.at \in {"approve", "refuse"}
     /\ new.order = old.order /\ new.txn = old.txn
     /\ new.at = "approve" => orders'[new.order].bound = new.txn
  \/ /\ old.at = "recover" /\ new.at = "paid" /\ txns[new.txn].status = "paid"
     /\ new.order = old.order /\ new.txn = old.txn
  \/ /\ old.at = "paid" /\ new.at = "fulfil" /\ CareerFree
     /\ new.coins = coins /\ coins' = coins
     /\ new.order = old.order /\ new.txn = old.txn

Alone(w) == \A v \in Workers : v # w => work'[v] = work[v]

LEMMA WorkStep ==
  ASSUME IInv, [Next]_vars
  PROVE  work' = work \/ \E w \in Workers : Alone(w) /\ Advance(w)
  <1>t. work \in [Workers -> Request] /\ orders \in [Orders -> OrderRow]
    BY DEF IInv, TypeOK
  <1>r. Requests /\ Payments
    BY DEF IInv
  <1>e. ASSUME NEW w \in Workers, NEW step, Enter(w, step)
        PROVE  Alone(w) /\ work'[w] = step
    BY <1>e, <1>t DEF Enter, Alone
  <1>g. ASSUME NEW w \in Workers, NEW at, Goto(w, at)
        PROVE  /\ Alone(w) /\ work'[w].at = at
               /\ work'[w].order = work[w].order /\ work'[w].txn = work[w].txn
    BY <1>g, <1>t DEF Goto, Alone, Request
  <1>l. ASSUME NEW w \in Workers, Leave(w)
        PROVE  Alone(w) /\ Advance(w)
    BY <1>l, <1>t DEF Leave, Alone, Advance
  <1>1. ASSUME NEW w \in Workers, NEW o \in Orders, NEW p \in Products, CreateBegin(w, o, p)
        PROVE  Alone(w) /\ Advance(w)
    <2>1. Alone(w) /\ work'[w] = [Idle EXCEPT !.at = "create", !.order = o, !.product = p]
      BY <1>1, <1>e DEF CreateBegin
    <2>2. work'[w].at = "create" /\ work'[w].order = o /\ work'[w].product = p
      BY <2>1 DEF Idle
    <2> QED
      BY <1>1, <2>1, <2>2 DEF CreateBegin, Advance
  <1>2. ASSUME NEW w \in Workers, NEW o \in Orders, InvoiceBegin(w, o)
        PROVE  Alone(w) /\ Advance(w)
    <2>1. Alone(w) /\ work'[w] = [Idle EXCEPT !.at = "invoice", !.order = o]
      BY <1>2, <1>e DEF InvoiceBegin
    <2>2. work'[w].at = "invoice" /\ work'[w].order = o
      BY <2>1 DEF Idle
    <2> QED
      BY <1>2, <2>1, <2>2 DEF InvoiceBegin, Advance
  <1>3. ASSUME NEW w \in Workers, NEW o \in Orders, RecoverRead(w, o)
        PROVE  Alone(w) /\ Advance(w)
    <2>1. Alone(w) /\ work'[w] = [Idle EXCEPT !.at = "recover", !.order = o, !.txn = orders[o].bound]
      BY <1>3, <1>e DEF RecoverRead
    <2>2. work'[w].at = "recover" /\ work'[w].order = o /\ work'[w].txn = orders[o].bound
      BY <2>1 DEF Idle
    <2> QED
      BY <1>3, <2>1, <2>2 DEF RecoverRead, Advance
  <1>4. ASSUME NEW w \in Workers, NEW o \in Orders, RefundBegin(w, o)
        PROVE  Alone(w) /\ Advance(w)
    <2>1. Alone(w) /\ work'[w] = [Idle EXCEPT !.at = "refund", !.order = o, !.coins = coins]
      BY <1>4, <1>e DEF RefundBegin
    <2>2. work'[w].at = "refund" /\ work'[w].order = o /\ work'[w].coins = coins
      BY <2>1 DEF Idle
    <2> QED
      BY <1>4, <2>1, <2>2 DEF RefundBegin, Advance
  <1>5. ASSUME NEW w \in Workers, NEW t \in Txns, PreCheckout(w, t)
        PROVE  Alone(w) /\ Advance(w)
    <2> DEFINE step == [Idle EXCEPT !.order = txns[t].order, !.txn = t]
               at == IF orders[txns[t].order].state = "pending" THEN "bind" ELSE "refuse"
    <2>1. Alone(w) /\ work'[w] = [step EXCEPT !.at = at]
      BY <1>5, <1>e DEF PreCheckout
    <2>2. /\ work'[w].at = at /\ work'[w].txn = t /\ work'[w].order = txns[t].order
          /\ txns[t].status # "none" /\ orders' = orders
      BY <1>5, <2>1 DEF Idle, PreCheckout
    <2> QED
      BY <2>1, <2>2 DEF Advance
  <1>6. ASSUME NEW w \in Workers, NEW t \in Txns, VerifyReceipt(w, t)
        PROVE  Alone(w) /\ Advance(w)
    <2>1. Alone(w) /\ work'[w] = [Idle EXCEPT !.at = "paid", !.order = txns[t].order, !.txn = t]
      BY <1>6, <1>e DEF VerifyReceipt
    <2>2. work'[w].at = "paid" /\ work'[w].order = txns[t].order /\ work'[w].txn = t
      BY <2>1 DEF Idle
    <2> QED
      BY <1>6, <2>1, <2>2 DEF VerifyReceipt, Confirmed, Advance
  <1>7. ASSUME NEW w \in Workers,
               CreateCommit(w) \/ InvoiceCommit(w) \/ Answer(w) \/ FulfilCommit(w)
                 \/ RefundCommit(w) \/ Abort(w)
        PROVE  Alone(w) /\ Advance(w)
    BY <1>7, <1>l DEF CreateCommit, InvoiceCommit, Answer, FulfilCommit, RefundCommit, Abort
  <1>8. ASSUME NEW w \in Workers, BindCommit(w)
        PROVE  Alone(w) /\ Advance(w)
    <2>1. work[w].at = "bind" /\ work[w].order \in Orders
      BY <1>8, <1>r DEF BindCommit, Requests
    <2>2. CASE Goto(w, "refuse")
      BY <2>1, <2>2, <1>g DEF Advance
    <2>3. CASE Goto(w, "approve") /\ orders' = [orders EXCEPT ![work[w].order].bound = work[w].txn]
      <3>1. orders'[work[w].order].bound = work[w].txn
        BY <2>1, <2>3, <1>t DEF OrderRow
      <3> QED
        BY <2>1, <2>3, <3>1, <1>g DEF Advance
    <2> QED
      BY <1>8, <2>2, <2>3 DEF BindCommit
  <1>9. ASSUME NEW w \in Workers, RecoverInquire(w)
        PROVE  Alone(w) /\ Advance(w)
    BY <1>9, <1>g, <1>l DEF RecoverInquire, Confirmed, Advance
  <1>10. ASSUME NEW w \in Workers, FulfilBegin(w)
         PROVE  Alone(w) /\ Advance(w)
    <2>1. /\ Alone(w) /\ work'[w].at = "fulfil" /\ work'[w].coins = coins
          /\ work'[w].order = work[w].order /\ work'[w].txn = work[w].txn
      BY <1>10, <1>t DEF FulfilBegin, Alone, Request
    <2> QED
      BY <1>10, <2>1 DEF FulfilBegin, Advance
  <1>11. CASE Spend \/ Provider \/ UNCHANGED vars
    BY <1>11 DEF Spend, Provider, Checkout, Pay, Fail, vars
  <1> QED
    BY <1>1, <1>2, <1>3, <1>4, <1>5, <1>6, <1>7, <1>8, <1>9, <1>10, <1>11
    DEF Next, Serve, Proceed

(* The balance moves only in the hands of the one who locked the career.   *)
LEMMA CoinStep ==
  ASSUME IInv, [Next]_vars, coins' # coins
  PROVE  Spend \/ \E w \in Workers : FulfilCommit(w) \/ RefundCommit(w)
  BY DEF Next, Serve, Proceed, Abort, Provider, CreateBegin, InvoiceBegin, RecoverRead,
         RefundBegin, PreCheckout, VerifyReceipt, CreateCommit, InvoiceCommit, BindCommit,
         Answer, RecoverInquire, FulfilBegin, Checkout, Pay, Fail, vars

LEMMA LockedStep == IInv /\ [Next]_vars => Locked'
  <1> SUFFICES ASSUME IInv, [Next]_vars PROVE Locked'
    OBVIOUS
  <1>i. Requests /\ Locked
    BY DEF IInv
  <1>t. work \in [Workers -> Request] /\ orders \in [Orders -> OrderRow]
    BY DEF IInv, TypeOK
  <1>w. ASSUME NEW w \in Workers, work'[w] # work[w]
        PROVE  Alone(w) /\ Advance(w)
    BY <1>w, WorkStep DEF Alone
  <1>1. ASSUME NEW v \in Workers, NEW w \in Workers, InCareer(v)', InCareer(w)', v # w
        PROVE  FALSE
    <2>1. ASSUME NEW u \in Workers, InCareer(u)', ~InCareer(u)
          PROVE  CareerFree /\ Alone(u)
      <3>1. work'[u] # work[u]
        BY <2>1 DEF InCareer
      <3> QED
        BY <2>1, <3>1, <1>w DEF InCareer, Advance, Idle
    <2> QED
      BY <1>1, <1>i, <2>1 DEF CareerFree, Locked, InCareer, Alone
  <1>2. ASSUME NEW w \in Workers, work'[w].at \in {"fulfil", "refund"}
        PROVE  work'[w].coins = coins'
    <2>1. CASE work'[w] = work[w]
      <3>1. coins' = coins
        <4> SUFFICES ASSUME coins' # coins PROVE FALSE
          OBVIOUS
        <4>1. CASE Spend
          BY <1>2, <2>1, <4>1 DEF Spend, CareerFree
        <4>2. ASSUME NEW u \in Workers, FulfilCommit(u) \/ RefundCommit(u) PROVE FALSE
          <5>1. InCareer(u) /\ InCareer(w)
            BY <1>2, <2>1, <4>2 DEF FulfilCommit, RefundCommit, InCareer
          <5>2. u = w
            BY <5>1, <1>i DEF Locked
          <5>3. work'[u] = Idle
            BY <4>2, <1>t DEF FulfilCommit, RefundCommit, Leave
          <5> QED
            BY <1>2, <5>2, <5>3 DEF Idle
        <4> QED
          BY <4>1, <4>2, CoinStep
      <3> QED
        BY <1>2, <2>1, <3>1, <1>i DEF Locked
    <2>2. CASE work'[w] # work[w]
      BY <1>2, <2>2, <1>w DEF Advance, Idle
    <2> QED
      BY <2>1, <2>2
  <1>3. ASSUME NEW w \in Workers, work'[w].at = "bind"
        PROVE  orders'[work'[w].order].state = "pending"
    <2>1. CASE work'[w] = work[w]
      <3> DEFINE o == work[w].order
      <3>1. o \in Orders /\ orders[o].state = "pending" /\ work[w].at = "bind"
        BY <1>3, <2>1, <1>i DEF Locked, Requests
      <3>2. ASSUME orders'[o].state # "pending" PROVE FALSE
        <4>1. PICK u \in Workers : FulfilCommit(u) /\ work[u].order = o
          BY <3>1, <3>2, StateStep
        <4> QED
          BY <3>1, <4>1 DEF FulfilCommit, OrderFree
      <3> QED
        BY <2>1, <3>2
    <2>2. CASE work'[w] # work[w]
      BY <1>3, <2>2, <1>w DEF Advance, Idle
    <2> QED
      BY <2>1, <2>2
  <1> QED
    BY <1>1, <1>2, <1>3 DEF Locked

LEMMA RequestStep == IInv /\ [Next]_vars => Requests'
  <1> SUFFICES ASSUME IInv, [Next]_vars PROVE Requests'
    OBVIOUS
  <1>i. Requests /\ Payments
    BY DEF IInv
  <1>t. work' \in [Workers -> Request] /\ txns \in [Txns -> Payment]
        /\ orders \in [Orders -> OrderRow]
    BY TypeStep DEF IInv, TypeOK
  <1>n. \A t \in Txns : t # NoTxn
    BY CoinAssumption
  <1> DEFINE Named(w) ==
        /\ work'[w].at # "idle" => work'[w].order \in Orders
        /\ work'[w].at = "create" => work'[w].product \in Products
        /\ work'[w].at = "refund" => orders[work'[w].order].state # "none"
        /\ work'[w].at \in {"bind", "approve", "refuse", "recover", "paid", "fulfil"} =>
             /\ work'[w].txn \in Txns
             /\ txns[work'[w].txn].order = work'[w].order
             /\ txns[work'[w].txn].status # "none"
        /\ work'[w].at \in {"paid", "fulfil"} => txns[work'[w].txn].status = "paid"
  <1>1. ASSUME NEW w \in Workers PROVE Named(w)
    <2>1. CASE work'[w] = work[w]
      BY <2>1, <1>i DEF Requests
    <2>2. CASE work'[w] # work[w]
      <3>1. Advance(w)
        BY <2>2, WorkStep DEF Alone
      <3>2. ASSUME NEW o \in Orders, orders[o].bound # NoTxn
            PROVE  /\ orders[o].bound \in Txns
                   /\ txns[orders[o].bound].order = o
                   /\ txns[orders[o].bound].status # "none"
        BY <3>2, <1>i, <1>t DEF Payments, OrderRow
      <3>3. ASSUME NEW t \in Txns, txns[t].status # "none" PROVE txns[t].order \in Orders
        BY <3>3, <1>i DEF Payments
      <3>4. CASE work'[w] = Idle
        BY <3>4 DEF Idle
      <3>5. CASE work'[w].at \in {"create", "invoice", "refund"}
        BY <3>5, <3>1 DEF Advance, Idle
      <3>6. CASE work'[w].at = "recover"
        BY <3>6, <3>1, <3>2 DEF Advance, Idle
      <3>7. CASE work'[w].at = "bind"
        BY <3>7, <3>1, <3>3 DEF Advance, Idle
      <3>8. CASE work'[w].at \in {"approve", "refuse"}
        BY <3>8, <3>1, <3>3, <1>i DEF Advance, Requests, Idle
      <3>9. CASE work'[w].at \in {"paid", "fulfil"}
        BY <3>9, <3>1, <3>3, <1>i DEF Advance, Requests, Idle
      <3> QED
        BY <3>1, <3>4, <3>5, <3>6, <3>7, <3>8, <3>9 DEF Advance
    <2> QED
      BY <2>1, <2>2
  <1>2. ASSUME NEW w \in Workers, work'[w].at = "approve"
        PROVE  \/ orders'[work'[w].order].bound = work'[w].txn
               \/ txns'[work'[w].txn].status = "failed"
    <2> DEFINE o == work'[w].order
               t == work'[w].txn
    <2>0. o \in Orders /\ t \in Txns
      BY <1>1, <1>2
    <2>1. CASE work'[w] = work[w]
      <3>1. orders[o].bound = t \/ txns[t].status = "failed"
        BY <1>2, <2>1, <1>i DEF Requests
      <3>2. txns[t].status = "failed" => txns'[t].status = "failed"
        BY <2>0, RowStep
      <3>3. CASE orders[o].bound = t /\ orders'[o].bound # t
        <4>1. PICK u \in Workers : /\ orders'[o].bound = work[u].txn
                                   /\ MayBind(o, work[u].txn)
          BY <2>0, <3>3, RowStep
        <4>2. txns[t].status = "failed"
          BY <1>n, <2>0, <3>3, <4>1 DEF MayBind, Replaceable
        <4> QED
          BY <3>2, <4>2
      <3> QED
        BY <3>1, <3>2, <3>3
    <2>2. CASE work'[w] # work[w]
      BY <1>2, <2>2, WorkStep DEF Alone, Advance, Idle
    <2> QED
      BY <2>1, <2>2
  <1>3. ASSUME NEW w \in Workers, work'[w].at = "refund"
        PROVE  orders'[work'[w].order].state # "none"
    BY <1>1, <1>3, StateStep
  <1>4. ASSUME NEW w \in Workers,
               work'[w].at \in {"bind", "approve", "refuse", "recover", "paid", "fulfil"}
        PROVE  /\ txns'[work'[w].txn].order = work'[w].order
               /\ txns'[work'[w].txn].status # "none"
    BY <1>1, <1>4, RowStep
  <1>5. ASSUME NEW w \in Workers, work'[w].at \in {"paid", "fulfil"}
        PROVE  txns'[work'[w].txn].status = "paid"
    BY <1>1, <1>5, RowStep
  <1> QED
    BY <1>1, <1>2, <1>3, <1>4, <1>5 DEF Requests

-----------------------------------------------------------------------------
(* An insertion under a new id appends one entry that starts at the        *)
(* balance there is.                                                       *)
LEMMA InsertNew ==
  ASSUME TypeOK, NEW id \in LedgerId, NEW after \in Nat, InsertLedger(id, coins, after),
         ~Entered(id)
  PROVE  /\ Len(ledger') = Len(ledger) + 1
         /\ \A k \in DOMAIN ledger : ledger'[k] = ledger[k]
         /\ ledger'[Len(ledger')].id = id
         /\ ledger'[Len(ledger')].previous = coins
         /\ ledger'[Len(ledger')].resulting = after
         /\ \A other : Entered(other)' <=> Entered(other) \/ other = id
  <1> DEFINE entry == [id |-> id, previous |-> coins, resulting |-> after]
  <1>1. coins \in Nat /\ entry \in LedgerEntry /\ ledger \in Seq(LedgerEntry)
    BY CoinAssumption DEF TypeOK, LedgerEntry
  <1>2. ledger' = Append(ledger, entry)
    BY DEF InsertLedger, Entered
  <1>3. entry.id = id /\ entry.previous = coins /\ entry.resulting = after
    OBVIOUS
  <1> HIDE DEF entry
  <1>4. /\ Len(ledger') = Len(ledger) + 1
        /\ \A k \in 1..Len(ledger) : ledger'[k] = ledger[k]
        /\ ledger'[Len(ledger) + 1] = entry
        /\ DOMAIN ledger = 1..Len(ledger) /\ DOMAIN ledger' = 1..(Len(ledger) + 1)
        /\ Len(ledger) \in Nat
    BY <1>1, <1>2
  <1>5. ASSUME NEW other PROVE Entered(other)' <=> Entered(other) \/ other = id
    BY <1>3, <1>4 DEF Entered
  <1> QED
    BY <1>3, <1>4, <1>5

(* The chain is extended by an entry that starts at the balance there is   *)
(* and leaves the new one.                                                 *)
LEMMA ChainGrows ==
  ASSUME TypeOK, LedgerExplainsBalance, NEW id \in LedgerId, coins' \in Nat,
         InsertLedger(id, coins, coins'), ~Entered(id)
  PROVE  LedgerExplainsBalance'
  <1>1. /\ Len(ledger') = Len(ledger) + 1
        /\ \A k \in DOMAIN ledger : ledger'[k] = ledger[k]
        /\ ledger'[Len(ledger')].previous = coins
        /\ ledger'[Len(ledger')].resulting = coins'
    BY InsertNew
  <1>2. /\ ledger \in Seq(LedgerEntry) /\ Len(ledger) \in Nat
        /\ DOMAIN ledger = 1..Len(ledger)
    BY DEF TypeOK
  <1>3. ledger' \in Seq(LedgerEntry)
    BY InsertTyped
  <1>4. DOMAIN ledger' = 1..(Len(ledger) + 1) /\ ledger' # <<>>
    BY <1>1, <1>2, <1>3
  <1>5. coins = IF ledger = <<>> THEN InitialCoins ELSE ledger[Len(ledger)].resulting
    BY DEF LedgerExplainsBalance
  <1>6. ledger = <<>> <=> Len(ledger) = 0
    BY <1>2
  <1>7. ASSUME NEW k \in DOMAIN ledger'
        PROVE  ledger'[k].previous =
                 IF k = 1 THEN InitialCoins ELSE ledger'[k - 1].resulting
    <2>1. CASE k \in DOMAIN ledger
      <3>1. ledger[k].previous = IF k = 1 THEN InitialCoins ELSE ledger[k - 1].resulting
        BY <2>1 DEF LedgerExplainsBalance
      <3>2. k = 1 \/ k - 1 \in DOMAIN ledger
        BY <1>2, <2>1
      <3> QED
        BY <1>1, <2>1, <3>1, <3>2
    <2>2. CASE k = Len(ledger) + 1
      <3>1. CASE Len(ledger) = 0
        BY <1>1, <1>5, <1>6, <2>2, <3>1
      <3>2. CASE Len(ledger) # 0
        <4>1. k # 1 /\ k - 1 = Len(ledger) /\ Len(ledger) \in DOMAIN ledger
          BY <1>2, <2>2, <3>2
        <4> QED
          BY <1>1, <1>5, <1>6, <2>2, <3>2, <4>1
      <3> QED
        BY <3>1, <3>2
    <2> QED
      BY <1>2, <1>4, <2>1, <2>2
  <1> QED
    BY <1>1, <1>4, <1>7 DEF LedgerExplainsBalance

LEMMA LedgerStep == IInv /\ [Next]_vars => Ledger'
  <1> SUFFICES ASSUME IInv, [Next]_vars PROVE Ledger'
    OBVIOUS
  <1>i. TypeOK /\ Ledger /\ Locked /\ Requests /\ LedgerExplainsBalance
    BY DEF IInv, Ledger
  <1>t. TypeOK' /\ coins' \in Nat
    BY TypeStep, CoinAssumption DEF TypeOK
  <1>1. CASE ledger' = ledger /\ coins' = coins /\ spends' = spends
             /\ \A w \in Workers : ~FulfilCommit(w) /\ ~RefundCommit(w)
    <2>1. \A o \in Orders : /\ Credited(o)' <=> Credited(o)
                            /\ orders'[o].state = "refunded" <=> orders[o].state = "refunded"
      BY <1>1, StateStep DEF Credited
    <2>3. \A id : Entered(id)' <=> Entered(id)
      BY <1>1 DEF Entered
    <2>4. LedgerExplainsBalance'
      BY <1>i, <1>1 DEF LedgerExplainsBalance
    <2> QED
      BY <1>i, <1>1, <2>1, <2>3, <2>4 DEF Ledger
  <1>2. ASSUME NEW w \in Workers, FulfilCommit(w) PROVE Ledger'
    <2> DEFINE o == work[w].order
    <2>1. o \in Orders /\ work[w].coins = coins
      BY <1>2, <1>i DEF FulfilCommit, Requests, Locked
    <2>2. CASE UNCHANGED <<orders, coins, ledger, spends>>
      BY <1>i, <2>2 DEF Ledger, Entered, Credited, LedgerExplainsBalance
    <2>3. CASE /\ orders[o].state = "pending"
               /\ InsertLedger(<<"coin_order", o>>, coins, coins')
               /\ orders' = [orders EXCEPT ![o].state = "fulfilled"]
               /\ spends' = spends
      <3>1. <<"coin_order", o>> \in LedgerId /\ ~Entered(<<"coin_order", o>>)
        BY <2>1, <2>3, <1>i DEF LedgerId, Ledger, Credited
      <3>2. LedgerExplainsBalance'
        BY <1>i, <1>t, <2>3, <3>1, ChainGrows
      <3>3. \A other : Entered(other)' <=> Entered(other) \/ other = <<"coin_order", o>>
        BY <1>i, <1>t, <2>3, <3>1, InsertNew
      <3>4. \A q \in Orders : orders'[q].state = IF q = o THEN "fulfilled" ELSE orders[q].state
        BY <1>i, <2>1, <2>3 DEF TypeOK, OrderRow
      <3> QED
        BY <1>i, <2>1, <2>3, <3>2, <3>3, <3>4 DEF Ledger, Credited
    <2> QED
      BY <1>2, <2>1, <2>2, <2>3 DEF FulfilCommit
  <1>3. ASSUME NEW w \in Workers, RefundCommit(w) PROVE Ledger'
    <2> DEFINE o == work[w].order
    <2>1. o \in Orders /\ work[w].coins = coins
      BY <1>3, <1>i DEF RefundCommit, Requests, Locked
    <2>2. CASE UNCHANGED <<orders, coins, ledger, spends>>
      BY <1>i, <2>2 DEF Ledger, Entered, Credited, LedgerExplainsBalance
    <2>3. CASE /\ orders[o].state = "fulfilled"
               /\ InsertLedger(<<"coin_refund", o>>, coins, coins')
               /\ orders' = [orders EXCEPT ![o].state = "refunded"]
               /\ spends' = spends
      <3>1. <<"coin_refund", o>> \in LedgerId /\ ~Entered(<<"coin_refund", o>>)
        BY <2>1, <2>3, <1>i DEF LedgerId, Ledger
      <3>2. LedgerExplainsBalance'
        BY <1>i, <1>t, <2>3, <3>1, ChainGrows
      <3>3. \A other : Entered(other)' <=> Entered(other) \/ other = <<"coin_refund", o>>
        BY <1>i, <1>t, <2>3, <3>1, InsertNew
      <3>4. \A q \in Orders : orders'[q].state = IF q = o THEN "refunded" ELSE orders[q].state
        BY <1>i, <2>1, <2>3 DEF TypeOK, OrderRow
      <3> QED
        BY <1>i, <2>1, <2>3, <3>2, <3>3, <3>4 DEF Ledger, Credited
    <2> QED
      BY <1>3, <2>1, <2>2, <2>3 DEF RefundCommit
  <1>4. CASE Spend
    <2>1. spends \in Nat /\ <<"upgrade", spends>> \in LedgerId
      BY <1>i DEF LedgerId, TypeOK
    <2>2. ~Entered(<<"upgrade", spends>>)
      BY <1>i, <2>1 DEF Ledger
    <2>3. /\ InsertLedger(<<"upgrade", spends>>, coins, coins') /\ spends' = spends + 1
          /\ orders' = orders
      BY <1>4 DEF Spend
    <2>4. LedgerExplainsBalance'
      BY <1>i, <1>t, <2>1, <2>2, <2>3, ChainGrows
    <2>5. \A other : Entered(other)' <=> Entered(other) \/ other = <<"upgrade", spends>>
      BY <1>i, <1>t, <2>1, <2>2, <2>3, InsertNew
    <2> QED
      BY <1>i, <2>1, <2>3, <2>4, <2>5 DEF Ledger, Credited
  <1>5. \/ ledger' = ledger /\ coins' = coins /\ spends' = spends
        \/ Spend
        \/ \E w \in Workers : FulfilCommit(w) \/ RefundCommit(w)
    BY DEF Next, Serve, Proceed, Abort, Provider, CreateBegin, InvoiceBegin, RecoverRead,
           RefundBegin, PreCheckout, VerifyReceipt, CreateCommit, InvoiceCommit, BindCommit,
           Answer, RecoverInquire, FulfilBegin, Checkout, Pay, Fail, vars
  <1> QED
    BY <1>1, <1>2, <1>3, <1>4, <1>5

-----------------------------------------------------------------------------
(* The inductive invariant: its parts are preserved one by one, each step  *)
(* lemma above saying what one row may do.                                 *)
THEOREM Invariance == Spec => []IInv
  <1>1. Init => IInv
    BY InitInv
  <1>2. IInv /\ [Next]_vars => IInv'
    BY TypeStep, LockedStep, RequestStep, PaymentStep, LedgerStep DEF IInv
  <1> QED
    BY <1>1, <1>2, PTL DEF Spec

(* Rows and balance keep their types and bounds: no credit overflows, no   *)
(* refund goes below zero.                                                 *)
THEOREM TypeCorrect == Spec => []TypeOK
  <1>1. IInv => TypeOK
    BY DEF IInv
  <1> QED
    BY <1>1, Invariance, PTL

(* Nobody is charged twice for an order.                                   *)
THEOREM NoDoubleCharge == Spec => []PaidIsBound
  <1>1. IInv => PaidIsBound
    BY DEF IInv, Payments, PaidIsBound
  <1> QED
    BY <1>1, Invariance, PTL

(* Coins are credited and clawed back once per order, for a confirmed      *)
(* payment of that order.                                                  *)
THEOREM CreditCorrect == Spec => []CreditedOnce
  <1>1. IInv => CreditedOnce
    <2> SUFFICES ASSUME IInv PROVE CreditedOnce
      OBVIOUS
    <2>1. ASSUME NEW o \in Orders, Credited(o)
          PROVE  /\ orders[o].bound # NoTxn
                 /\ txns[orders[o].bound] = [order |-> o, status |-> "paid"]
      <3>1. /\ orders[o].bound \in Txns
            /\ txns[orders[o].bound].order = o
            /\ txns[orders[o].bound].status = "paid"
            /\ txns \in [Txns -> Payment]
            /\ orders[o].bound # NoTxn
        BY <2>1 DEF IInv, Payments, TypeOK, OrderRow
      <3> QED
        BY <3>1 DEF Payment
    <2>2. ASSUME NEW o \in Orders, NEW kind
          PROVE  {k \in DOMAIN ledger : ledger[k].id = <<kind, o>>} # {}
                   <=> Entered(<<kind, o>>)
      BY DEF Entered
    <2>3. ASSUME NEW o \in Orders
          PROVE  /\ Entered(<<"coin_order", o>>) <=> Credited(o)
                 /\ Entered(<<"coin_refund", o>>) <=> orders[o].state = "refunded"
      BY DEF IInv, Ledger
    <2> QED
      BY <2>1, <2>2, <2>3 DEF CreditedOnce, Credited
  <1> QED
    BY <1>1, Invariance, PTL

(* The ledger always explains the balance.                                 *)
THEOREM LedgerCorrect == Spec => []LedgerExplainsBalance
  <1>1. IInv => LedgerExplainsBalance
    BY DEF IInv, Ledger
  <1> QED
    BY <1>1, Invariance, PTL

(* The binding of an order is only ever replaced after its payment failed. *)
THEOREM BindingCorrect == Spec => BindingIsKept
  <1>1. ASSUME IInv, [Next]_vars
        PROVE  [\A o \in Orders :
                  LET prior == orders[o].bound IN
                  prior # NoTxn /\ orders'[o].bound # prior =>
                    txns[prior].status = "failed"]_vars
    <2>1. ASSUME NEW o \in Orders, orders[o].bound # NoTxn,
                 orders'[o].bound # orders[o].bound
          PROVE  txns[orders[o].bound].status = "failed"
      <3>1. PICK w \in Workers : /\ orders'[o].bound = work[w].txn
                                 /\ MayBind(o, work[w].txn)
        BY <1>1, <2>1, RowStep
      <3> QED
        BY <2>1, <3>1 DEF MayBind, Replaceable
    <2> QED
      BY <2>1
  <1> QED
    BY <1>1, Invariance, PTL DEF Spec, BindingIsKept

(* A row is inserted only when CreateCommit finds none to reuse.           *)
LEMMA InsertStep ==
  ASSUME IInv, [Next]_vars
  PROVE  \/ \A r \in Orders : /\ orders'[r].product = orders[r].product
                              /\ Open(r)' => Open(r)
         \/ \E r \in Orders, p \in Products :
              /\ orders' = [orders EXCEPT ![r].state = "created", ![r].product = p]
              /\ ~Reusable(p)
  <1>1. CASE \E w \in Workers : CreateCommit(w)
    <2> PICK w \in Workers : CreateCommit(w)
      BY <1>1
    <2>1. work[w].order \in Orders /\ work[w].product \in Products
      BY DEF CreateCommit, IInv, Requests
    <2>2. CASE orders' = orders
      BY <2>2 DEF Open
    <2>3. CASE orders' # orders
      BY <2>1, <2>3 DEF CreateCommit
    <2> QED
      BY <2>2, <2>3
  <1>2. CASE ~\E w \in Workers : CreateCommit(w)
    <2>1. ASSUME NEW r \in Orders, orders[r].state = "none" PROVE orders'[r] = orders[r]
      <3>1. orders \in [Orders -> OrderRow]
        BY DEF IInv, TypeOK
      <3> QED
        BY <1>2, <2>1, <3>1 DEF IInv, Locked, Next, Serve, Proceed, Abort, Provider,
           CreateBegin, InvoiceBegin, RecoverRead, RefundBegin, PreCheckout,
           VerifyReceipt, InvoiceCommit, BindCommit, Answer, RecoverInquire, FulfilBegin,
           FulfilCommit, RefundCommit, Spend, Checkout, Pay, Fail, vars
    <2> QED
      BY <2>1, RowStep, StateStep DEF Open
  <1> QED
    BY <1>1, <1>2

(* Never two open orders of a product, nor a second starter.               *)
THEOREM OpenOrderCorrect == Spec => []OneOpenOrder
  <1>1. Init => OneOpenOrder
    BY DEF Init, OneOpenOrder, Open
  <1>2. ASSUME IInv, OneOpenOrder, [Next]_vars
        PROVE  OneOpenOrder'
    <2> SUFFICES ASSUME NEW o \in Orders, NEW q \in Orders, o # q, Open(o)',
                        orders'[o].product = orders'[q].product
                 PROVE  orders'[o].product # Starter /\ ~Open(q)'
      BY DEF OneOpenOrder
    <2>1. CASE \A r \in Orders : orders'[r].product = orders[r].product /\ (Open(r)' => Open(r))
      BY <1>2, <2>1 DEF OneOpenOrder
    <2>2. ASSUME NEW r \in Orders, NEW p \in Products,
                 orders' = [orders EXCEPT ![r].state = "created", ![r].product = p],
                 ~Reusable(p)
          PROVE  orders'[o].product # Starter /\ ~Open(q)'
      <3>1. orders'[r].product = p
        BY <1>2, <2>2 DEF IInv, TypeOK, OrderRow
      <3>2. \A x \in Orders \ {r} : orders'[x] = orders[x]
        BY <1>2, <2>2 DEF IInv, TypeOK
      <3>3. CASE o = r
        BY <2>2, <3>1, <3>2, <3>3 DEF Reusable, Open
      <3>4. CASE q = r
        BY <2>2, <3>1, <3>2, <3>4 DEF Reusable, Open
      <3>5. CASE o # r /\ q # r
        BY <1>2, <3>2, <3>5 DEF OneOpenOrder, Open
      <3> QED
        BY <3>3, <3>4, <3>5
    <2> QED
      BY <1>2, <2>1, <2>2, InsertStep
  <1> QED
    BY <1>1, <1>2, Invariance, PTL DEF Spec

-----------------------------------------------------------------------------
(* The orders that were ever credited, those not taken back, and what an   *)
(* order is worth.                                                         *)
Received == {o \in Orders : Credited(o)}
Kept == {o \in Orders : orders[o].state = "fulfilled"}
Worth == [o \in Orders |-> Price[orders[o].product]]

(* What the player has and has spent.                                      *)
Had == coins + spends * UpgradeCost

CoinsArePaidFor ==
  /\ InitialCoins + SumOf(Worth, Kept) <= Had
  /\ Had <= InitialCoins + SumOf(Worth, Received)

Summed == IsFiniteSet(Received) /\ CoinsArePaidFor

LEMMA WorthTyped ==
  ASSUME IInv, Summed
  PROVE  /\ IsFiniteSet(Received) /\ IsFiniteSet(Kept) /\ Kept \subseteq Received
         /\ \A o \in Received : Worth[o] \in Nat
         /\ SumOf(Worth, Received) \in Int /\ SumOf(Worth, Kept) \in Int
         /\ coins \in Nat /\ Had \in Int /\ InitialCoins \in Int
  <1>1. IsFiniteSet(Received) /\ Kept \subseteq Received /\ IsFiniteSet(Kept)
    <2>1. Kept \subseteq Received
      BY DEF Kept, Received, Credited
    <2> QED
      BY <2>1, FS_Subset DEF Summed
  <1>2. \A o \in Received : Worth[o] \in Nat
    BY CoinAssumption DEF IInv, Payments, Received, Credited, Worth
  <1>3. SumOf(Worth, Received) \in Int /\ SumOf(Worth, Kept) \in Int
    BY <1>1, <1>2, SumOfTyped
  <1>4. coins \in Nat /\ InitialCoins \in Int /\ Had \in Int
    BY CoinAssumption DEF IInv, TypeOK, Had
  <1> QED
    BY <1>1, <1>2, <1>3, <1>4

(* A step that neither credits nor takes back changes no sum: an order     *)
(* keeps its product.                                                      *)
LEMMA WorthKept ==
  ASSUME IInv, Summed, [Next]_vars, NEW S, S \subseteq Received
  PROVE  SumOf(Worth', S) = SumOf(Worth, S)
  <1>1. \A o \in Received : Worth'[o] = Worth[o]
    BY RowStep DEF Received, Credited, Worth
  <1>2. \A o \in S : Worth'[o] = Worth[o] /\ Worth[o] \in Int
    BY <1>1, WorthTyped
  <1>3. IsFiniteSet(S)
    BY WorthTyped, FS_Subset
  <1> QED
    BY <1>2, <1>3, SumOfSame
LEMMA SummedStep == IInv /\ Summed /\ [Next]_vars => Summed'
  <1> SUFFICES ASSUME IInv, Summed, [Next]_vars PROVE Summed'
    OBVIOUS
  <1>a. /\ IsFiniteSet(Received) /\ IsFiniteSet(Kept) /\ Kept \subseteq Received
        /\ \A o \in Received : Worth[o] \in Nat
        /\ SumOf(Worth, Received) \in Int /\ SumOf(Worth, Kept) \in Int
        /\ coins \in Nat /\ Had \in Int /\ InitialCoins \in Int
    BY WorthTyped
  <1>b. /\ InitialCoins + SumOf(Worth, Kept) <= Had
        /\ Had <= InitialCoins + SumOf(Worth, Received)
    BY DEF Summed, CoinsArePaidFor
  <1>c. /\ SumOf(Worth', Received) = SumOf(Worth, Received)
        /\ SumOf(Worth', Kept) = SumOf(Worth, Kept)
    BY <1>a, WorthKept
  <1>t. /\ orders \in [Orders -> OrderRow]
        /\ \A w \in Workers : work[w].at \in {"fulfil", "refund"} =>
             work[w].coins = coins /\ work[w].order \in Orders
    BY DEF IInv, TypeOK, Locked, Requests
  <1>1. CASE /\ \A o \in Orders : orders'[o].state = orders[o].state
             /\ Had' = Had
    <2>1. Received' = Received /\ Kept' = Kept
      BY <1>1 DEF Received, Kept, Credited
    <2> QED
      BY <1>1, <1>a, <1>b, <1>c, <2>1 DEF Summed, CoinsArePaidFor
  <1>2. ASSUME NEW w \in Workers, FulfilCommit(w), orders' # orders PROVE Summed'
    <2> DEFINE o == work[w].order
    <2>1. /\ o \in Orders /\ orders[o].state = "pending"
          /\ coins' = coins + Worth[o] /\ spends' = spends
          /\ orders' = [orders EXCEPT ![o].state = "fulfilled"]
      BY <1>2, <1>t DEF FulfilCommit, Worth
    <2> HIDE DEF o
    <2>2. \A q \in Orders : orders'[q].state = IF q = o THEN "fulfilled" ELSE orders[q].state
      BY <1>t, <2>1 DEF OrderRow
    <2>3. /\ Received' = Received \cup {o} /\ Kept' = Kept \cup {o}
          /\ o \notin Received /\ o \notin Kept
      BY <2>1, <2>2 DEF Received, Kept, Credited
    <2>4. \A q \in Orders : Worth'[q] = Worth[q]
      BY <2>1, <1>t DEF Worth, OrderRow
    <2>5. Worth[o] \in Nat
      BY <2>1, CoinAssumption DEF IInv, Payments, Worth
    <2>6. \A q \in Received \cup {o} : Worth'[q] = Worth[q] /\ Worth'[q] \in Int
      BY <1>a, <2>1, <2>4, <2>5 DEF Received
    <2>7. /\ SumOf(Worth', Received') = SumOf(Worth, Received) + Worth[o]
          /\ SumOf(Worth', Kept') = SumOf(Worth, Kept) + Worth[o]
      <3>1. \A q \in Received \cup {o} : Worth'[q] \in Int
        BY <2>6
      <3>2. \A q \in Kept \cup {o} : Worth'[q] \in Int
        BY <1>a, <3>1
      <3>3. SumOf(Worth', Received \cup {o}) = SumOf(Worth', Received) + Worth'[o]
        BY <1>a, <2>3, <3>1, SumOfOneMore
      <3>4. SumOf(Worth', Kept \cup {o}) = SumOf(Worth', Kept) + Worth'[o]
        BY <1>a, <2>3, <3>2, SumOfOneMore
      <3> QED
        BY <1>c, <2>1, <2>3, <2>4, <3>3, <3>4
    <2>8. Had' = Had + Worth[o]
      <3>1. spends * UpgradeCost \in Int
        BY CoinAssumption DEF IInv, TypeOK
      <3> QED
        BY <1>a, <2>1, <2>5, <3>1 DEF Had
    <2>9. IsFiniteSet(Received')
      BY <1>a, <2>3, FS_AddElement
    <2> QED
      BY <1>a, <1>b, <2>5, <2>7, <2>8, <2>9 DEF Summed, CoinsArePaidFor
  <1>3. ASSUME NEW w \in Workers, RefundCommit(w), orders' # orders PROVE Summed'
    <2> DEFINE o == work[w].order
    <2>1. /\ o \in Orders /\ orders[o].state = "fulfilled"
          /\ coins' = coins - Clawback(coins, Worth[o]) /\ spends' = spends
          /\ orders' = [orders EXCEPT ![o].state = "refunded"]
      BY <1>3, <1>t DEF RefundCommit, Worth
    <2> HIDE DEF o
    <2>2. \A q \in Orders : orders'[q].state = IF q = o THEN "refunded" ELSE orders[q].state
      BY <1>t, <2>1 DEF OrderRow
    <2>3. /\ Received' = Received /\ Kept = Kept' \cup {o} /\ o \notin Kept'
      BY <2>1, <2>2 DEF Received, Kept, Credited
    <2>5. Worth[o] \in Nat
      BY <2>1, CoinAssumption DEF IInv, Payments, Worth
    <2>6. Clawback(coins, Worth[o]) \in Nat /\ Clawback(coins, Worth[o]) <= Worth[o]
      BY <1>a, <2>5 DEF Clawback
    <2>7. SumOf(Worth', Kept') + Worth[o] = SumOf(Worth, Kept) /\ SumOf(Worth', Kept') \in Int
      <3>1. Kept' \subseteq Received /\ IsFiniteSet(Kept')
        BY <1>a, <2>3, FS_Subset
      <3>2. SumOf(Worth', Kept') = SumOf(Worth, Kept')
        BY <3>1, WorthKept
      <3>3. \A q \in Kept' \cup {o} : Worth[q] \in Int
        BY <1>a, <2>3
      <3>4. SumOf(Worth, Kept' \cup {o}) = SumOf(Worth, Kept') + Worth[o]
        BY <2>3, <3>1, <3>3, SumOfOneMore
      <3>5. SumOf(Worth, Kept') \in Int
        BY <3>1, <3>3, SumOfTyped
      <3> QED
        BY <2>3, <3>2, <3>4, <3>5
    <2>8. Had' = Had - Clawback(coins, Worth[o])
      <3>1. spends * UpgradeCost \in Int
        BY CoinAssumption DEF IInv, TypeOK
      <3> QED
        BY <1>a, <2>1, <2>6, <3>1 DEF Had
    <2> QED
      BY <1>a, <1>b, <1>c, <2>3, <2>5, <2>6, <2>7, <2>8 DEF Summed, CoinsArePaidFor
  <1>4. CASE Spend
    <2>1. coins' = coins - UpgradeCost /\ spends' = spends + 1 /\ orders' = orders
      BY <1>4 DEF Spend
    <2>2. (spends + 1) * UpgradeCost = spends * UpgradeCost + UpgradeCost
          /\ spends * UpgradeCost \in Int /\ UpgradeCost \in Int
      BY CoinAssumption DEF IInv, TypeOK
    <2>3. Had' = Had
      BY <1>a, <2>1, <2>2 DEF Had
    <2> QED
      BY <1>1, <2>1, <2>3
  <1>5. CASE /\ ~Spend
             /\ \A w \in Workers : ~(FulfilCommit(w) /\ orders' # orders)
                                  /\ ~(RefundCommit(w) /\ orders' # orders)
    <2>1. coins' = coins
      <3>1. ASSUME NEW w \in Workers, FulfilCommit(w), orders' = orders PROVE coins' = coins
        <4>1. \/ coins' = coins
              \/ /\ orders[work[w].order].state = "pending"
                 /\ orders' = [orders EXCEPT ![work[w].order].state = "fulfilled"]
          BY <3>1 DEF FulfilCommit
        <4>2. work[w].order \in Orders
          BY <1>t, <3>1 DEF FulfilCommit
        <4> QED
          BY <1>t, <3>1, <4>1, <4>2 DEF OrderRow
      <3>2. ASSUME NEW w \in Workers, RefundCommit(w), orders' = orders PROVE coins' = coins
        <4>1. \/ coins' = coins
              \/ /\ orders[work[w].order].state = "fulfilled"
                 /\ orders' = [orders EXCEPT ![work[w].order].state = "refunded"]
          BY <3>2 DEF RefundCommit
        <4>2. work[w].order \in Orders
          BY <1>t, <3>2 DEF RefundCommit
        <4> QED
          BY <1>t, <3>2, <4>1, <4>2 DEF OrderRow
      <3> QED
        BY <1>5, <3>1, <3>2, CoinStep
    <2>2. spends' = spends
      BY <1>5 DEF Next, Serve, Proceed, Abort, Provider, CreateBegin, InvoiceBegin, RecoverRead,
         RefundBegin, PreCheckout, VerifyReceipt, CreateCommit, InvoiceCommit, BindCommit,
         Answer, RecoverInquire, FulfilBegin, FulfilCommit, RefundCommit, Checkout, Pay, Fail, vars
    <2>3. Received' = Received /\ Kept' = Kept
      BY <1>5, StateStep DEF Received, Kept, Credited
    <2> QED
      BY <1>a, <1>b, <1>c, <2>1, <2>2, <2>3 DEF Summed, CoinsArePaidFor, Had
  <1> QED
    BY <1>2, <1>3, <1>4, <1>5

(* No coins without a payment, and no payment without its coins: what the  *)
(* player has and has spent is at most what he began with and the prices   *)
(* of the orders credited to him, each of which has a payment of its own   *)
(* that was paid (CreditCorrect); and it is at least that less the orders  *)
(* refunded, since a refund takes no more back than was credited, however  *)
(* webhooks, recoveries and refunds overlap or are repeated.               *)
THEOREM CoinsCorrect == Spec => []CoinsArePaidFor
  <1>1. Init => Summed
    <2> SUFFICES ASSUME Init PROVE Summed
      OBVIOUS
    <2>1. Received = {} /\ Kept = {} /\ Had = InitialCoins
      BY CoinAssumption DEF Init, Received, Kept, Credited, Had
    <2>2. SumOf(Worth, {}) = 0
      BY SumOfNothing
    <2> QED
      BY <2>1, <2>2, FS_EmptySet, CoinAssumption DEF Summed, CoinsArePaidFor
  <1>2. Summed => CoinsArePaidFor
    BY DEF Summed
  <1> QED
    BY <1>1, <1>2, SummedStep, Invariance, PTL DEF Spec

-----------------------------------------------------------------------------
(* What was paid can be credited.                                          *)

Asked == \A o \in Orders : orders[o].bound # NoTxn => orders[o].state \notin {"none", "created"}

PaidIsRecoverable ==
  \A t \in Txns : txns[t].status = "paid" =>
    LET o == txns[t].order IN
    o \in Orders /\ orders[o].bound = t /\ (orders[o].state = "pending" \/ Credited(o))

(* The order of a payment that went through is bound to it and either open *)
(* for the credit or credited already, whatever requests failed, were      *)
(* repeated or overtook one another: order/get and the receipt webhook     *)
(* always find what they need.  It is what PaidIsCredited needs besides    *)
(* fairness.                                                               *)
THEOREM RecoverableCorrect == Spec => []PaidIsRecoverable
  <1>1. Init => Asked
    BY DEF Init, Asked
  <1>2. ASSUME IInv, Asked, [Next]_vars PROVE Asked'
    <2> SUFFICES ASSUME NEW o \in Orders, orders'[o].bound # NoTxn
                 PROVE  orders'[o].state \notin {"none", "created"}
      BY DEF Asked
    <2>1. orders[o].state \notin {"none", "created"}
      <3>1. CASE orders'[o].bound = orders[o].bound
        BY <1>2, <3>1 DEF Asked
      <3>2. CASE orders'[o].bound # orders[o].bound
        BY <1>2, <3>2, RowStep DEF IInv, Locked
      <3> QED BY <3>1, <3>2
    <2> QED BY <1>2, <2>1, StateStep
  <1>3. IInv /\ Asked => PaidIsRecoverable
    <2> SUFFICES ASSUME IInv, Asked, NEW t \in Txns, txns[t].status = "paid"
                 PROVE  LET o == txns[t].order IN
                        o \in Orders /\ orders[o].bound = t /\ (orders[o].state = "pending" \/ Credited(o))
      BY DEF PaidIsRecoverable
    <2>1. txns[t].order \in Orders /\ orders[txns[t].order].bound = t
      BY DEF IInv, Payments
    <2>2. orders[txns[t].order].state \notin {"none", "created"}
      BY <2>1, CoinAssumption DEF Asked
    <2>3. orders[txns[t].order].state \in {"none", "created", "pending", "fulfilled", "refunded"}
      BY <2>1 DEF IInv, TypeOK, OrderRow
    <2> QED BY <2>1, <2>2, <2>3 DEF Credited
  <1> QED BY <1>1, <1>2, <1>3, Invariance, PTL DEF Spec

(* Nothing of a payment or of a credit is undone: a paid payment stays so, *)
(* with the order that is bound to it; an order only moves on, from its    *)
(* invoice to the credit and from there to the refund, without ever taking *)
(* another product.                                                        *)
THEOREM OrdersMoveOn ==
  Spec => [][/\ \A t \in Txns : txns[t].status = "paid" =>
                  /\ txns'[t].status = "paid" /\ txns'[t].order = txns[t].order
                  /\ orders'[txns[t].order].bound = t
             /\ \A o \in Orders : Credited(o) =>
                  /\ Credited(o)' /\ orders'[o].product = orders[o].product
                  /\ orders[o].state = "refunded" => orders'[o].state = "refunded"]_vars
  <1> DEFINE Moves == /\ \A t \in Txns : txns[t].status = "paid" =>
                           /\ txns'[t].status = "paid" /\ txns'[t].order = txns[t].order
                           /\ orders'[txns[t].order].bound = t
                      /\ \A o \in Orders : Credited(o) =>
                           /\ Credited(o)' /\ orders'[o].product = orders[o].product
                           /\ orders[o].state = "refunded" => orders'[o].state = "refunded"
  <1>1. IInv /\ [Next]_vars => Moves
    <2> SUFFICES ASSUME IInv, [Next]_vars PROVE Moves
      OBVIOUS
    <2>1. ASSUME NEW t \in Txns, txns[t].status = "paid"
          PROVE  /\ txns'[t].status = "paid" /\ txns'[t].order = txns[t].order
                 /\ orders'[txns[t].order].bound = t
      <3>1. txns'[t].status = "paid" /\ txns'[t].order = txns[t].order
        BY <2>1, RowStep
      <3>2. txns[t].order \in Orders /\ orders[txns[t].order].bound = t /\ t # NoTxn
        BY <2>1, CoinAssumption DEF IInv, Payments
      <3>3. ASSUME NEW w \in Workers, MayBind(txns[t].order, work[w].txn) PROVE work[w].txn = t
        BY <2>1, <3>2, <3>3 DEF MayBind, Replaceable
      <3> QED BY <3>1, <3>2, <3>3, RowStep
    <2>2. ASSUME NEW o \in Orders, Credited(o)
          PROVE  /\ Credited(o)' /\ orders'[o].product = orders[o].product
                 /\ orders[o].state = "refunded" => orders'[o].state = "refunded"
      BY <2>2, RowStep, StateStep DEF Credited
    <2> QED BY <2>1, <2>2
  <1> QED BY <1>1, Invariance, PTL DEF Spec
=============================================================================
