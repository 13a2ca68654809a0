SPECIFICATION Spec
CONSTANTS
  o1 = o1  o2 = o2  t1 = t1  t2 = t2  w1 = w1  w2 = w2  w3 = w3  starter = starter  refill = refill
  Orders = {o1, o2}  Txns = {t1, t2}  Workers = {w1, w2, w3}
  Products = {starter, refill}  Starter = starter  Price <- TwoPrices
  NoTxn = NoTxn  NoOrder = NoOrder  NoProduct = NoProduct
  InitialCoins = 1  CoinLimit = 5  UpgradeCost = 2  MaxSpends = 1  MaxAborts = 1
SYMMETRY Symmetry
INVARIANTS TypeOK PaidIsBound CreditedOnce LedgerExplainsBalance OneOpenOrder
PROPERTY BindingIsKept
