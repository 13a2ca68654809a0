SPECIFICATION Spec
CONSTANTS
  t1 = t1  t2 = t2   u1 = u1  a1 = a1  r1 = r1  r2 = r2  s1 = s1
  w1 = w1  w2 = w2  w3 = w3
  Players = {1, 2, 3}  Ids <- Mixed  Workers = {w1, w2, w3}  NoId = NoId
  Payees <- MCPayees  Amount <- MCAmount  Kind <- MCKind  Defender <- MCDefender  Slot <- MCSlot
  InitialCoins = 1  DailyTarget = 2  MaxAborts = 1
SYMMETRY Symmetry
INVARIANTS TypeOK DeadlockNeedsName LedgerExplainsBalance 
PROPERTY PaymentsSpec
CHECK_DEADLOCK FALSE
