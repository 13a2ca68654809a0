SPECIFICATION Spec
CONSTANTS
  a = a  b = b  c = c  t1 = t1  t2 = t2  t3 = t3
  Players = {a, b}  Tickets = {t1, t2, t3}  NoTicket = NoTicket  NoPlayer = NoPlayer
  Lifetime = 2  GraceOfRevenge = 3  BattleTime = 1  SocialQuota = 1
  AbandonLoss = 2  RankedGain = 1  RankedLoss = 1  InitialTrophies = 1
  Day <- TwoTimesADay  MaxTime = 3
SYMMETRY Tokens
INVARIANTS TypeOK OneBattle RevengeIsDue
PROPERTY ResolvedForGood
CHECK_DEADLOCK FALSE
