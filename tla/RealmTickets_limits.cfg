SPECIFICATION Spec
CONSTANTS
  a = a  b = b  c = c  t1 = t1  t2 = t2  t3 = t3
  Players = {a, b, c}  Tickets = {t1, t2}  NoTicket = NoTicket  NoPlayer = NoPlayer
  Lifetime = 2  GraceOfRevenge = 2  BattleTime = 0  SocialQuota = 1
  AbandonLoss = 2  RankedGain = 1  RankedLoss = 1  InitialTrophies = 1
  Day <- TimesAreDays  MaxTime = 1
SYMMETRY Tokens
INVARIANT RewardsWithinLimits
CHECK_DEADLOCK FALSE
