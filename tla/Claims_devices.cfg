SPECIFICATION Spec
CONSTANTS
  i1 = i1  i2 = i2  i3 = i3  i4 = i4  i5 = i5  w1 = w1  w2 = w2
  Ids = {i1, i2, i3, i4, i5}  NoId = NoId  Asks <- Claimed  Workers = {w1, w2}
  LevelCount = 2  Slots = {1}  LaneLevels = {1}  MinTrophies <- OneRank
  Target <- SmallTargets  Reward <- Amounts  InitialCoins = 0
  Day <- TimesAreDays  Week <- TimesAreDays
  MaxTime = 1  MaxMatches = 2  MaxClaims = 4
SYMMETRY Symmetry
INVARIANTS TypeOK PaidOncePerClaim BalanceIsPaidOut PaidIsEarned
 
CHECK_DEADLOCK FALSE
