SPECIFICATION Spec
CONSTANTS
  s0 = s0  s0b = s0b  s1 = s1  s1b = s1b  s2 = s2  s3 = s3
  Slots <- TrioSlots  TeamA <- TrioTeamA  Sessions <- TrioSessions  UserOf <- TrioUserOf
  NoSession = NoSession  Never = Never  NoSettlement = NoSettlement
  WaitingTimeout = 1  Countdown = 1  Grace = 1  RematchWindow = 1  RetryDelay = 1  MaxMatchTime = 2
  MaxActions = 1  MaxTick = 5  MaxMessages = 2  MaxFailures = 1
INVARIANTS SurrenderedStaysOut
CHECK_DEADLOCK FALSE
