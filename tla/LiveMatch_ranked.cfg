SPECIFICATION FairSpec
CONSTANTS
  a = a  b = b  c = c  a1 = a1  a2 = a2  b1 = b1  c1 = c1
  Users = {a, b, c}  Sessions = {a1, a2, b1, c1}  UserOf <- Owners  Allowed = {a, b}
  NoUser = NoUser  NoSeat = NoSeat  NoResult = NoResult
  MaxMatchTime = 1  MaxActions = 2
INVARIANTS TypeOK ResultsAgree RankedPairIsKept
PROPERTIES ResultIsFinal LeaverLoses PlayEnds
CHECK_DEADLOCK FALSE
