----------------------------- MODULE ClaimsProofs -----------------------------
(***************************************************************************)
(* Proofs about Claims.  The invariant is what a claim under the lock may  *)
(* rely on: a request is for a key that exists, one request at most holds  *)
(* the career, the flags of a day are its claims, and a claimed mission    *)
(* stays complete.  That a claim is paid once follows, from the checks     *)
(* alone and not from the unique keys of the tables.                       *)
(***************************************************************************)
EXTENDS Claims, SetSums, TLAPS

(* What a claim in progress asks for; the ids are the player's.            *)
Asked ==
  \A w \in Workers : work[w].at # "idle" => work[w].id \in Ids /\ work[w].key \in Keys

(* A mission that was claimed is complete.                                 *)
Completed ==
  \A day \in Days : \A m \in Missions :
    m \in days[day].claimed => days[day].progress[m] >= Target[m]

(* The missions come before the chest.                                     *)
ChestIsLast ==
  \A day \in Days : CrownChest \in days[day].claimed => Missions \subseteq days[day].claimed

(* The flags of a day are the claims of that day.                          *)
FlagsAreClaims ==
  \A day \in Days :
    days[day].claimed =
      {item \in Missions \cup {CrownChest} :
         \E c \in claims : c.key = [family |-> "daily", period |-> day, item |-> item]}

(* A level that was paid was completed.                                    *)
PaidLevelsAreCompleted ==
  \A c \in claims : c.key.family = "level" => c.key.item <= levels

IInv ==
  /\ TypeOK /\ Asked /\ PaidOncePerClaim /\ FlagsAreClaims
  /\ Completed /\ ChestIsLast /\ PaidLevelsAreCompleted

-----------------------------------------------------------------------------
LEMMA KeyFacts ==
  /\ \A key \in Keys : /\ key.family \in Families
                       /\ key.family = "daily" => /\ key.period \in Days
                                                  /\ key.item \in Missions \cup {CrownChest}
                       /\ key.family = "level" => key.item \in 1..LevelCount
                       /\ Reward[key] \in Nat
  /\ NoKey \notin Keys
  <1>1. ASSUME NEW key \in Keys
        PROVE  /\ key.family \in Families
               /\ key.family = "daily" => /\ key.period \in Days
                                          /\ key.item \in Missions \cup {CrownChest}
               /\ key.family = "level" => key.item \in 1..LevelCount
    BY <1>1 DEF Keys, KeysOf, Families
  <1>2. \A key \in Keys : Reward[key] \in Nat
    BY ClaimAssumption
  <1>3. NoKey \notin Keys
    BY DEF Keys, KeysOf, NoKey
  <1> QED
    BY <1>1, <1>2, <1>3

(* What a submission is for is a key of its table.                         *)
LEMMA KeyOfTyped == ASSUME TypeOK, NEW ask \in Asks PROVE KeyOf(ask) \in Keys /\ ask.id \in Ids
  <1>1. PICK key \in Keys : key.family = ask.family /\ key.item = ask.item
    BY ClaimAssumption
  <1>2. Day[now] \in Days /\ Week[now] \in Weeks
    BY DEF TypeOK, Days, Weeks
  <1>3. KeyOf(ask) \in Keys
    BY <1>1, <1>2 DEF Keys, KeysOf, KeyOf
  <1> QED
    BY <1>3, ClaimAssumption

LEMMA MissionFacts ==
  /\ Missions = {1, 2, 3} /\ CrownChest = 4 /\ CrownChest \notin Missions
  /\ \A m \in Missions : Target[m] \in Nat \ {0}
  <1>1. Missions = {1, 2, 3} /\ CrownChest = 4 /\ CrownChest \notin Missions
    BY DEF Missions, PlayMatches, WinMatch, CaptureTerritories, CrownChest
  <1> QED
    BY <1>1, ClaimAssumption

LEMMA InitInv == Init => IInv
  <1> SUFFICES ASSUME Init PROVE IInv
    OBVIOUS
  <1>1. NewDay \in DayRow /\ NewDay.claimed = {} /\ \A m \in Missions : NewDay.progress[m] = 0
    BY DEF NewDay, DayRow
  <1>2. Idle \in Request /\ Idle.at = "idle"
    BY DEF Idle, Request
  <1>3. TypeOK
    BY <1>1, <1>2, MissionFacts, ClaimAssumption DEF Init, TypeOK
  <1>4. Asked /\ Completed /\ ChestIsLast
    BY <1>1, <1>2 DEF Init, Asked, Completed, ChestIsLast
  <1>5. PaidOncePerClaim /\ FlagsAreClaims /\ PaidLevelsAreCompleted
    BY <1>1 DEF Init, PaidOncePerClaim, FlagsAreClaims, PaidLevelsAreCompleted
  <1> QED
    BY <1>3, <1>4, <1>5 DEF IInv

-----------------------------------------------------------------------------
(* A claim that is due is for a key no row has yet.                        *)
LEMMA DueIsNew == ASSUME IInv, NEW key \in Keys, Due(key) PROVE ~Taken(key)
  <1>1. CASE key.family = "daily"
    <2>1. key.period \in Days /\ key.item \in Missions \cup {CrownChest}
      BY <1>1, KeyFacts
    <2>2. key.item \notin days[key.period].claimed
      BY <1>1 DEF Due, DailyRewardAvailable
    <2>3. ~\E c \in claims : c.key = [family |-> "daily", period |-> key.period, item |-> key.item]
      BY <2>1, <2>2 DEF IInv, FlagsAreClaims
    <2>4. key = [family |-> "daily", period |-> key.period, item |-> key.item]
      BY <1>1 DEF Keys, KeysOf
    <2> QED
      BY <2>3, <2>4 DEF Taken
  <1>2. CASE key.family # "daily"
    BY <1>2 DEF Due
  <1> QED
    BY <1>1, <1>2

(* What a claim that is paid writes.                                       *)
LEMMA PayWrites ==
  ASSUME IInv, NEW w \in Workers, work[w].at = "locked", Due(work[w].key),
         ~Stored(work[w].id, work[w].key), Pay(w)
  PROVE  LET id == work[w].id  key == work[w].key
             row == [id |-> id, key |-> key] IN
         /\ id \in Ids /\ key \in Keys /\ ~Taken(key)
         /\ claims' = claims \cup {row}
         /\ ledger' = ledger \cup {[id |-> <<key.family, id>>, amount |-> Reward[key]]}
         /\ [id |-> <<key.family, id>>, amount |-> Reward[key]] \notin ledger
  <1> DEFINE id == work[w].id
             key == work[w].key
             entry == [id |-> <<key.family, id>>, amount |-> Reward[key]]
  <1>1. id \in Ids /\ key \in Keys
    BY DEF IInv, Asked
  <1>2. ~Taken(key)
    BY <1>1, DueIsNew
  <1>3. ~\E e \in ledger : e.id = <<key.family, id>>
    <2> SUFFICES ASSUME NEW e \in ledger, e.id = <<key.family, id>> PROVE FALSE
      OBVIOUS
    <2>1. PICK c \in claims : e = [id |-> <<c.key.family, c.id>>, amount |-> Reward[c.key]]
      BY DEF IInv, PaidOncePerClaim
    <2>2. c.id = id /\ c.key.family = key.family
      BY <2>1
    <2> QED
      BY <2>2 DEF Stored
  <1>4. ledger' = ledger \cup {entry}
    BY <1>3 DEF Pay, Booked, LedgerId
  <1>5. entry \notin ledger
    BY <1>3
  <1> QED
    BY <1>1, <1>2, <1>4, <1>5 DEF Pay, Row

-----------------------------------------------------------------------------
LEMMA WorkTyped ==
  ASSUME TypeOK, NEW w \in Workers
  PROVE  /\ [work EXCEPT ![w] = Idle] \in [Workers -> Request]
         /\ \A ask \in Asks : Begin(w, ask) => work' \in [Workers -> Request]
         /\ LockCareer(w) => work' \in [Workers -> Request]
  <1>1. Idle \in Request
    BY DEF Idle, Request
  <1>2. ASSUME NEW ask \in Asks, Begin(w, ask) PROVE work' \in [Workers -> Request]
    <2>1. [at |-> "begun", id |-> ask.id, key |-> KeyOf(ask), coins |-> 0] \in Request
      BY KeyOfTyped DEF Request
    <2> QED
      BY <1>2, <2>1 DEF Begin, TypeOK
  <1>3. ASSUME LockCareer(w) PROVE work' \in [Workers -> Request]
    <2>1. work[w] \in Request /\ coins \in Nat
      BY DEF TypeOK
    <2>2. [work[w] EXCEPT !.at = "locked", !.coins = coins] \in Request
      BY <2>1 DEF Request
    <2>3. work' = [work EXCEPT ![w] = [work[w] EXCEPT !.at = "locked", !.coins = coins]]
      BY <1>3 DEF LockCareer
    <2> QED
      BY <2>2, <2>3 DEF TypeOK
  <1> QED
    BY <1>1, <1>2, <1>3 DEF TypeOK

(* Progress of a mission never falls and stops at the target.              *)
LEMMA CountsGrow ==
  ASSUME TypeOK, NEW won \in BOOLEAN, NEW captures \in 0..Target[CaptureTerritories],
         AdvanceDailyProgress(won, captures)
  PROVE  /\ days' \in [Days -> DayRow]
         /\ \A day \in Days :
              /\ days'[day].claimed = days[day].claimed
              /\ \A m \in Missions : /\ days'[day].progress[m] <= Target[m]
                                     /\ days'[day].progress[m] >= days[day].progress[m]
  <1> DEFINE gain == [m \in Missions |->
                        CASE m = PlayMatches -> 1
                          [] m = WinMatch -> IF won THEN 1 ELSE 0
                          [] m = CaptureTerritories -> captures]
             old == days[Day[now]].progress
             new == [m \in Missions |-> LEAST(old[m] + gain[m], m)]
  <1>1. Day[now] \in Days /\ days \in [Days -> DayRow]
    BY DEF TypeOK, Days
  <1>2. days' = [days EXCEPT ![Day[now]] = [days[Day[now]] EXCEPT !.progress = new]]
    BY DEF AdvanceDailyProgress
  <1>3. \A m \in Missions : gain[m] \in Nat
    <2>1. captures \in Nat
      BY MissionFacts DEF Missions
    <2> QED
      BY <2>1 DEF Missions, PlayMatches, WinMatch, CaptureTerritories
  <1>4. \A m \in Missions : old[m] \in Nat /\ old[m] <= Target[m]
    BY <1>1 DEF TypeOK, DayRow
  <1>5. \A m \in Missions : new[m] \in Nat /\ new[m] <= Target[m] /\ new[m] >= old[m]
    <2> SUFFICES ASSUME NEW m \in Missions
                 PROVE  new[m] \in Nat /\ new[m] <= Target[m] /\ new[m] >= old[m]
      OBVIOUS
    <2>1. Target[m] \in Nat /\ gain[m] \in Nat /\ old[m] \in Nat /\ old[m] <= Target[m]
      BY <1>3, <1>4, MissionFacts
    <2>2. new[m] = IF old[m] + gain[m] > Target[m] THEN Target[m] ELSE old[m] + gain[m]
      BY DEF LEAST
    <2> HIDE DEF gain, old, new
    <2> QED
      BY <2>1, <2>2
  <1>6. new \in [Missions -> Nat]
    BY <1>5
  <1> HIDE DEF new, gain
  <1>7. [days[Day[now]] EXCEPT !.progress = new] \in DayRow
    BY <1>1, <1>6 DEF DayRow
  <1>8. days' \in [Days -> DayRow]
    BY <1>1, <1>2, <1>7
  <1>9. ASSUME NEW day \in Days
        PROVE  /\ days'[day].claimed = days[day].claimed
               /\ \A m \in Missions : /\ days'[day].progress[m] <= Target[m]
                                      /\ days'[day].progress[m] >= days[day].progress[m]
    <2>1. CASE day = Day[now]
      <3>1. days'[day] = [days[Day[now]] EXCEPT !.progress = new]
        BY <1>1, <1>2, <2>1
      <3>2. days'[day].claimed = days[day].claimed /\ days'[day].progress = new
        BY <3>1, <2>1, <1>1 DEF DayRow
      <3> QED
        BY <3>2, <2>1, <1>5
    <2>2. CASE day # Day[now]
      <3>1. days'[day] = days[day]
        BY <1>1, <1>2, <2>2
      <3>2. \A m \in Missions : days[day].progress[m] \in Nat /\ days[day].progress[m] <= Target[m]
        BY <1>1 DEF TypeOK, DayRow
      <3> QED
        BY <3>1, <3>2, MissionFacts
    <2> QED
      BY <2>1, <2>2
  <1> QED
    BY <1>8, <1>9

-----------------------------------------------------------------------------

LEMMA LevelsClimb ==
  ASSUME TypeOK, NEW n \in 1..LevelCount
  PROVE  /\ LevelsCompletedAfter(n) \in 0..LevelCount
         /\ LevelsCompletedAfter(n) \in {levels, levels + 1}
         /\ InOrder(n) => n <= LevelsCompletedAfter(n)
  <1>1. levels \in Nat /\ levels <= LevelCount /\ n \in Nat /\ n <= LevelCount /\ LevelCount \in Nat
    BY ClaimAssumption DEF TypeOK
  <1> QED
    BY <1>1 DEF LevelsCompletedAfter, InOrder

(* What a step may do: write nothing, count a match, raise the levels, or  *)
(* pay a claim.                                                            *)
Paid(w) ==
  LET id == work[w].id  key == work[w].key IN
  /\ work[w].at = "locked" /\ Due(key) /\ ~Stored(id, key) /\ Pay(w)
  /\ levels' = IF key.family = "level" THEN LevelsCompletedAfter(key.item) ELSE levels
  /\ work' = [work EXCEPT ![w] = Idle]
  /\ UNCHANGED <<now, trophies, matches>>

Unpaid ==
  /\ \/ levels' = levels
     \/ \E n \in 1..LevelCount : levels' = LevelsCompletedAfter(n)
  /\ UNCHANGED <<coins, trophies, claims, ledger, days, matches>>

LEMMA CommitCases ==
  ASSUME IInv, NEW w \in Workers, Commit(w)
  PROVE  Paid(w) \/ (Unpaid /\ now' = now /\ work' = [work EXCEPT ![w] = Idle])
  <1> DEFINE id == work[w].id
             key == work[w].key
  <1>1. key \in Keys
    BY DEF Commit, IInv, Asked
  <1>2. CASE Stored(id, key) \/ (Due(key) /\ Refused(id, key))
    BY <1>2 DEF Commit, Unpaid
  <1>3. CASE ~Stored(id, key) /\ Due(key) /\ ~Refused(id, key)
    BY <1>3 DEF Commit, Paid
  <1>4. CASE ~Stored(id, key) /\ ~Due(key)
    <2>1. levels' = IF key.family = "level" THEN LevelsCompletedAfter(key.item) ELSE levels
      BY <1>4 DEF Commit
    <2>2. key.family = "level" => key.item \in 1..LevelCount
      BY <1>1, KeyFacts
    <2>3. UNCHANGED <<coins, trophies, claims, ledger, days, matches>>
          /\ now' = now /\ work' = [work EXCEPT ![w] = Idle]
      BY <1>4 DEF Commit
    <2> QED
      BY <2>1, <2>2, <2>3 DEF Unpaid
  <1> QED
    BY <1>2, <1>3, <1>4

LEMMA Steps ==
  ASSUME IInv, [Next]_vars
  PROVE  \/ Unpaid
         \/ \E won \in BOOLEAN, captures \in 0..Target[CaptureTerritories] : Settle(won, captures)
         \/ \E w \in Workers : Paid(w)
  <1>1. CASE Tick \/ UNCHANGED vars
    BY <1>1 DEF Tick, vars, Unpaid
  <1>2. ASSUME NEW n \in 1..LevelCount, CompleteLevel(n) PROVE Unpaid
    BY <1>2 DEF CompleteLevel, Unpaid
  <1>3. ASSUME NEW w \in Workers,
               (\E ask \in Asks : Begin(w, ask)) \/ LockCareer(w) \/ Abort(w)
        PROVE  Unpaid
    BY <1>3 DEF Begin, LockCareer, Abort, Unpaid
  <1>4. ASSUME NEW w \in Workers, Commit(w) PROVE Unpaid \/ Paid(w)
    BY <1>4, CommitCases
  <1> QED
    BY <1>1, <1>2, <1>3, <1>4 DEF Next

-----------------------------------------------------------------------------
LEMMA MarkTyped ==
  ASSUME TypeOK, NEW key \in Keys, key.family = "daily"
  PROVE  LET new == MarkDailyRewardClaimed(key) IN
         /\ new \in [Days -> DayRow]
         /\ \A day \in Days :
              /\ new[day].progress = days[day].progress
              /\ new[day].claimed = IF day = key.period THEN days[day].claimed \cup {key.item}
                                    ELSE days[day].claimed
  <1>1. key.period \in Days /\ key.item \in Missions \cup {CrownChest}
    BY KeyFacts
  <1>2. days \in [Days -> DayRow]
    BY DEF TypeOK
  <1> DEFINE old == days[key.period]
             row == [old EXCEPT !.claimed = old.claimed \cup {key.item}]
  <1>3. MarkDailyRewardClaimed(key) = [days EXCEPT ![key.period] = row]
    BY DEF MarkDailyRewardClaimed
  <1>4. old \in DayRow
    BY <1>1, <1>2
  <1>5. row \in DayRow /\ row.progress = old.progress /\ row.claimed = old.claimed \cup {key.item}
    BY <1>1, <1>4 DEF DayRow
  <1> HIDE DEF row
  <1> QED
    BY <1>1, <1>2, <1>3, <1>5

LEMMA WorkStep ==
  ASSUME IInv, [Next]_vars
  PROVE  work' \in [Workers -> Request] /\ Asked' /\ now' \in 0..MaxTime
  <1>t. TypeOK /\ Asked
    BY DEF IInv
  <1>n. now \in Nat /\ now <= MaxTime /\ MaxTime \in Nat
    BY ClaimAssumption DEF IInv, TypeOK
  <1>1. CASE work' = work /\ (now' = now \/ Tick)
    BY <1>1, <1>t, <1>n DEF TypeOK, Asked, Tick
  <1>2. ASSUME NEW w \in Workers, work' = [work EXCEPT ![w] = Idle], now' = now
        PROVE  work' \in [Workers -> Request] /\ Asked' /\ now' \in 0..MaxTime
    BY <1>2, <1>t, <1>n, WorkTyped DEF Asked, Idle, TypeOK
  <1>3. ASSUME NEW w \in Workers, NEW ask \in Asks, Begin(w, ask)
        PROVE  work' \in [Workers -> Request] /\ Asked' /\ now' \in 0..MaxTime
    <2>1. work' \in [Workers -> Request]
      BY <1>3, <1>t, WorkTyped
    <2>2. KeyOf(ask) \in Keys /\ ask.id \in Ids
      BY <1>t, KeyOfTyped
    <2>3. Asked'
      BY <1>3, <1>t, <2>2 DEF Begin, Asked, TypeOK
    <2> QED
      BY <1>3, <1>n, <2>1, <2>3 DEF Begin
  <1>4. ASSUME NEW w \in Workers, LockCareer(w)
        PROVE  work' \in [Workers -> Request] /\ Asked' /\ now' \in 0..MaxTime
    <2>1. work' \in [Workers -> Request]
      BY <1>4, <1>t, WorkTyped
    <2>2. \A v \in Workers : work'[v].id = work[v].id /\ work'[v].key = work[v].key
                             /\ (work'[v].at # "idle" => work[v].at # "idle")
      BY <1>4, <1>t DEF LockCareer, TypeOK
    <2> QED
      BY <1>4, <1>t, <1>n, <2>1, <2>2 DEF LockCareer, Asked
  <1>5. ASSUME NEW w \in Workers, Commit(w) \/ Abort(w)
        PROVE  work' \in [Workers -> Request] /\ Asked' /\ now' \in 0..MaxTime
    BY <1>2, <1>5 DEF Commit, Abort
  <1>6. CASE UNCHANGED vars \/ Tick
    BY <1>1, <1>6 DEF vars, Tick
  <1>7. ASSUME NEW won \in BOOLEAN, NEW captures, Settle(won, captures)
        PROVE  work' \in [Workers -> Request] /\ Asked' /\ now' \in 0..MaxTime
    BY <1>1, <1>7 DEF Settle
  <1>8. ASSUME NEW n \in 1..LevelCount, CompleteLevel(n)
        PROVE  work' \in [Workers -> Request] /\ Asked' /\ now' \in 0..MaxTime
    BY <1>1, <1>8 DEF CompleteLevel
  <1> QED
    BY <1>3, <1>4, <1>5, <1>6, <1>7, <1>8 DEF Next

-----------------------------------------------------------------------------
LEMMA UnpaidKeeps == ASSUME IInv, [Next]_vars, Unpaid PROVE IInv'
  <1>1. levels' \in 0..LevelCount /\ levels' >= levels
    <2>1. levels \in Nat
      BY DEF IInv, TypeOK
    <2>2. CASE levels' = levels
      BY <2>1, <2>2 DEF IInv, TypeOK
    <2>3. ASSUME NEW n \in 1..LevelCount, levels' = LevelsCompletedAfter(n)
          PROVE  levels' \in 0..LevelCount /\ levels' >= levels
      <3>1. TypeOK
        BY DEF IInv
      <3> QED
        BY <2>1, <2>3, <3>1, LevelsClimb
    <2> QED
      BY <2>2, <2>3 DEF Unpaid
  <1>2. TypeOK' /\ Asked'
    BY <1>1, WorkStep DEF IInv, TypeOK, Unpaid
  <1>3. PaidOncePerClaim' /\ FlagsAreClaims' /\ Completed' /\ ChestIsLast'
    BY DEF IInv, Unpaid, PaidOncePerClaim, FlagsAreClaims, Completed, ChestIsLast
  <1>4. PaidLevelsAreCompleted'
    <2> SUFFICES ASSUME NEW c \in claims', c.key.family = "level" PROVE c.key.item <= levels'
      BY DEF PaidLevelsAreCompleted
    <2>1. c \in claims /\ c.key \in Keys
      BY DEF Unpaid, IInv, TypeOK
    <2>2. c.key.item \in Nat /\ c.key.item <= levels
      BY <2>1, KeyFacts DEF IInv, PaidLevelsAreCompleted
    <2>3. levels \in Nat /\ levels' \in Nat
      BY <1>1 DEF IInv, TypeOK
    <2> QED
      BY <1>1, <2>2, <2>3
  <1> QED
    BY <1>2, <1>3, <1>4 DEF IInv

LEMMA SettleKeeps ==
  ASSUME IInv, [Next]_vars, NEW won \in BOOLEAN, NEW captures \in 0..Target[CaptureTerritories],
         Settle(won, captures)
  PROVE  IInv'
  <1>t. TypeOK
    BY DEF IInv
  <1>1. /\ days' \in [Days -> DayRow]
        /\ \A day \in Days :
             /\ days'[day].claimed = days[day].claimed
             /\ \A m \in Missions : /\ days'[day].progress[m] <= Target[m]
                                    /\ days'[day].progress[m] >= days[day].progress[m]
    BY <1>t, CountsGrow DEF Settle
  <1>2. trophies' \in Nat /\ matches' \in Nat
    BY <1>t DEF Settle, TypeOK
  <1>3. UNCHANGED <<coins, levels, claims, ledger>>
    BY DEF Settle
  <1>4. TypeOK' /\ Asked'
    BY <1>t, <1>1, <1>2, <1>3, WorkStep DEF TypeOK
  <1>5. PaidOncePerClaim' /\ FlagsAreClaims' /\ ChestIsLast' /\ PaidLevelsAreCompleted'
    BY <1>1, <1>3 DEF IInv, PaidOncePerClaim, FlagsAreClaims, ChestIsLast, PaidLevelsAreCompleted
  <1>6. Completed'
    <2> SUFFICES ASSUME NEW day \in Days, NEW m \in Missions, m \in days'[day].claimed
                 PROVE  days'[day].progress[m] >= Target[m]
      BY DEF Completed
    <2>1. days[day].progress[m] >= Target[m] /\ days'[day].progress[m] >= days[day].progress[m]
      BY <1>1 DEF IInv, Completed
    <2>2. {days[day].progress[m], days'[day].progress[m], Target[m]} \subseteq Nat
      BY <1>t, <1>1, MissionFacts DEF TypeOK, DayRow
    <2> QED
      BY <2>1, <2>2
  <1> QED
    BY <1>4, <1>5, <1>6 DEF IInv

LEMMA PaidKeeps == ASSUME IInv, [Next]_vars, NEW w \in Workers, Paid(w) PROVE IInv'
  <1> DEFINE id == work[w].id
             key == work[w].key
             row == [id |-> id, key |-> key]
             entry == [id |-> <<key.family, id>>, amount |-> Reward[key]]
  <1>t. TypeOK
    BY DEF IInv
  <1>1. /\ id \in Ids /\ key \in Keys /\ ~Taken(key)
        /\ claims' = claims \cup {row} /\ ledger' = ledger \cup {entry}
    BY PayWrites DEF Paid
  <1>2. /\ ~Stored(id, key) /\ Due(key)
        /\ levels' = IF key.family = "level" THEN LevelsCompletedAfter(key.item) ELSE levels
        /\ days' = IF key.family = "daily" THEN MarkDailyRewardClaimed(key) ELSE days
        /\ coins' = work[w].coins + Reward[key]
        /\ UNCHANGED <<now, trophies, matches>>
    BY DEF Paid, Pay
  <1>3. key.family \in Families /\ Reward[key] \in Nat
    BY <1>1, KeyFacts
  <1>4. /\ days' \in [Days -> DayRow]
        /\ \A day \in Days :
             /\ days'[day].progress = days[day].progress
             /\ days'[day].claimed =
                  IF key.family = "daily" /\ day = key.period
                    THEN days[day].claimed \cup {key.item} ELSE days[day].claimed
    BY <1>t, <1>1, <1>2, MarkTyped DEF TypeOK
  <1>5. levels' \in 0..LevelCount /\ levels' >= levels
        /\ (key.family = "level" => key.item <= levels')
    <2>1. levels \in Nat
      BY <1>t DEF TypeOK
    <2>2. CASE key.family = "level"
      <3>1. key.item \in 1..LevelCount
        BY <1>1, <2>2, KeyFacts
      <3>2. InOrder(key.item)
        BY <1>2, <2>2 DEF Due
      <3> QED
        BY <1>t, <1>2, <2>1, <2>2, <3>1, <3>2, LevelsClimb
    <2>3. CASE key.family # "level"
      BY <1>t, <1>2, <2>1, <2>3 DEF TypeOK
    <2> QED
      BY <2>2, <2>3
  <1>6. TypeOK' /\ Asked'
    <2>1. coins' \in Nat
      <3>1. work[w].coins \in Nat
        BY <1>t DEF TypeOK, Request
      <3> QED
        BY <1>2, <1>3, <3>1
    <2>2. claims' \subseteq [id : Ids, key : Keys]
      BY <1>t, <1>1 DEF TypeOK
    <2>3. entry \in [id : Families \X Ids, amount : Nat]
      BY <1>1, <1>3
    <2>4. ledger' \subseteq [id : Families \X Ids, amount : Nat]
      BY <1>t, <1>1, <2>3 DEF TypeOK
    <2> QED
      BY <1>t, <1>2, <1>4, <1>5, <2>1, <2>2, <2>4, WorkStep DEF TypeOK
  <1>7. PaidOncePerClaim'
    <2>1. ASSUME NEW c \in claims', NEW d \in claims',
                 c.key = d.key \/ (c.id = d.id /\ c.key.family = d.key.family)
          PROVE  c = d
      <3>1. \A e \in claims : e.key # key /\ ~(e.id = id /\ e.key.family = key.family)
        BY <1>1, <1>2 DEF Taken, Stored
      <3>2. row.key = key /\ row.id = id
        OBVIOUS
      <3>3. (c \in claims \/ c = row) /\ (d \in claims \/ d = row)
        BY <1>1
      <3> HIDE DEF row, key, id
      <3> QED
        BY <2>1, <3>1, <3>2, <3>3 DEF IInv, PaidOncePerClaim
    <2>2. ledger' = {[id |-> <<c.key.family, c.id>>, amount |-> Reward[c.key]] : c \in claims'}
      <3> DEFINE entryOf(c) == [id |-> <<c.key.family, c.id>>, amount |-> Reward[c.key]]
      <3>1. ledger = {entryOf(c) : c \in claims}
        BY DEF IInv, PaidOncePerClaim
      <3>2. entry = entryOf(row)
        OBVIOUS
      <3> HIDE DEF row, entry, entryOf
      <3>3. ledger' = {entryOf(c) : c \in claims'}
        BY <1>1, <3>1, <3>2
      <3> QED
        BY <3>3 DEF entryOf
    <2> QED
      BY <2>1, <2>2 DEF PaidOncePerClaim
  <1>8. FlagsAreClaims'
    <2> SUFFICES ASSUME NEW day \in Days
                 PROVE  days'[day].claimed =
                          {item \in Missions \cup {CrownChest} :
                             \E c \in claims' :
                               c.key = [family |-> "daily", period |-> day, item |-> item]}
      BY DEF FlagsAreClaims
    <2>1. days[day].claimed =
            {item \in Missions \cup {CrownChest} :
               \E c \in claims : c.key = [family |-> "daily", period |-> day, item |-> item]}
      BY DEF IInv, FlagsAreClaims
    <2>2. CASE key.family = "daily" /\ day = key.period
      <3>1. key = [family |-> "daily", period |-> day, item |-> key.item]
            /\ key.item \in Missions \cup {CrownChest}
        BY <1>1, <2>2, KeyFacts DEF Keys, KeysOf
      <3>2. \A item : (row.key = [family |-> "daily", period |-> day, item |-> item])
                        <=> item = key.item
        BY <3>1
      <3>3. \A item : (\E c \in claims' : c.key = [family |-> "daily", period |-> day, item |-> item])
                        <=> \/ \E c \in claims :
                                 c.key = [family |-> "daily", period |-> day, item |-> item]
                            \/ item = key.item
        BY <1>1, <3>2
      <3> QED
        BY <1>4, <2>1, <2>2, <3>1, <3>3
    <2>3. CASE ~(key.family = "daily" /\ day = key.period)
      <3>1. \A item : row.key # [family |-> "daily", period |-> day, item |-> item]
        BY <2>3
      <3>2. \A item : (\E c \in claims' : c.key = [family |-> "daily", period |-> day, item |-> item])
                        <=> \E c \in claims :
                                 c.key = [family |-> "daily", period |-> day, item |-> item]
        BY <1>1, <3>1
      <3>3. days'[day].claimed = days[day].claimed
        BY <1>4, <2>3
      <3> QED
        BY <2>1, <3>2, <3>3
    <2> QED
      BY <2>2, <2>3
  <1>9. Completed' /\ ChestIsLast'
    <2>1. ASSUME key.family = "daily"
          PROVE  /\ key.item \in Missions =>
                      days[key.period].progress[key.item] >= Target[key.item]
                 /\ key.item = CrownChest => Missions \subseteq days[key.period].claimed
      BY <1>2, <2>1 DEF Due, DailyRewardAvailable
    <2>2. ASSUME NEW day \in Days, NEW m \in Missions, m \in days'[day].claimed
          PROVE  days'[day].progress[m] >= Target[m]
      <3>1. m \in days[day].claimed => days[day].progress[m] >= Target[m]
        BY DEF IInv, Completed
      <3>2. m \in days[day].claimed \/ (key.family = "daily" /\ day = key.period /\ m = key.item)
        BY <1>4, <2>2
      <3>3. days[day].progress[m] >= Target[m]
        BY <2>1, <3>1, <3>2
      <3> QED
        BY <1>4, <3>3
    <2>3. ASSUME NEW day \in Days, CrownChest \in days'[day].claimed
          PROVE  Missions \subseteq days'[day].claimed
      <3>1. CrownChest \in days[day].claimed => Missions \subseteq days[day].claimed
        BY DEF IInv, ChestIsLast
      <3>2. \/ CrownChest \in days[day].claimed
            \/ key.family = "daily" /\ day = key.period /\ key.item = CrownChest
        BY <1>4, <2>3
      <3>3. Missions \subseteq days[day].claimed
        BY <2>1, <3>1, <3>2
      <3>4. days[day].claimed \subseteq days'[day].claimed
        BY <1>4
      <3> QED
        BY <3>3, <3>4
    <2> QED
      BY <2>2, <2>3 DEF Completed, ChestIsLast
  <1>10. PaidLevelsAreCompleted'
    <2> SUFFICES ASSUME NEW c \in claims', c.key.family = "level" PROVE c.key.item <= levels'
      BY DEF PaidLevelsAreCompleted
    <2>1. CASE c = row
      BY <1>5, <2>1
    <2>2. CASE c \in claims
      <3>1. c.key \in Keys
        BY <1>t, <2>2 DEF TypeOK
      <3>2. c.key.item \in Nat /\ c.key.item <= levels
        BY <2>2, <3>1, KeyFacts DEF IInv, PaidLevelsAreCompleted
      <3>3. levels \in Nat /\ levels' \in Nat
        BY <1>t, <1>5 DEF TypeOK
      <3> QED
        BY <1>5, <3>2, <3>3
    <2> QED
      BY <1>1, <2>1, <2>2
  <1> QED
    BY <1>6, <1>7, <1>8, <1>9, <1>10 DEF IInv

-----------------------------------------------------------------------------
(* Every state of the specification satisfies the inductive invariant.     *)
THEOREM Invariance == Spec => []IInv
  <1>1. IInv /\ [Next]_vars => IInv'
    BY Steps, UnpaidKeeps, SettleKeeps, PaidKeeps
  <1> QED
    BY <1>1, InitInv, PTL DEF Spec

(* The rows keep their types, the levels the bounds of their CHECK and the *)
(* counters of a day their targets.                                        *)
THEOREM TypeCorrect == Spec => []TypeOK
  <1>1. IInv => TypeOK
    BY DEF IInv
  <1> QED
    BY <1>1, Invariance, PTL

(* No claim is paid twice, by id or by key, and none without its entry.    *)
THEOREM ClaimsCorrect == Spec => []PaidOncePerClaim
  <1>1. IInv => PaidOncePerClaim
    BY DEF IInv
  <1> QED
    BY <1>1, Invariance, PTL

(* A paid mission, chest or level was earned, on its own day.              *)
THEOREM EarnedCorrect == Spec => []PaidIsEarned
  <1>1. ASSUME IInv, NEW c \in claims, c.key.family = "daily", NEW m \in Missions,
               c.key.item \in {m, CrownChest}
        PROVE  /\ days[c.key.period].progress[m] >= Target[m]
               /\ \E d \in claims : d.key = [c.key EXCEPT !.item = m]
    <2> DEFINE day == c.key.period
    <2>1. TypeOK /\ FlagsAreClaims /\ Completed /\ ChestIsLast
      BY <1>1 DEF IInv
    <2>2. c.key \in Keys
      BY <2>1 DEF TypeOK
    <2>3. day \in Days /\ c.key.item \in Missions \cup {CrownChest}
      BY <1>1, <2>2, KeyFacts
    <2>4. c.key = [family |-> "daily", period |-> day, item |-> c.key.item]
      BY <1>1, <2>2 DEF Keys, KeysOf
    <2> HIDE DEF day
    <2>5. c.key.item \in days[day].claimed
      BY <2>1, <2>3, <2>4 DEF FlagsAreClaims
    <2>6. m \in days[day].claimed
      BY <1>1, <2>1, <2>3, <2>5 DEF ChestIsLast
    <2>7. days[day].progress[m] >= Target[m]
      BY <2>1, <2>3, <2>6 DEF Completed
    <2>8. PICK d \in claims : d.key = [family |-> "daily", period |-> day, item |-> m]
      BY <2>1, <2>3, <2>6 DEF FlagsAreClaims
    <2>9. [c.key EXCEPT !.item = m] = [family |-> "daily", period |-> day, item |-> m]
      BY <2>4
    <2> QED
      BY <2>7, <2>8, <2>9 DEF day
  <1>2. IInv => PaidIsEarned
    BY <1>1 DEF IInv, PaidLevelsAreCompleted, PaidIsEarned
  <1> QED
    BY <1>2, Invariance, PTL

(* The levels are completed in order, one at a time.                       *)
THEOREM LevelsCorrect == Spec => LevelsInOrder
  <1>1. ASSUME IInv, [Next]_vars PROVE levels' = levels \/ levels' = levels + 1
    <2>1. TypeOK
      BY <1>1 DEF IInv
    <2>2. CASE Unpaid
      BY <2>1, <2>2, LevelsClimb DEF Unpaid
    <2>3. ASSUME NEW w \in Workers, Paid(w) PROVE levels' = levels \/ levels' = levels + 1
      <3> DEFINE key == work[w].key
      <3>1. key \in Keys
        BY <1>1, <2>3 DEF IInv, Asked, Paid
      <3>2. key.family = "level" => key.item \in 1..LevelCount
        BY <3>1, KeyFacts
      <3>3. levels' = IF key.family = "level" THEN LevelsCompletedAfter(key.item) ELSE levels
        BY <2>3 DEF Paid
      <3> HIDE DEF key
      <3> QED
        BY <2>1, <3>2, <3>3, LevelsClimb
    <2> QED
      BY <1>1, <2>2, <2>3, Steps DEF Settle
  <1> QED
    BY <1>1, Invariance, PTL DEF Spec, LevelsInOrder

-----------------------------------------------------------------------------
(* One request at most holds the career, and it knows the balance.         *)
Locked ==
  /\ \A w \in Workers : work[w].at = "locked" => work[w].coins = coins
  /\ \A v, w \in Workers : work[v].at = "locked" /\ work[w].at = "locked" => v = w

LEMMA LockedInit == Init => Locked
  BY DEF Init, Locked, Idle

LEMMA LockedStep == ASSUME IInv, Locked, [Next]_vars PROVE Locked'
  <1>t. work \in [Workers -> Request]
    BY DEF IInv, TypeOK
  <1>i. Idle.at = "idle"
    BY DEF Idle
  <1>1. CASE UNCHANGED <<work, coins>>
    BY <1>1 DEF Locked
  <1>2. ASSUME NEW w \in Workers, NEW ask \in Asks, Begin(w, ask) PROVE Locked'
    <2>1. work'[w].at = "begun" /\ \A v \in Workers : v # w => work'[v] = work[v]
      BY <1>2, <1>t DEF Begin
    <2> QED BY <1>2, <2>1 DEF Begin, Locked
  <1>3. ASSUME NEW w \in Workers, LockCareer(w) PROVE Locked'
    <2>1. work'[w].coins = coins /\ \A v \in Workers : v # w => work'[v] = work[v]
      BY <1>3, <1>t DEF LockCareer, Request
    <2> QED BY <1>3, <2>1 DEF LockCareer, CareerFree, Locked
  <1>4. ASSUME NEW w \in Workers, work[w].at = "locked" \/ coins' = coins,
               work' = [work EXCEPT ![w] = Idle]
        PROVE  Locked'
    <2>1. work'[w].at = "idle" /\ \A v \in Workers : v # w => work'[v] = work[v]
      BY <1>4, <1>t, <1>i
    <2> QED BY <1>4, <2>1 DEF Locked
  <1>5. ASSUME NEW w \in Workers, Commit(w) \/ Abort(w) PROVE Locked'
    BY <1>4, <1>5 DEF Commit, Abort
  <1>6. CASE \/ Tick
             \/ \E won \in BOOLEAN, captures \in 0..Target[CaptureTerritories] : Settle(won, captures)
             \/ \E n \in 1..LevelCount : CompleteLevel(n)
    BY <1>1, <1>6 DEF Tick, Settle, CompleteLevel
  <1>7. CASE UNCHANGED vars
    BY <1>1, <1>7 DEF vars
  <1> QED
    BY <1>2, <1>3, <1>5, <1>6, <1>7 DEF Next

-----------------------------------------------------------------------------
Amounts(L) == [e \in L |-> e.amount]
Total(L) == MapThenSumSet(LAMBDA e : e.amount, L)

LEMMA TotalIsMeant == BalanceIsPaidOut <=> coins = InitialCoins + Total(ledger)
  BY DEF BalanceIsPaidOut, Total, MapThenSumSet, MapThenFoldSet

LEMMA AmountsAreSummed ==
  ASSUME NEW L, IsFiniteSet(L), \A e \in L : e.amount \in Int
  PROVE  Total(L) = SumOf(Amounts(L), L)
  <1> DEFINE iter[T \in SUBSET L] ==
               IF T = {} THEN 0 ELSE LET e == CHOOSE e \in T : TRUE IN e.amount + iter[T \ {e}]
             Body(g, T) == IF T = {} THEN 0 ELSE Amounts(L)[Least(T)] + g[T \ {Least(T)}]
  <1>1. Total(L) = iter[L]
    BY DEF Total, MapThenSumSet, MapThenFoldSet
  <1>2. \A T \in SUBSET L : T # {} => Least(T) \in L /\ Amounts(L)[Least(T)] = Least(T).amount
    BY LeastIsIn DEF Amounts
  <1>3. \A g : [T \in SUBSET L |-> IF T = {} THEN 0
                                   ELSE Least(T).amount + g[T \ {Least(T)}]]
               = [T \in SUBSET L |-> Body(g, T)]
    BY <1>2
  <1>4. \A e \in L : Amounts(L)[e] \in Int
    BY DEF Amounts
  <1>5. PICK h \in [SUBSET L -> Int] : IsSum(h, Amounts(L), L)
    BY <1>4, SumExists
  <1>6. IsSum(iter, Amounts(L), L)
    <2>1. iter = CHOOSE g : g = [T \in SUBSET L |-> IF T = {} THEN 0
                                   ELSE Least(T).amount + g[T \ {Least(T)}]]
      BY DEF Least
    <2> HIDE DEF iter
    <2>2. \E g : g = [T \in SUBSET L |-> IF T = {} THEN 0
                                   ELSE Least(T).amount + g[T \ {Least(T)}]]
      <3> DEFINE Rec(g) == [T \in SUBSET L |-> IF T = {} THEN 0
                                   ELSE Least(T).amount + g[T \ {Least(T)}]]
      <3>1. h = [T \in SUBSET L |-> Body(h, T)]
        BY <1>5 DEF IsSum
      <3>2. h = Rec(h)
        <4> HIDE DEF Body
        <4> QED BY <1>3, <3>1
      <3>3. \E g : g = Rec(g)
        <4> HIDE DEF Rec
        <4> QED BY <3>2
      <3> QED BY <3>3
    <2>3. iter = [T \in SUBSET L |-> IF T = {} THEN 0
                                   ELSE Least(T).amount + iter[T \ {Least(T)}]]
      BY <2>1, <2>2
    <2>4. iter = [T \in SUBSET L |-> Body(iter, T)]
      <3> HIDE DEF Body
      <3> QED BY <1>3, <2>3
    <2> QED BY <2>4 DEF IsSum
  <1>7. PICK g : IsSum(g, Amounts(L), L) /\ SumOf(Amounts(L), L) = g[L]
    BY <1>4, SumOfIsSum
  <1>8. L \in SUBSET L /\ \A e \in L : Amounts(L)[e] = Amounts(L)[e]
    OBVIOUS
  <1> HIDE DEF iter
  <1>9. g[L] = iter[L]
    BY <1>6, <1>7, <1>8, SumIsUnique
  <1> QED
    BY <1>1, <1>7, <1>9

(* One more entry adds its amount.                                         *)
LEMMA OneMoreEntry ==
  ASSUME NEW L, IsFiniteSet(L), NEW x, x \notin L, \A e \in L \cup {x} : e.amount \in Int
  PROVE  Total(L \cup {x}) = Total(L) + x.amount
  <1> DEFINE U == L \cup {x}
             f == Amounts(U)
  <1>1. IsFiniteSet(U)
    BY FS_AddElement
  <1>2. /\ \A e \in U : f[e] = e.amount /\ f[e] \in Int
        /\ \A e \in L : Amounts(L)[e] = f[e]
    BY DEF Amounts
  <1>3. Total(U) = SumOf(f, U)
    BY <1>1, AmountsAreSummed
  <1>4. Total(L) = SumOf(Amounts(L), L)
    BY AmountsAreSummed
  <1> HIDE DEF f
  <1>5. SumOf(Amounts(L), L) = SumOf(f, L)
    BY <1>2, SumOfSame
  <1>6. SumOf(f, U) = SumOf(f, L) + f[x]
    <2>1. \A y \in L \cup {x} : f[y] \in Int
      BY <1>2
    <2> QED BY <2>1, SumOfOneMore
  <1> QED
    BY <1>2, <1>3, <1>4, <1>5, <1>6

Balanced == IsFiniteSet(ledger) /\ coins = InitialCoins + Total(ledger)

LEMMA BalancedInit == Init => Balanced
  <1> SUFFICES ASSUME Init PROVE Balanced
    OBVIOUS
  <1>1. ledger = {} /\ coins = InitialCoins /\ InitialCoins \in Nat
    BY ClaimAssumption DEF Init
  <1>2. IsFiniteSet({})
    BY FS_EmptySet
  <1>3. Total({}) = 0
    BY <1>2, AmountsAreSummed, SumOfNothing
  <1> QED
    BY <1>1, <1>2, <1>3 DEF Balanced

LEMMA BalancedStep == ASSUME IInv, Locked, Balanced, [Next]_vars PROVE Balanced'
  <1>1. CASE UNCHANGED <<coins, ledger>>
    BY <1>1 DEF Balanced
  <1>2. ASSUME NEW w \in Workers, Paid(w) PROVE Balanced'
    <2> DEFINE key == work[w].key
               entry == [id |-> <<key.family, work[w].id>>, amount |-> Reward[key]]
    <2>1. /\ key \in Keys /\ entry \notin ledger /\ ledger' = ledger \cup {entry}
      BY <1>2, PayWrites DEF Paid
    <2>2. coins' = coins + Reward[key]
      BY <1>2 DEF Paid, Pay, Locked
    <2>3. Reward[key] \in Nat /\ entry.amount = Reward[key]
      BY <2>1, KeyFacts
    <2>4. \A e \in ledger : e.amount \in Int
      BY DEF IInv, TypeOK
    <2> HIDE DEF entry, key
    <2>5. Total(ledger') = Total(ledger) + entry.amount
      BY <2>1, <2>3, <2>4, OneMoreEntry DEF Balanced
    <2>6. Total(ledger) \in Int
      <3>1. \A e \in ledger : Amounts(ledger)[e] \in Int
        BY <2>4 DEF Amounts
      <3>2. SumOf(Amounts(ledger), ledger) \in Int
        BY <3>1, SumOfTyped DEF Balanced
      <3> QED BY <2>4, <3>2, AmountsAreSummed DEF Balanced
    <2>7. IsFiniteSet(ledger')
      BY <2>1, FS_AddElement DEF Balanced
    <2>8. coins' = InitialCoins + Total(ledger')
      BY <2>2, <2>3, <2>5, <2>6, ClaimAssumption DEF Balanced
    <2> QED
      BY <2>7, <2>8 DEF Balanced
  <1> QED
    BY <1>1, <1>2, Steps DEF Unpaid, Settle

(* The balance is what the paid claims add up to, however many there are:  *)
(* who pays has the balance of the moment he locked it, and nobody else    *)
(* can have changed it since.                                              *)
THEOREM BalanceCorrect == Spec => []BalanceIsPaidOut
  <1>1. IInv /\ Locked /\ Balanced /\ [Next]_vars => Locked' /\ Balanced'
    BY LockedStep, BalancedStep
  <1>2. Balanced => BalanceIsPaidOut
    BY TotalIsMeant DEF Balanced
  <1> QED
    BY <1>1, <1>2, LockedInit, BalancedInit, Invariance, PTL DEF Spec
=============================================================================
