-------------------------------- MODULE Claims --------------------------------
(***************************************************************************)
(* Rewards a player claims: the missions and the chest of a day            *)
(* (daily.go), campaign levels (levels.go), the week's challenges          *)
(* (weekly.go), ranks (league.go) and lane battles (lane_claim.go).        *)
(*                                                                         *)
(* The five are one transaction with five tables: look for a row of the    *)
(* claim id, lock the career, look again, ask whether the reward is due,   *)
(* insert the row, write balance and ledger.  What is due depends on what  *)
(* the player did: the counters of a day, the levels completed, the        *)
(* trophies, the week the clock shows.                                     *)
(*                                                                         *)
(* One player, who may use several devices: a worker is a request being    *)
(* served.  Submissions are victories; the replay that tells (and refuses  *)
(* the others before the transaction begins) is not modelled.              *)
(***************************************************************************)
EXTENDS Integers, FiniteSets, FiniteSetsExt

CONSTANTS
  Ids, NoId,     \* claim ids, chosen by the devices
  Asks,          \* what they ask for with each: [id, family, item]
  Workers,
  LevelCount, Slots, LaneLevels,
  MinTrophies,   \* what each rank asks for
  Target,        \* what each mission asks for
  Reward,        \* coins of each key
  InitialCoins,
  Day, Week,     \* of a time; days by the Tehran calendar, weeks from Saturday on
  MaxTime, MaxMatches, MaxClaims   \* bounds of the model

PlayMatches == 1
WinMatch == 2
CaptureTerritories == 3
CrownChest == 4
Missions == {PlayMatches, WinMatch, CaptureTerritories}

Days == {Day[time] : time \in 0..MaxTime}
Weeks == {Week[time] : time \in 0..MaxTime}
Ranks == DOMAIN MinTrophies

(* What is paid once: the unique keys of the five tables.                  *)
KeysOf(family, periods, items) == [family : {family}, period : periods, item : items]
Keys == UNION {KeysOf("daily", Days, Missions \cup {CrownChest}),
               KeysOf("level", {0}, 1..LevelCount),
               KeysOf("weekly", Weeks, Slots),
               KeysOf("league", {0}, Ranks),
               KeysOf("lane", {0}, LaneLevels)}

ASSUME ClaimAssumption ==
  /\ {LevelCount, InitialCoins, MaxTime, MaxMatches, MaxClaims} \subseteq Nat
  /\ NoId \notin Ids /\ Slots \subseteq Nat /\ LaneLevels \subseteq Nat
  /\ MinTrophies \in [Ranks -> Nat] /\ Ranks \subseteq Nat
  /\ Target \in [Missions -> Nat \ {0}]
  /\ \A ask \in Asks : /\ ask.id \in Ids
                       /\ \E key \in Keys : key.family = ask.family /\ key.item = ask.item
  /\ Reward \in [Keys -> Nat \ {0}]
  /\ Day \in [0..MaxTime -> Nat] /\ Week \in [0..MaxTime -> Nat]

VARIABLES
  now,
  coins, trophies, levels,   \* the player's row; levels is levels_completed
  claims,      \* rows of the five claim tables
  ledger,      \* economy_ledger
  days,        \* player_daily_progress, by day
  matches,     \* settled so far
  work         \* what each worker serves

vars == <<now, coins, trophies, levels, claims, ledger, days, matches, work>>

NoKey == [family |-> "none", period |-> 0, item |-> 0]
Idle == [at |-> "idle", id |-> NoId, key |-> NoKey, coins |-> 0]

NewDay == [progress |-> [m \in Missions |-> 0], claimed |-> {}]

Init ==
  /\ now = 0
  /\ coins = InitialCoins /\ trophies = 0 /\ levels = 0
  /\ claims = {} /\ ledger = {}
  /\ days = [day \in Days |-> NewDay]
  /\ matches = 0
  /\ work = [w \in Workers |-> Idle]

-----------------------------------------------------------------------------
(* The claim.                                                              *)

Row(id, key) == [id |-> id, key |-> key]

(* A row of this claim id: its stored result, or an error when the row is  *)
(* of another key, is the answer.                                          *)
Stored(id, key) == \E c \in claims : c.id = id /\ c.key.family = key.family

Taken(key) == \E c \in claims : c.key = key

Unlocked(n) == TRUE                                                   \* mutant
InOrder(n) == n <= levels + 1

NoProgress(n) == levels                                               \* mutant
(* Mirrors the client's function of the same name.                         *)
LevelsCompletedAfter(n) == IF InOrder(n) /\ n > levels THEN n ELSE levels

LooseChest(day, item) ==                                              \* mutant
  /\ item \notin days[day].claimed
  /\ item \in Missions => days[day].progress[item] >= Target[item]
DailyRewardAvailable(day, item) ==
  /\ item \notin days[day].claimed
  /\ item \in Missions => days[day].progress[item] >= Target[item]
  /\ item = CrownChest => Missions \subseteq days[day].claimed

(* Whether a claim that reached the lock is paid.                          *)
Due(key) ==
  CASE key.family = "daily"  -> DailyRewardAvailable(key.period, key.item)
    [] key.family = "level"  -> InOrder(key.item) /\ ~Taken(key)
    [] key.family = "league" -> ~Taken(key) /\ trophies >= MinTrophies[key.item]
    [] OTHER                 -> ~Taken(key)

(* Daily claims are for the day their handler reads from the clock, weekly *)
(* ones are refused unless the clock shows their week.                     *)
KeyOf(ask) ==
  [family |-> ask.family, item |-> ask.item,
   period |-> CASE ask.family = "daily" -> Day[now]
                [] ask.family = "weekly" -> Week[now]
                [] OTHER -> 0]

Begin(w, ask) ==
  LET key == KeyOf(ask) IN
  /\ work[w] = Idle /\ Cardinality(claims) < MaxClaims
  /\ ~Stored(ask.id, key)
  /\ work' = [work EXCEPT ![w] = [at |-> "begun", id |-> ask.id, key |-> key, coins |-> 0]]
  /\ UNCHANGED <<now, coins, trophies, levels, claims, ledger, days, matches>>

NeverLocked == TRUE                                                   \* mutant
CareerFree == \A w \in Workers : work[w].at # "locked"

LockCareer(w) ==
  /\ work[w].at = "begun" /\ CareerFree
  /\ work' = [work EXCEPT ![w].at = "locked", ![w].coins = coins]
  /\ UNCHANGED <<now, coins, trophies, levels, claims, ledger, days, matches>>

(* A row whose id or key is there already fails the insert, and with it    *)
(* the transaction.                                                        *)
Refused(id, key) == Stored(id, key) \/ Taken(key)

OneIdForAll(id, key) == <<"claim", id>>                               \* mutant
LedgerId(id, key) == <<key.family, id>>

(* An entry whose id is there already is dropped without an error.         *)
Booked(entry) == \E e \in ledger : e.id = entry.id

TodaysFlag(key) == [days EXCEPT ![Day[now]].claimed = @ \cup {key.item}] \* mutant
MarkDailyRewardClaimed(key) == [days EXCEPT ![key.period].claimed = @ \cup {key.item}]

Pay(w) ==
  LET id == work[w].id  key == work[w].key
      entry == [id |-> LedgerId(id, key), amount |-> Reward[key]] IN
  /\ claims' = claims \cup {Row(id, key)}
  /\ coins' = work[w].coins + Reward[key]
  /\ ledger' = IF Booked(entry) THEN ledger ELSE ledger \cup {entry}
  /\ days' = IF key.family = "daily" THEN MarkDailyRewardClaimed(key) ELSE days

Commit(w) ==
  LET id == work[w].id  key == work[w].key IN
  /\ work[w].at = "locked"
  /\ IF Stored(id, key) \/ (Due(key) /\ Refused(id, key))
       THEN UNCHANGED <<coins, levels, claims, ledger, days>>
       ELSE /\ levels' = IF key.family = "level" THEN LevelsCompletedAfter(key.item) ELSE levels
            /\ IF Due(key) THEN Pay(w) ELSE UNCHANGED <<coins, claims, ledger, days>>
  /\ work' = [work EXCEPT ![w] = Idle]
  /\ UNCHANGED <<now, trophies, matches>>

(* The request is cancelled or its connection lost.                        *)
Abort(w) ==
  /\ work[w] # Idle
  /\ work' = [work EXCEPT ![w] = Idle]
  /\ UNCHANGED <<now, coins, trophies, levels, claims, ledger, days, matches>>

-----------------------------------------------------------------------------
(* What the player does besides.                                           *)

Unbounded(n, m) == n                                                  \* mutant
LEAST(n, m) == IF n > Target[m] THEN Target[m] ELSE n

(* A settled match counts for the day the settlement reads from the clock, *)
(* under the lock of the career.  The coins it pays are Settlements'.      *)
AdvanceDailyProgress(won, captures) ==
  LET gain == [m \in Missions |->
                 CASE m = PlayMatches -> 1
                   [] m = WinMatch -> IF won THEN 1 ELSE 0
                   [] m = CaptureTerritories -> captures] IN
  days' = [days EXCEPT ![Day[now]].progress =
             [m \in Missions |-> LEAST(@[m] + gain[m], m)]]

Settle(won, captures) ==
  /\ matches < MaxMatches /\ CareerFree
  /\ AdvanceDailyProgress(won, captures)
  /\ trophies' = IF won THEN trophies + 1 ELSE IF trophies = 0 THEN 0 ELSE trophies - 1
  /\ matches' = matches + 1
  /\ UNCHANGED <<now, coins, levels, claims, ledger, work>>

(* A level reported by a client that predates the rewards.                 *)
CompleteLevel(n) ==
  /\ CareerFree
  /\ levels' = LevelsCompletedAfter(n)
  /\ UNCHANGED <<now, coins, trophies, claims, ledger, days, matches, work>>

Tick ==
  /\ now < MaxTime
  /\ now' = now + 1
  /\ UNCHANGED <<coins, trophies, levels, claims, ledger, days, matches, work>>

Next ==
  \/ Tick
  \/ \E won \in BOOLEAN, captures \in 0..Target[CaptureTerritories] : Settle(won, captures)
  \/ \E n \in 1..LevelCount : CompleteLevel(n)
  \/ \E w \in Workers :
       \/ \E ask \in Asks : Begin(w, ask)
       \/ LockCareer(w) \/ Commit(w) \/ Abort(w)

Spec == Init /\ [][Next]_vars

-----------------------------------------------------------------------------
(* Properties.                                                             *)

DayRow == [progress : [Missions -> Nat], claimed : SUBSET (Missions \cup {CrownChest})]
Request == [at : {"idle", "begun", "locked"}, id : Ids \cup {NoId},
            key : Keys \cup {NoKey}, coins : Nat]
Families == {"daily", "level", "weekly", "league", "lane"}

(* Levels stay within the campaign, as the CHECK of players.levels_completed *)
(* has it, and the counters of a day at their targets.                     *)
TypeOK ==
  /\ now \in 0..MaxTime
  /\ coins \in Nat /\ trophies \in Nat /\ levels \in 0..LevelCount
  /\ claims \subseteq [id : Ids, key : Keys]
  /\ ledger \subseteq [id : Families \X Ids, amount : Nat]
  /\ days \in [Days -> DayRow]
  /\ \A day \in Days, m \in Missions : days[day].progress[m] <= Target[m]
  /\ matches \in Nat
  /\ work \in [Workers -> Request]

(* "Exactly once per (player, level)" (levels.go:234, lane_claim.go:67),   *)
(* "once per (player, week, slot)" (weekly.go:161): no two rows of a table *)
(* share a claim id or a key, and each has its own ledger entry with the   *)
(* amount of its key, none dropped by ON CONFLICT.                         *)
PaidOncePerClaim ==
  /\ \A c, d \in claims :
       c.key = d.key \/ (c.id = d.id /\ c.key.family = d.key.family) => c = d
  /\ ledger = {[id |-> <<c.key.family, c.id>>, amount |-> Reward[c.key]] : c \in claims}

(* The balance is what the paid claims add up to: no claim is computed     *)
(* from a balance that another has changed.                                *)
BalanceIsPaidOut ==
  coins = InitialCoins + MapThenSumSet(LAMBDA e : e.amount, ledger)

(* What was paid was earned: a mission and the chest of a day on that very *)
(* day, the chest after all its missions, also when a claim began before   *)
(* midnight and commits after it; a level by a progress that is not        *)
(* lowered again.                                                          *)
PaidIsEarned ==
  \A c \in claims :
    /\ c.key.family = "level" => c.key.item <= levels
    /\ c.key.family = "daily" =>
         \A m \in Missions : c.key.item \in {m, CrownChest} =>
           /\ days[c.key.period].progress[m] >= Target[m]
           /\ \E d \in claims : d.key = [c.key EXCEPT !.item = m]

(* "So concurrent retries cannot skip a level" (levels.go:114): requests   *)
(* with and without proof complete the levels in order, one at a time.     *)
LevelsInOrder == [][levels' = levels \/ levels' = levels + 1]_vars
=============================================================================
