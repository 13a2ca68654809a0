------------------------------ MODULE RealmTickets ------------------------------
(***************************************************************************)
(* Offline battles of the realm: realm_store.go and pilot_practice.go.     *)
(*                                                                         *)
(* A ticket pins an attack on another player, or a practice.  It is open   *)
(* until it is settled or abandoned, and lapses after Lifetime: the next   *)
(* transaction that meets a lapsed attack abandons it, at the price of     *)
(* trophies if it was ranked.  Every transaction starts by locking the     *)
(* player's career, so that a player has one transaction under way; those  *)
(* that read the clock more than once are split at the second reading.     *)
(***************************************************************************)
EXTENDS Integers, FiniteSets

CONSTANTS
  Players, Tickets, NoTicket, NoPlayer,
  Lifetime,          \* realmTicketLifetimeMs
  GraceOfRevenge,    \* realmChallengeLifetimeMs, also of a challenge
  BattleTime,        \* what the shortest battle takes
  SocialQuota,       \* social rewards a day
  AbandonLoss,       \* trophies an abandoned ranked battle costs
  RankedGain, RankedLoss,
  InitialTrophies,
  Day,               \* the day a time is on, by the Tehran calendar
  MaxTime            \* bound of the model: the clock stops there

ASSUME RealmAssumption ==
  /\ NoTicket \notin Tickets /\ NoPlayer \notin Players /\ IsFiniteSet(Tickets)
  /\ {Lifetime, GraceOfRevenge} \subseteq Nat \ {0}
  /\ {BattleTime, SocialQuota, AbandonLoss, RankedGain, RankedLoss} \subseteq Nat
  /\ {InitialTrophies, MaxTime} \subseteq Nat
  /\ Day \in [0..MaxTime -> Nat]
  /\ \A x, y \in 0..MaxTime : x <= y => Day[x] <= Day[y]

VARIABLES
  now,
  tickets,    \* realm_tickets, and the practices of bot_matches
  trophies,
  invited,    \* when a player's challenge link expires
  txn         \* the transaction that holds a player's career

vars == <<now, tickets, trophies, invited, txn>>

Sources == {"ranked", "friend", "revenge", "practice"}

NoRow == [state |-> "none", player |-> NoPlayer, defender |-> NoPlayer, source |-> "practice",
          origin |-> NoTicket, created |-> 0, expires |-> 0, settled |-> 0,
          eligible |-> FALSE, rewarded |-> FALSE]

Idle == [at |-> "idle", defender |-> NoPlayer, source |-> "practice", origin |-> NoTicket,
         ticket |-> NoTicket, eligible |-> FALSE]

Init ==
  /\ now = 0
  /\ tickets = [t \in Tickets |-> NoRow]
  /\ trophies = [p \in Players |-> InitialTrophies]
  /\ invited = [p \in Players |-> 0]
  /\ txn = [p \in Players |-> Idle]

-----------------------------------------------------------------------------
NotAbandoned(t, p) ==                                                 \* mutant
  tickets[t].state \in {"active", "settled"} /\ tickets[t].player = p
Open(t, p) == tickets[t].state = "active" /\ tickets[t].player = p
IsAttack(t) == tickets[t].source # "practice"

NeverLive(t, p) == FALSE                                              \* mutant
Live(t, p) == Open(t, p) /\ tickets[t].expires > now

Lapsed(t, p) == Open(t, p) /\ tickets[t].expires <= now

(* The rewarded tickets of the player that the day's limits count.         *)
RewardedToday(p) ==
  {t \in Tickets : /\ tickets[t].player = p /\ tickets[t].rewarded
                   /\ Day[tickets[t].settled] = Day[now]}

OneMore(p, defender, source) ==                                       \* mutant
  /\ \A t \in RewardedToday(p) : tickets[t].defender # defender
  /\ source # "ranked" =>
       Cardinality({t \in RewardedToday(p) : tickets[t].source # "ranked"}) <= SocialQuota
Eligible(p, defender, source) ==
  /\ \A t \in RewardedToday(p) : tickets[t].defender # defender
  /\ source # "ranked" =>
       Cardinality({t \in RewardedToday(p) : tickets[t].source # "ranked"}) < SocialQuota

UsedToo(p, o) == TRUE                                                 \* mutant
Unavenged(p, o) == \A t \in Tickets : ~(tickets[t].player = p /\ tickets[t].origin = o)

Due(p, o) ==
  /\ tickets[o].state = "settled" /\ tickets[o].defender = p /\ IsAttack(o)
  /\ tickets[o].settled + GraceOfRevenge > now
  /\ Unavenged(p, o)

NoneToday(p, d) ==
  \A t \in Tickets :
    {tickets[t].player, tickets[t].defender} = {p, d} /\ tickets[t].state = "settled" /\ IsAttack(t)
      => Day[tickets[t].settled] # Day[now]

(* Trophies fall to zero and no further.                                   *)
Unclamped(p, loss) == trophies[p] - loss                              \* mutant
Charged(p, loss) == IF trophies[p] < loss THEN 0 ELSE trophies[p] - loss

PenaltyForAll(t) == AbandonLoss                                       \* mutant
Penalty(t) == IF tickets[t].source = "ranked" THEN AbandonLoss ELSE 0

(* expireRealmActive, and activePilotPractice for a practice: what is left *)
(* of the table and of the player's trophies.                              *)
Swept(p) ==
  [t \in Tickets |-> IF Lapsed(t, p) THEN [tickets[t] EXCEPT !.state = "abandoned"] ELSE tickets[t]]

Fined(p) ==
  IF \E t \in Tickets : Lapsed(t, p) /\ Penalty(t) # 0
    THEN Charged(p, AbandonLoss) ELSE trophies[p]

Begin(p, step) == txn' = [txn EXCEPT ![p] = step]
End(p) == txn' = [txn EXCEPT ![p] = Idle]

-----------------------------------------------------------------------------
(* RealmHome: the sweep, then reads.                                       *)
Home(p) ==
  /\ txn[p] = Idle
  /\ \E t \in Tickets : Lapsed(t, p)
  /\ tickets' = Swept(p)
  /\ trophies' = [trophies EXCEPT ![p] = Fined(p)]
  /\ UNCHANGED <<now, invited, txn>>

(* CreateRealmChallenge: a link that has not expired is used again.        *)
Invite(p) ==
  /\ txn[p] = Idle /\ invited[p] <= now
  /\ invited' = [invited EXCEPT ![p] = now + GraceOfRevenge]
  /\ UNCHANGED <<now, tickets, trophies, txn>>

(* StartRealmAttack.  A live attack is returned as it is; a live practice, *)
(* or no opponent to be had, is an error that undoes the sweep as well.    *)
StartCheck(p, source, d, o) ==
  /\ txn[p] = Idle
  /\ \A t \in Tickets : ~Live(t, p)
  /\ d # p
  /\ source = "ranked" => o = NoTicket /\ NoneToday(p, d)
  /\ source = "friend" => o = NoTicket /\ invited[d] > now
  /\ source = "revenge" => o \in Tickets /\ Due(p, o) /\ d = tickets[o].player
  /\ Begin(p, [Idle EXCEPT !.at = "start", !.defender = d, !.source = source, !.origin = o,
                           !.eligible = Eligible(p, d, source)])
  /\ UNCHANGED <<now, tickets, trophies, invited>>

StartCommit(p, t) ==
  LET step == txn[p] IN
  /\ step.at = "start"
  /\ tickets[t].state = "none"
  /\ tickets' = [Swept(p) EXCEPT ![t] =
       [NoRow EXCEPT !.state = "active", !.player = p, !.defender = step.defender,
                     !.source = step.source, !.origin = step.origin, !.created = now,
                     !.expires = now + Lifetime, !.eligible = step.eligible]]
  /\ trophies' = [trophies EXCEPT ![p] = Fined(p)]
  /\ End(p)
  /\ UNCHANGED <<now, invited>>

(* CreatePilotPractice: refused while an attack is live.                   *)
Practice(p, t) ==
  /\ txn[p] = Idle
  /\ \A u \in Tickets : ~Live(u, p)
  /\ tickets[t].state = "none"
  /\ tickets' = [Swept(p) EXCEPT ![t] =
       [NoRow EXCEPT !.state = "active", !.player = p, !.created = now, !.expires = now + Lifetime]]
  /\ trophies' = [trophies EXCEPT ![p] = Fined(p)]
  /\ UNCHANGED <<now, invited, txn>>

(* SettleRealmAttack: the expiry, the length of the battle and today's     *)
(* limits are checked first; the time of the settlement is read after.     *)
SettleCheck(p, t) ==
  /\ txn[p] = Idle
  /\ Live(t, p) /\ IsAttack(t)
  /\ now - tickets[t].created >= BattleTime
  /\ Begin(p, [Idle EXCEPT !.at = "settle", !.ticket = t,
                           !.eligible = tickets[t].eligible
                                        /\ Eligible(p, tickets[t].defender, tickets[t].source)])
  /\ UNCHANGED <<now, tickets, trophies, invited>>

SettleCommit(p) ==
  LET t == txn[p].ticket IN
  /\ txn[p].at = "settle"
  /\ tickets' = [tickets EXCEPT ![t].state = "settled", ![t].settled = now,
                                ![t].rewarded = txn[p].eligible]
  /\ \E won \in BOOLEAN :
       trophies' = [trophies EXCEPT ![p] =
         IF ~txn[p].eligible \/ tickets[t].source # "ranked" THEN @
         ELSE IF won THEN @ + RankedGain ELSE Charged(p, RankedLoss)]
  /\ End(p)
  /\ UNCHANGED <<now, invited>>

(* SettlePilotPractice pays coins and no trophies.                         *)
SettlePractice(p, t) ==
  /\ txn[p] = Idle
  /\ Live(t, p) /\ ~IsAttack(t)
  /\ now - tickets[t].created >= BattleTime
  /\ tickets' = [tickets EXCEPT ![t].state = "settled", ![t].settled = now]
  /\ UNCHANGED <<now, trophies, invited, txn>>

Abandon(p, t) ==
  /\ txn[p] = Idle
  /\ Open(t, p) /\ IsAttack(t)
  /\ tickets' = [tickets EXCEPT ![t].state = "abandoned"]
  /\ trophies' = [trophies EXCEPT ![p] = Charged(p, Penalty(t))]
  /\ UNCHANGED <<now, invited, txn>>

(* The transaction fails, or the request is cancelled.                     *)
Rollback(p) ==
  /\ txn[p] # Idle
  /\ End(p)
  /\ UNCHANGED <<now, tickets, trophies, invited>>

Tick ==
  /\ now < MaxTime
  /\ now' = now + 1
  /\ UNCHANGED <<tickets, trophies, invited, txn>>

Next ==
  \/ Tick
  \/ \E p \in Players :
       \/ Home(p) \/ Invite(p) \/ SettleCommit(p) \/ Rollback(p)
       \/ \E source \in Sources \ {"practice"}, d \in Players, o \in Tickets \cup {NoTicket} :
            StartCheck(p, source, d, o)
       \/ \E t \in Tickets :
            \/ StartCommit(p, t) \/ Practice(p, t)
            \/ SettleCheck(p, t) \/ SettlePractice(p, t) \/ Abandon(p, t)

Spec == Init /\ [][Next]_vars

-----------------------------------------------------------------------------
(* Properties.                                                             *)

Row == [state : {"none", "active", "settled", "abandoned"}, player : Players \cup {NoPlayer},
        defender : Players \cup {NoPlayer}, source : Sources, origin : Tickets \cup {NoTicket},
        created : Nat, expires : Nat, settled : 0..MaxTime, eligible : BOOLEAN, rewarded : BOOLEAN]

Txn == [at : {"idle", "start", "settle"}, defender : Players \cup {NoPlayer}, source : Sources,
        origin : Tickets \cup {NoTicket}, ticket : Tickets \cup {NoTicket}, eligible : BOOLEAN]

(* Trophies never fall below zero.                                         *)
TypeOK ==
  /\ now \in 0..MaxTime
  /\ tickets \in [Tickets -> Row]
  /\ trophies \in [Players -> Nat]
  /\ invited \in [Players -> Nat]
  /\ txn \in [Players -> Txn]

(* "One active offline battle" (docs/realm-commercial-pilot.md:15): of all *)
(* attacks and practices of a player one is open, live or lapsed.          *)
OneBattle ==
  \A p \in Players : \A t, u \in Tickets : Open(t, p) /\ Open(u, p) => t = u

(* "Once per opponent/day, max three social rewards/day"                   *)
(* (docs/realm-commercial-pilot.md:16), by the day of the settlement,      *)
(* although eligibility was looked up before, maybe on the day before.     *)
RewardsWithinLimits ==
  \A p \in Players, day \in {Day[tickets[t].settled] : t \in Tickets} :
    LET paid == {t \in Tickets : tickets[t].player = p /\ tickets[t].rewarded
                                 /\ Day[tickets[t].settled] = day} IN
    /\ \A t, u \in paid : tickets[t].defender = tickets[u].defender => t = u
    /\ Cardinality({t \in paid : tickets[t].source # "ranked"}) <= SocialQuota

(* Every attack allows one revenge, to the player it was made on, who      *)
(* takes it on the attacker after the attack.                              *)
RevengeIsDue ==
  \A t \in Tickets : LET o == tickets[t].origin IN
    o # NoTicket =>
      /\ tickets[o].state = "settled"
      /\ tickets[t].player = tickets[o].defender /\ tickets[t].defender = tickets[o].player
      /\ tickets[t].created >= tickets[o].settled
      /\ \A u \in Tickets : tickets[u].origin = o => u = t

(* A ticket that is settled or abandoned stays as it is, no retry and no   *)
(* second device settles it again, and trophies change only in the step    *)
(* that resolves a ranked ticket of that player, which makes it once:      *)
(* "Social and practice exits do not cost trophies"                        *)
(* (docs/realm-commercial-pilot.md:70).                                    *)
ResolvedForGood ==
  [][/\ \A t \in Tickets : tickets[t].state \in {"settled", "abandoned"} => tickets'[t] = tickets[t]
     /\ \A p \in Players : trophies'[p] # trophies[p] =>
          \E t \in Tickets : /\ Open(t, p) /\ tickets[t].source = "ranked"
                             /\ tickets'[t].state # "active"]_vars
=============================================================================
