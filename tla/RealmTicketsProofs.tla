--------------------------- MODULE RealmTicketsProofs ---------------------------
(***************************************************************************)
(* Proofs about RealmTickets, for any players, tickets and calendar.       *)
(* Rows says what a ticket's row is in each of its states; Steps says what *)
(* a transaction that waits for its second reading of the clock knows, and *)
(* that the other players' transactions cannot take from it.               *)
(***************************************************************************)
EXTENDS RealmTickets, FiniteSetTheorems, TLAPS

Rows ==
  /\ \A t \in Tickets : tickets[t].state = "none" => tickets[t] = NoRow
  /\ \A t \in Tickets : tickets[t].state # "none" => tickets[t].player \in Players
  /\ \A t \in Tickets : tickets[t].rewarded => tickets[t].state = "settled"
  /\ \A t \in Tickets : tickets[t].settled <= now

Starting(p) ==
  /\ \A t \in Tickets : ~Live(t, p)
  /\ txn[p].source # "revenge" => txn[p].origin = NoTicket
  /\ txn[p].source = "revenge" =>
       LET o == txn[p].origin IN
       /\ o \in Tickets /\ tickets[o].state = "settled"
       /\ tickets[o].defender = p /\ tickets[o].player = txn[p].defender
       /\ Unavenged(p, o)

Settling(p) ==
  LET t == txn[p].ticket IN
  /\ t \in Tickets /\ Open(t, p)
  /\ txn[p].eligible => Eligible(p, tickets[t].defender, tickets[t].source)

Steps ==
  /\ \A p \in Players : txn[p].at = "start" => Starting(p)
  /\ \A p \in Players : txn[p].at = "settle" => Settling(p)

(* RewardsWithinLimits, for the days without a settlement as well.         *)
PaidOn(p, day) ==
  {t \in Tickets : tickets[t].player = p /\ tickets[t].rewarded /\ Day[tickets[t].settled] = day}

Social(S) == {t \in S : tickets[t].source # "ranked"}

Limits ==
  \A p \in Players, day \in Nat :
    /\ \A t, u \in PaidOn(p, day) : tickets[t].defender = tickets[u].defender => t = u
    /\ Cardinality(Social(PaidOn(p, day))) <= SocialQuota

IInv == TypeOK /\ Rows /\ OneBattle /\ RevengeIsDue /\ Limits /\ Steps

(* What a transaction of p does to a ticket: nothing, or it closes the     *)
(* open one, or it files a new one, and then that is the only open one.    *)
Kept(t) == tickets'[t] = tickets[t]

Closed(t, p) ==
  /\ Open(t, p)
  /\ tickets'[t].player = p /\ tickets'[t].defender = tickets[t].defender
  /\ tickets'[t].source = tickets[t].source /\ tickets'[t].origin = tickets[t].origin
  /\ tickets'[t].created = tickets[t].created
  /\ tickets'[t].state \in {"settled", "abandoned"}
  /\ tickets'[t].settled \in {tickets[t].settled, now}
  /\ tickets'[t].rewarded =>
       /\ tickets'[t].state = "settled" /\ tickets'[t].settled = now
       /\ Eligible(p, tickets[t].defender, tickets[t].source)

Filed(t, p) ==
  /\ tickets[t].state = "none"
  /\ tickets'[t].state = "active" /\ tickets'[t].player = p
  /\ tickets'[t].created = now /\ tickets'[t].settled = 0 /\ ~tickets'[t].rewarded
  /\ tickets'[t].origin # NoTicket =>
       LET o == tickets'[t].origin IN
       /\ o \in Tickets /\ tickets[o].state = "settled"
       /\ tickets[o].defender = p /\ tickets[o].player = tickets'[t].defender
       /\ Unavenged(p, o)
  /\ \A u \in Tickets \ {t} : ~Open(u, p)'

Move(p) ==
  /\ now' = now
  /\ \A q \in Players \ {p} : txn'[q] = txn[q]
  /\ txn'[p] = Idle
  /\ \A t \in Tickets : Kept(t) \/ Closed(t, p) \/ Filed(t, p)

-----------------------------------------------------------------------------
LEMMA NoRowTyped == NoRow \in Row /\ Idle \in Txn
  BY RealmAssumption DEF NoRow, Row, Idle, Txn, Sources

LEMMA InitInv == Init => IInv
  <1> SUFFICES ASSUME Init PROVE IInv
    OBVIOUS
  <1>1. TypeOK
    BY NoRowTyped, RealmAssumption DEF Init, TypeOK
  <1>2. Rows /\ OneBattle /\ RevengeIsDue /\ Steps
    BY RealmAssumption DEF Init, Rows, OneBattle, RevengeIsDue, Steps, NoRow, Open, Idle
  <1>3. Limits
    <2>1. \A p \in Players, day \in Nat : PaidOn(p, day) = {}
      BY DEF Init, NoRow, PaidOn
    <2>2. Social({}) = {}
      BY DEF Social
    <2>3. Cardinality({}) <= SocialQuota
      BY FS_EmptySet, RealmAssumption
    <2> QED
      BY <2>1, <2>2, <2>3 DEF Limits
  <1> QED
    BY <1>1, <1>2, <1>3 DEF IInv

(* The sweep abandons the player's lapsed tickets, and nothing else.       *)
LEMMA SweptRows ==
  ASSUME TypeOK, NEW p \in Players
  PROVE  /\ Swept(p) \in [Tickets -> Row]
         /\ \A t \in Tickets : ~Lapsed(t, p) => Swept(p)[t] = tickets[t]
         /\ \A t \in Tickets : Lapsed(t, p) =>
              /\ Swept(p)[t].state = "abandoned"
              /\ Swept(p)[t].player = p
              /\ tickets[t].state = "active"
              /\ Swept(p)[t] = [tickets[t] EXCEPT !.state = "abandoned"]
  <1>1. \A t \in Tickets : [tickets[t] EXCEPT !.state = "abandoned"] \in Row
    BY DEF TypeOK, Row
  <1>2. \A t \in Tickets : Lapsed(t, p) => [tickets[t] EXCEPT !.state = "abandoned"].player = p
    BY DEF TypeOK, Row, Lapsed, Open
  <1> QED
    BY <1>1, <1>2 DEF Swept, TypeOK, Row, Lapsed, Open

LEMMA SweptLapsed ==
  ASSUME TypeOK, NEW p \in Players, NEW t \in Tickets, Lapsed(t, p)
  PROVE  Swept(p)[t].state = "abandoned"
  <1>1. Swept(p)[t] = [tickets[t] EXCEPT !.state = "abandoned"] /\ tickets[t] \in Row
    BY DEF Swept, TypeOK
  <1> QED
    BY <1>1 DEF Row

LEMMA TrophiesTyped ==
  ASSUME TypeOK, NEW p \in Players
  PROVE  Fined(p) \in Nat /\ \A n \in Nat : Charged(p, n) \in Nat
  BY RealmAssumption DEF Fined, Charged, TypeOK

LEMMA TypeStep == IInv /\ [Next]_vars => TypeOK'
  <1> SUFFICES ASSUME IInv, [Next]_vars PROVE TypeOK'
    OBVIOUS
  <1> USE DEF IInv
  <1>n. now \in Nat /\ now \in 0..MaxTime /\ now + Lifetime \in Nat /\ now + GraceOfRevenge \in Nat
    BY RealmAssumption DEF TypeOK
  <1>1. CASE UNCHANGED vars
    BY <1>1 DEF TypeOK, vars
  <1>2. CASE Tick
    BY <1>2, RealmAssumption DEF Tick, TypeOK
  <1>3. ASSUME NEW p \in Players, Home(p) PROVE TypeOK'
    BY <1>3, SweptRows, TrophiesTyped DEF Home, TypeOK
  <1>4. ASSUME NEW p \in Players, Invite(p) PROVE TypeOK'
    BY <1>4, <1>n DEF Invite, TypeOK
  <1>5. ASSUME NEW p \in Players, NEW source \in Sources, NEW d \in Players,
               NEW o \in Tickets \cup {NoTicket}, StartCheck(p, source, d, o)
        PROVE  TypeOK'
    <2>1. [Idle EXCEPT !.at = "start", !.defender = d, !.source = source, !.origin = o,
                       !.eligible = Eligible(p, d, source)] \in Txn
      <3>1. Eligible(p, d, source) \in BOOLEAN
        BY DEF Eligible
      <3> QED
        BY <3>1, NoRowTyped DEF Idle, Txn
    <2> QED
      BY <1>5, <2>1 DEF StartCheck, Begin, TypeOK
  <1>6. ASSUME NEW p \in Players, NEW t \in Tickets, StartCommit(p, t) PROVE TypeOK'
    <2> DEFINE row == [NoRow EXCEPT !.state = "active", !.player = p, !.defender = txn[p].defender,
                     !.source = txn[p].source, !.origin = txn[p].origin, !.created = now,
                     !.expires = now + Lifetime, !.eligible = txn[p].eligible]
    <2>1. row \in Row
      BY <1>n, NoRowTyped DEF NoRow, Row, TypeOK, Txn
    <2>2. tickets' = [Swept(p) EXCEPT ![t] = row] /\ txn' = [txn EXCEPT ![p] = Idle]
      BY <1>6 DEF StartCommit, End
    <2> HIDE DEF row
    <2> QED
      BY <1>6, <2>1, <2>2, SweptRows, TrophiesTyped, NoRowTyped DEF StartCommit, TypeOK
  <1>7. ASSUME NEW p \in Players, NEW t \in Tickets, Practice(p, t) PROVE TypeOK'
    <2> DEFINE row == [NoRow EXCEPT !.state = "active", !.player = p, !.created = now,
                                    !.expires = now + Lifetime]
    <2>1. row \in Row
      BY <1>n, NoRowTyped DEF NoRow, Row
    <2>2. tickets' = [Swept(p) EXCEPT ![t] = row]
      BY <1>7 DEF Practice
    <2> HIDE DEF row
    <2> QED
      BY <1>7, <2>1, <2>2, SweptRows, TrophiesTyped DEF Practice, TypeOK
  <1>8. ASSUME NEW p \in Players, NEW t \in Tickets, SettleCheck(p, t) PROVE TypeOK'
    <2>1. [Idle EXCEPT !.at = "settle", !.ticket = t,
                       !.eligible = tickets[t].eligible
                         /\ Eligible(p, tickets[t].defender, tickets[t].source)] \in Txn
      <3>1. (tickets[t].eligible /\ Eligible(p, tickets[t].defender, tickets[t].source)) \in BOOLEAN
        OBVIOUS
      <3> QED
        BY <3>1, NoRowTyped DEF Idle, Txn
    <2> QED
      BY <1>8, <2>1 DEF SettleCheck, Begin, TypeOK
  <1>9. ASSUME NEW p \in Players, SettleCommit(p) PROVE TypeOK'
    <2> DEFINE t == txn[p].ticket
    <2>1. t \in Tickets
      BY <1>9 DEF SettleCommit, Steps, Settling
    <2>2. txn[p].eligible \in BOOLEAN
      BY DEF TypeOK, Txn
    <2>3. tickets'[t] = [tickets[t] EXCEPT !.state = "settled", !.settled = now,
                                           !.rewarded = txn[p].eligible]
      BY <1>9, <2>1 DEF SettleCommit, TypeOK
    <2>4. tickets'[t] \in Row
      <3>1. tickets[t] \in Row /\ now \in 0..MaxTime
        BY <1>n, <2>1 DEF TypeOK
      <3> HIDE DEF t
      <3> QED
        BY <3>1, <2>2, <2>3 DEF Row
    <2>5. tickets' \in [Tickets -> Row]
      BY <1>9, <2>1, <2>4 DEF SettleCommit, TypeOK
    <2>6. trophies' \in [Players -> Nat]
      <3>1. trophies[p] + RankedGain \in Nat
        BY RealmAssumption DEF TypeOK
      <3>2. RankedLoss \in Nat
        BY RealmAssumption
      <3>3. Charged(p, RankedLoss) \in Nat
        BY <3>2, TrophiesTyped
      <3> QED
        BY <1>9, <3>1, <3>3 DEF SettleCommit, TypeOK
    <2> QED
      BY <1>9, <2>5, <2>6, NoRowTyped DEF SettleCommit, End, TypeOK
  <1>10. ASSUME NEW p \in Players, NEW t \in Tickets, SettlePractice(p, t) PROVE TypeOK'
    <2>1. [tickets[t] EXCEPT !.state = "settled", !.settled = now] \in Row
      BY <1>n DEF TypeOK, Row
    <2> QED
      BY <1>10, <2>1 DEF SettlePractice, TypeOK
  <1>11. ASSUME NEW p \in Players, NEW t \in Tickets, Abandon(p, t) PROVE TypeOK'
    <2>1. [tickets[t] EXCEPT !.state = "abandoned"] \in Row
      BY DEF TypeOK, Row
    <2>2. Charged(p, Penalty(t)) \in Nat
      BY TrophiesTyped, RealmAssumption DEF Penalty
    <2> QED
      BY <1>11, <2>1, <2>2 DEF Abandon, TypeOK
  <1>12. ASSUME NEW p \in Players, Rollback(p) PROVE TypeOK'
    BY <1>12, NoRowTyped DEF Rollback, End, TypeOK
  <1> QED
    BY <1>1, <1>2, <1>3, <1>4, <1>5, <1>6, <1>7, <1>8, <1>9, <1>10, <1>11, <1>12 DEF Next

-----------------------------------------------------------------------------
(* What a move keeps.                                                      *)

LEMMA MoveRows ==
  ASSUME IInv, TypeOK', NEW p \in Players, Move(p)
  PROVE  Rows'
  <1> USE DEF IInv, Move
  <1> SUFFICES ASSUME NEW t \in Tickets
               PROVE  /\ tickets'[t].state = "none" => tickets'[t] = NoRow
                      /\ tickets'[t].state # "none" => tickets'[t].player \in Players
                      /\ tickets'[t].rewarded => tickets'[t].state = "settled"
                      /\ tickets'[t].settled <= now'
    BY DEF Rows
  <1>1. CASE Kept(t)
    BY <1>1 DEF Kept, Rows
  <1>2. CASE Closed(t, p)
    BY <1>2 DEF Closed, Rows, TypeOK
  <1>3. CASE Filed(t, p)
    BY <1>3 DEF Filed, TypeOK
  <1> QED
    BY <1>1, <1>2, <1>3

LEMMA MoveOneBattle ==
  ASSUME IInv, TypeOK', NEW p \in Players, Move(p)
  PROVE  OneBattle'
  <1> USE DEF IInv, Move
  <1> SUFFICES ASSUME NEW q \in Players, NEW t \in Tickets, NEW u \in Tickets,
                      Open(t, q)', Open(u, q)', t # u
               PROVE  FALSE
    BY DEF OneBattle
  <1>1. ~Filed(t, p) /\ ~Filed(u, p)
    BY DEF Filed, Open
  <1>2. Kept(t) /\ Kept(u)
    BY <1>1 DEF Closed, Open
  <1> QED
    BY <1>2 DEF Kept, Open, OneBattle

LEMMA MoveRevenge ==
  ASSUME IInv, TypeOK', NEW p \in Players, Move(p)
  PROVE  RevengeIsDue'
  <1> USE DEF IInv, Move
  <1> DEFINE Same(t) == /\ tickets'[t].origin = tickets[t].origin
                        /\ tickets'[t].player = tickets[t].player
                        /\ tickets'[t].defender = tickets[t].defender
                        /\ tickets'[t].created = tickets[t].created
  <1>1. \A t \in Tickets : Same(t) \/ Filed(t, p)
    BY DEF Kept, Closed, Open
  <1>2. \A o \in Tickets : tickets[o].state = "settled" => Kept(o)
    BY DEF Closed, Filed, Open
  <1>3. \A t \in Tickets : tickets[t].origin \in Tickets \cup {NoTicket}
    BY DEF TypeOK, Row
  <1>4. \A t \in Tickets : Filed(t, p) => tickets[t].origin = NoTicket
    BY DEF Filed, Rows, NoRow
  <1> HIDE DEF Same
  <1> SUFFICES ASSUME NEW t \in Tickets, NEW o, o = tickets'[t].origin, o # NoTicket
               PROVE  /\ tickets'[o].state = "settled"
                      /\ tickets'[t].player = tickets'[o].defender
                      /\ tickets'[t].defender = tickets'[o].player
                      /\ tickets'[t].created >= tickets'[o].settled
                      /\ \A u \in Tickets : tickets'[u].origin = o => u = t
    BY DEF RevengeIsDue
  <1>5. CASE Same(t)
    <2>1. o = tickets[t].origin /\ o \in Tickets
      BY <1>3, <1>5 DEF Same
    <2>2. /\ tickets[o].state = "settled" /\ tickets[t].player = tickets[o].defender
          /\ tickets[t].defender = tickets[o].player /\ tickets[t].created >= tickets[o].settled
          /\ \A u \in Tickets : tickets[u].origin = o => u = t
      BY <2>1 DEF RevengeIsDue
    <2>3. Kept(o)
      BY <1>2, <2>1, <2>2
    <2>4. \A u \in Tickets : tickets'[u].origin = o => u = t
      <3> SUFFICES ASSUME NEW u \in Tickets, tickets'[u].origin = o, u # t
                   PROVE  FALSE
        OBVIOUS
      <3>1. CASE Same(u)
        BY <2>2, <3>1 DEF Same
      <3>2. CASE Filed(u, p)
        <4>1. Unavenged(p, o) /\ tickets[o].defender = p
          BY <3>2 DEF Filed
        <4> QED
          BY <2>1, <2>2, <4>1 DEF Unavenged
      <3> QED
        BY <1>1, <3>1, <3>2
    <2> QED
      BY <1>5, <2>2, <2>3, <2>4 DEF Same, Kept
  <1>6. CASE Filed(t, p)
    <2>1. /\ o \in Tickets /\ tickets[o].state = "settled" /\ tickets[o].defender = p
          /\ tickets[o].player = tickets'[t].defender /\ Unavenged(p, o)
          /\ tickets'[t].player = p /\ tickets'[t].created = now
      BY <1>6 DEF Filed
    <2>2. Kept(o) /\ tickets[o].settled <= now
      BY <1>2, <2>1 DEF Rows
    <2>3. \A u \in Tickets : tickets[u].origin # o
      BY <2>1 DEF RevengeIsDue, Unavenged
    <2>4. \A u \in Tickets : tickets'[u].origin = o => u = t
      <3> SUFFICES ASSUME NEW u \in Tickets, tickets'[u].origin = o, u # t
                   PROVE  FALSE
        OBVIOUS
      <3>1. Filed(u, p)
        BY <1>1, <2>3 DEF Same
      <3> QED
        BY <1>6, <3>1 DEF Filed, Open
    <2>5. now \in Nat /\ tickets[o].settled \in Nat
      BY <2>1 DEF TypeOK, Row
    <2> QED
      BY <2>1, <2>2, <2>4, <2>5 DEF Kept
  <1> QED
    BY <1>1, <1>5, <1>6

(* A paid ticket is settled, so that a move leaves it alone; and the only  *)
(* ticket a move can add to the paid ones is the open one of the player.   *)
LEMMA PaidIsKept ==
  ASSUME IInv, NEW p \in Players, Move(p)
  PROVE  /\ \A t \in Tickets : tickets[t].rewarded => Kept(t)
         /\ \A t \in Tickets : ~tickets[t].rewarded /\ tickets'[t].rewarded => Closed(t, p)
  <1>1. \A t \in Tickets : tickets[t].rewarded => ~Closed(t, p) /\ ~Filed(t, p)
    BY DEF IInv, Rows, Closed, Filed, Open
  <1>2. \A t \in Tickets : ~tickets[t].rewarded /\ tickets'[t].rewarded => ~Kept(t) /\ ~Filed(t, p)
    BY DEF Kept, Filed
  <1> QED
    BY <1>1, <1>2 DEF Move

LEMMA SamePaid ==
  ASSUME IInv, NEW p \in Players, Move(p), NEW q \in Players, NEW day \in Nat,
         PaidOn(q, day)' = PaidOn(q, day)
  PROVE  /\ \A t, u \in PaidOn(q, day)' : tickets'[t].defender = tickets'[u].defender => t = u
         /\ Cardinality(Social(PaidOn(q, day))') <= SocialQuota
  <1>1. \A t \in PaidOn(q, day) : Kept(t)
    BY PaidIsKept DEF PaidOn
  <1>2. Social(PaidOn(q, day))' = Social(PaidOn(q, day))
    BY <1>1 DEF Kept, Social
  <1> QED
    BY <1>1, <1>2 DEF IInv, Limits, Kept

LEMMA MoveLimits ==
  ASSUME IInv, TypeOK', NEW p \in Players, Move(p)
  PROVE  Limits'
  <1> SUFFICES ASSUME NEW q \in Players, NEW day \in Nat
               PROVE  /\ \A t, u \in PaidOn(q, day)' :
                           tickets'[t].defender = tickets'[u].defender => t = u
                      /\ Cardinality(Social(PaidOn(q, day))') <= SocialQuota
    BY DEF Limits
  <1>1. \A t \in PaidOn(q, day) : t \in PaidOn(q, day)'
    BY PaidIsKept DEF PaidOn, Kept
  <1>2. \A t \in PaidOn(q, day)' \ PaidOn(q, day) :
          Closed(t, p) /\ ~tickets[t].rewarded /\ tickets'[t].rewarded /\ q = p /\ day = Day[now]
    <2> SUFFICES ASSUME NEW t \in PaidOn(q, day)', t \notin PaidOn(q, day)
                 PROVE  Closed(t, p) /\ ~tickets[t].rewarded /\ tickets'[t].rewarded
                        /\ q = p /\ day = Day[now]
      OBVIOUS
    <2>1. t \in Tickets /\ tickets'[t].rewarded /\ tickets'[t].player = q
          /\ Day[tickets'[t].settled] = day
      BY DEF PaidOn
    <2>2. ~tickets[t].rewarded
      BY <2>1, PaidIsKept DEF Kept, PaidOn
    <2>3. Closed(t, p)
      BY <2>1, <2>2, PaidIsKept
    <2> QED
      BY <2>1, <2>2, <2>3 DEF Closed
  <1>3. CASE PaidOn(q, day)' \subseteq PaidOn(q, day)
    <2>1. PaidOn(q, day)' = PaidOn(q, day)
      BY <1>1, <1>3
    <2> QED
      BY <2>1, SamePaid
  <1>4. ASSUME NEW t \in PaidOn(q, day)', t \notin PaidOn(q, day)
        PROVE  /\ \A x, y \in PaidOn(q, day)' :
                    tickets'[x].defender = tickets'[y].defender => x = y
               /\ Cardinality(Social(PaidOn(q, day))') <= SocialQuota
    <2> DEFINE S == PaidOn(q, day)
    <2>1. t \in Tickets /\ Closed(t, p) /\ tickets'[t].rewarded /\ q = p /\ day = Day[now]
      BY <1>2, <1>4 DEF PaidOn
    <2>2. S' = S \cup {t}
      <3>1. ASSUME NEW u \in S', u \notin S PROVE u = t
        <4>1. u \in Tickets /\ Closed(u, p)
          BY <1>2, <3>1 DEF PaidOn
        <4> QED
          BY <2>1, <4>1 DEF Closed, IInv, OneBattle
      <3> QED
        BY <1>1, <1>4, <3>1
    <2>3. S = RewardedToday(p)
      BY <2>1 DEF RewardedToday, PaidOn
    <2>4. \A u \in S : Kept(u)
      BY PaidIsKept DEF PaidOn
    <2>5. Eligible(p, tickets[t].defender, tickets[t].source)
          /\ tickets'[t].defender = tickets[t].defender /\ tickets'[t].source = tickets[t].source
      BY <2>1 DEF Closed
    <2>6. \A x, y \in S : tickets[x].defender = tickets[y].defender => x = y
      BY DEF IInv, Limits
    <2>7. Cardinality(Social(S)) <= SocialQuota
      BY DEF IInv, Limits
    <2>8. \A x, y \in S' : tickets'[x].defender = tickets'[y].defender => x = y
      <3>1. \A x \in S : tickets'[x].defender = tickets[x].defender
                         /\ tickets[x].defender # tickets[t].defender
        BY <2>3, <2>4, <2>5 DEF Kept, Eligible
      <3> HIDE DEF S
      <3> QED
        BY <2>2, <2>5, <2>6, <3>1
    <2>9. Cardinality(Social(S)') <= SocialQuota
      <3>1. Social(S)' = {u \in S' : tickets'[u].source # "ranked"}
        BY DEF Social
      <3>2. IsFiniteSet(Social(S)) /\ Cardinality(Social(S)) \in Nat
        BY FS_Subset, FS_CardinalityType, RealmAssumption DEF Social, PaidOn
      <3>3. \A u \in S : tickets'[u].source = tickets[u].source
        BY <2>4 DEF Kept
      <3>4. CASE tickets[t].source = "ranked"
        <4>1. Social(S)' = Social(S)
          BY <2>2, <2>5, <3>1, <3>3, <3>4 DEF Social
        <4> QED
          BY <2>7, <4>1
      <3>5. CASE tickets[t].source # "ranked"
        <4>1. Social(S)' = Social(S) \cup {t}
          BY <2>2, <2>5, <3>1, <3>3, <3>5 DEF Social
        <4>2. Social(S) = {u \in RewardedToday(p) : tickets[u].source # "ranked"}
          BY <2>3 DEF Social
        <4>3. Cardinality(Social(S)) < SocialQuota
          BY <2>5, <3>5, <4>2 DEF Eligible
        <4>4. Cardinality(Social(S) \cup {t}) <= Cardinality(Social(S)) + 1
          BY <3>2, FS_AddElement
        <4>5. Cardinality(Social(S) \cup {t}) \in Nat /\ SocialQuota \in Nat
          BY <3>2, FS_AddElement, FS_CardinalityType, RealmAssumption
        <4> QED
          BY <3>2, <4>1, <4>3, <4>4, <4>5
      <3> QED
        BY <3>4, <3>5
    <2> QED
      BY <2>8, <2>9
  <1> QED
    BY <1>3, <1>4

(* The others' transactions find what they had read.                       *)
LEMMA MoveSteps ==
  ASSUME IInv, TypeOK', NEW p \in Players, Move(p)
  PROVE  Steps'
  <1> USE DEF IInv
  <1>1. \A q \in Players : txn'[q].at # "idle" => q # p /\ txn'[q] = txn[q]
    BY DEF Move, Idle
  <1>2. \A q \in Players : \A t \in Tickets :
          q # p /\ (tickets[t].player = q \/ tickets'[t].player = q) => Kept(t)
    <2> SUFFICES ASSUME NEW q \in Players, NEW t \in Tickets, q # p,
                        tickets[t].player = q \/ tickets'[t].player = q
                 PROVE  Kept(t)
      OBVIOUS
    <2>1. CASE Closed(t, p)
      BY <2>1 DEF Closed, Open
    <2>2. CASE Filed(t, p)
      <3>1. tickets[t] = NoRow /\ tickets'[t].player = p
        BY <2>2 DEF Filed, Rows
      <3>2. tickets[t].player = NoPlayer
        BY <3>1 DEF NoRow
      <3> QED
        BY <3>1, <3>2, RealmAssumption
    <2> QED
      BY <2>1, <2>2 DEF Move
  <1>3. \A t \in Tickets : tickets[t].state = "settled" => Kept(t)
    BY DEF Move, Closed, Filed, Open
  <1>4. ASSUME NEW q \in Players, txn'[q].at = "start" PROVE Starting(q)'
    <2>1. q # p /\ txn'[q] = txn[q] /\ Starting(q) /\ now' = now
      BY <1>1, <1>4 DEF Steps, Move
    <2>2. \A t \in Tickets : ~Live(t, q)'
      BY <1>2, <2>1 DEF Starting, Live, Open, Kept
    <2>3. ASSUME txn[q].source = "revenge"
          PROVE  LET o == txn[q].origin IN
                 /\ o \in Tickets /\ tickets'[o].state = "settled"
                 /\ tickets'[o].defender = q /\ tickets'[o].player = txn[q].defender
                 /\ Unavenged(q, o)'
      <3> DEFINE o == txn[q].origin
      <3>1. /\ o \in Tickets /\ tickets[o].state = "settled"
            /\ tickets[o].defender = q /\ tickets[o].player = txn[q].defender
            /\ Unavenged(q, o)
        BY <2>1, <2>3 DEF Starting
      <3>2. Kept(o)
        BY <1>3, <3>1
      <3>3. Unavenged(q, o)'
        BY <1>2, <2>1, <3>1 DEF Unavenged, Kept
      <3> QED
        BY <3>1, <3>2, <3>3 DEF Kept
    <2> QED
      BY <2>1, <2>2, <2>3 DEF Starting
  <1>5. ASSUME NEW q \in Players, txn'[q].at = "settle" PROVE Settling(q)'
    <2> DEFINE t == txn[q].ticket
    <2>1. q # p /\ txn'[q] = txn[q] /\ now' = now
      BY <1>1, <1>5 DEF Move
    <2>2. t \in Tickets /\ Open(t, q)
          /\ (txn[q].eligible => Eligible(q, tickets[t].defender, tickets[t].source))
      BY <2>1, <1>5 DEF Steps, Settling
    <2>3. Kept(t)
      BY <1>2, <2>1, <2>2 DEF Open
    <2>4. RewardedToday(q)' = RewardedToday(q)
      BY <1>2, <2>1 DEF RewardedToday, Kept
    <2>5. \A u \in RewardedToday(q) : Kept(u)
      BY <1>2, <2>1 DEF RewardedToday
    <2>6. Eligible(q, tickets[t].defender, tickets[t].source) =>
            Eligible(q, tickets[t].defender, tickets[t].source)'
      <3>1. {u \in RewardedToday(q)' : tickets'[u].source # "ranked"} =
              {u \in RewardedToday(q) : tickets[u].source # "ranked"}
        BY <2>4, <2>5 DEF Kept
      <3>2. \A u \in RewardedToday(q) : tickets'[u].defender = tickets[u].defender
        BY <2>5 DEF Kept
      <3>3. tickets'[t].defender = tickets[t].defender /\ tickets'[t].source = tickets[t].source
        BY <2>3 DEF Kept
      <3>4. t' = t
        BY <2>1
      <3> HIDE DEF t
      <3> QED
        BY <2>4, <3>1, <3>2, <3>3, <3>4 DEF Eligible
    <2> QED
      BY <2>1, <2>2, <2>3, <2>6 DEF Settling, Kept, Open
  <1> QED
    BY <1>4, <1>5 DEF Steps

-----------------------------------------------------------------------------
(* The transactions that write are moves.                                  *)

LEMMA SweepCloses ==
  ASSUME IInv, NEW p \in Players, NEW t \in Tickets, tickets'[t] = Swept(p)[t]
  PROVE  Kept(t) \/ (Closed(t, p) /\ ~Open(t, p)')
  <1>1. CASE ~Lapsed(t, p)
    BY <1>1, SweptRows DEF IInv, Kept
  <1>2. CASE Lapsed(t, p)
    <2>1. tickets'[t] = [tickets[t] EXCEPT !.state = "abandoned"] /\ tickets[t] \in Row
      BY <1>2, SweptRows DEF IInv, TypeOK
    <2>2. tickets[t].state = "active" /\ tickets[t].player = p /\ ~tickets[t].rewarded
      BY <1>2 DEF Lapsed, Open, IInv, Rows
    <2> QED
      BY <2>1, <2>2 DEF Closed, Open, Row
  <1> QED
    BY <1>1, <1>2

LEMMA HomeMoves ==
  ASSUME IInv, NEW p \in Players, Home(p) PROVE Move(p)
  BY SweepCloses DEF Home, Move

(* The filed ticket is the only open one, for no other was live.           *)
LEMMA FiledMoves ==
  ASSUME IInv, NEW p \in Players, NEW t \in Tickets, NEW row,
         \A u \in Tickets : ~Live(u, p),
         tickets[t].state = "none",
         tickets' = [Swept(p) EXCEPT ![t] = row],
         row.state = "active", row.player = p, row.created = now, row.settled = 0, ~row.rewarded,
         row.origin # NoTicket =>
           /\ row.origin \in Tickets /\ tickets[row.origin].state = "settled"
           /\ tickets[row.origin].defender = p /\ tickets[row.origin].player = row.defender
           /\ Unavenged(p, row.origin)
  PROVE  \A u \in Tickets : Kept(u) \/ Closed(u, p) \/ Filed(u, p)
  <1>1. tickets'[t] = row /\ \A u \in Tickets \ {t} : tickets'[u] = Swept(p)[u]
    BY SweptRows DEF IInv
  <1>2. \A u \in Tickets \ {t} : Kept(u) \/ (Closed(u, p) /\ ~Open(u, p)')
    BY <1>1, SweepCloses
  <1>3. \A u \in Tickets \ {t} : ~Open(u, p)'
    <2> SUFFICES ASSUME NEW u \in Tickets \ {t}, Open(u, p)'
                 PROVE  FALSE
      OBVIOUS
    <2>1. Kept(u) /\ Open(u, p)
      BY <1>2 DEF Kept, Open
    <2>2. Lapsed(u, p)
      <3>1. tickets[u].expires \in Nat /\ now \in Nat
        BY DEF IInv, TypeOK, Row
      <3> QED
        BY <2>1, <3>1 DEF Live, Lapsed
    <2>3. tickets'[u].state = "abandoned"
      <3>1. TypeOK /\ u \in Tickets
        BY DEF IInv
      <3>2. Swept(p)[u].state = "abandoned"
        BY <2>2, <3>1, SweptLapsed
      <3> QED
        BY <1>1, <3>2
    <2> QED
      BY <2>3 DEF Open
  <1>4. Filed(t, p)
    BY <1>1, <1>3 DEF Filed
  <1> QED
    BY <1>2, <1>4

LEMMA StartMoves ==
  ASSUME IInv, NEW p \in Players, NEW t \in Tickets, StartCommit(p, t) PROVE Move(p)
  <1> DEFINE row == [NoRow EXCEPT !.state = "active", !.player = p, !.defender = txn[p].defender,
                     !.source = txn[p].source, !.origin = txn[p].origin, !.created = now,
                     !.expires = now + Lifetime, !.eligible = txn[p].eligible]
  <1>1. /\ row.state = "active" /\ row.player = p /\ row.created = now /\ row.settled = 0
        /\ ~row.rewarded /\ row.origin = txn[p].origin /\ row.defender = txn[p].defender
    BY DEF NoRow
  <1>2. tickets[t].state = "none" /\ tickets' = [Swept(p) EXCEPT ![t] = row]
        /\ txn' = [txn EXCEPT ![p] = Idle] /\ now' = now /\ txn[p].at = "start"
    BY DEF StartCommit, End
  <1>3. Starting(p)
    BY <1>2 DEF IInv, Steps
  <1>4. row.origin # NoTicket =>
          /\ row.origin \in Tickets /\ tickets[row.origin].state = "settled"
          /\ tickets[row.origin].defender = p /\ tickets[row.origin].player = row.defender
          /\ Unavenged(p, row.origin)
    <2>1. txn[p].origin # NoTicket => txn[p].source = "revenge"
      BY <1>3 DEF Starting
    <2> HIDE DEF row
    <2> QED
      BY <1>1, <1>3, <2>1 DEF Starting
  <1>5. \A u \in Tickets : ~Live(u, p)
    BY <1>3 DEF Starting
  <1> HIDE DEF row
  <1>6. \A u \in Tickets : Kept(u) \/ Closed(u, p) \/ Filed(u, p)
    BY <1>1, <1>2, <1>4, <1>5, FiledMoves
  <1> QED
    BY <1>2, <1>6 DEF Move, IInv, TypeOK

LEMMA PracticeMoves ==
  ASSUME IInv, NEW p \in Players, NEW t \in Tickets, Practice(p, t) PROVE Move(p)
  <1> DEFINE row == [NoRow EXCEPT !.state = "active", !.player = p, !.created = now,
                                  !.expires = now + Lifetime]
  <1>1. /\ row.state = "active" /\ row.player = p /\ row.created = now /\ row.settled = 0
        /\ ~row.rewarded /\ row.origin = NoTicket
    BY DEF NoRow
  <1>2. tickets[t].state = "none" /\ tickets' = [Swept(p) EXCEPT ![t] = row]
        /\ txn' = txn /\ txn[p] = Idle /\ now' = now /\ \A u \in Tickets : ~Live(u, p)
    BY DEF Practice
  <1> HIDE DEF row
  <1>3. \A u \in Tickets : Kept(u) \/ Closed(u, p) \/ Filed(u, p)
    BY <1>1, <1>2, FiledMoves
  <1> QED
    BY <1>2, <1>3 DEF Move

LEMMA SettleMoves ==
  ASSUME IInv, NEW p \in Players, SettleCommit(p) PROVE Move(p)
  <1> DEFINE t == txn[p].ticket
  <1>1. t \in Tickets /\ Open(t, p)
        /\ (txn[p].eligible => Eligible(p, tickets[t].defender, tickets[t].source))
    BY DEF SettleCommit, IInv, Steps, Settling
  <1>2. tickets'[t] = [tickets[t] EXCEPT !.state = "settled", !.settled = now,
                                         !.rewarded = txn[p].eligible]
        /\ \A u \in Tickets \ {t} : Kept(u)
    BY <1>1 DEF SettleCommit, IInv, TypeOK, Kept
  <1>3. tickets[t] \in Row /\ tickets[t].player = p
    BY <1>1 DEF IInv, TypeOK, Open
  <1> HIDE DEF t
  <1>4. Closed(t, p)
    BY <1>1, <1>2, <1>3 DEF Closed, Row
  <1> QED
    BY <1>2, <1>4 DEF SettleCommit, End, Move, IInv, TypeOK

LEMMA SettlePracticeMoves ==
  ASSUME IInv, NEW p \in Players, NEW t \in Tickets, SettlePractice(p, t) PROVE Move(p)
  <1>1. Open(t, p) /\ tickets[t] \in Row /\ ~tickets[t].rewarded
    BY DEF SettlePractice, Live, Open, IInv, Rows, TypeOK
  <1>2. tickets'[t] = [tickets[t] EXCEPT !.state = "settled", !.settled = now]
        /\ \A u \in Tickets \ {t} : Kept(u)
    BY DEF SettlePractice, IInv, TypeOK, Kept
  <1>3. Closed(t, p)
    BY <1>1, <1>2 DEF Closed, Open, Row
  <1> QED
    BY <1>2, <1>3 DEF SettlePractice, Move

LEMMA AbandonMoves ==
  ASSUME IInv, NEW p \in Players, NEW t \in Tickets, Abandon(p, t) PROVE Move(p)
  <1>1. Open(t, p) /\ tickets[t] \in Row /\ ~tickets[t].rewarded
    BY DEF Abandon, Open, IInv, Rows, TypeOK
  <1>2. tickets'[t] = [tickets[t] EXCEPT !.state = "abandoned"]
        /\ \A u \in Tickets \ {t} : Kept(u)
    BY DEF Abandon, IInv, TypeOK, Kept
  <1>3. Closed(t, p)
    BY <1>1, <1>2 DEF Closed, Open, Row
  <1> QED
    BY <1>2, <1>3 DEF Abandon, Move

-----------------------------------------------------------------------------
(* The other steps leave the table as it is.                               *)

LEMMA SameTable ==
  ASSUME IInv, tickets' = tickets, now' \in Nat, now <= now'
  PROVE  Rows' /\ OneBattle' /\ RevengeIsDue' /\ Limits'
  <1>1. Rows'
    <2>1. \A t \in Tickets : tickets[t].settled \in Nat /\ tickets[t].settled <= now /\ now \in Nat
      BY DEF IInv, Rows, TypeOK, Row
    <2>2. \A t \in Tickets : tickets[t].settled <= now'
      BY <2>1
    <2> QED
      BY <2>2 DEF IInv, Rows
  <1>2. OneBattle' /\ RevengeIsDue'
    BY DEF IInv, OneBattle, RevengeIsDue, Open
  <1>3. Limits'
    <2>1. \A p \in Players, day \in Nat : PaidOn(p, day)' = PaidOn(p, day)
      BY DEF PaidOn
    <2>2. \A p \in Players, day \in Nat : Social(PaidOn(p, day))' = Social(PaidOn(p, day))
      BY <2>1 DEF Social
    <2> QED
      BY <2>1, <2>2 DEF IInv, Limits
  <1> QED
    BY <1>1, <1>2, <1>3

LEMMA StartCheckSteps ==
  ASSUME IInv, NEW p \in Players, NEW source \in Sources, NEW d \in Players,
         NEW o \in Tickets \cup {NoTicket}, StartCheck(p, source, d, o), source # "practice"
  PROVE  Steps'
  <1>1. tickets' = tickets /\ now' = now /\ \A q \in Players \ {p} : txn'[q] = txn[q]
    BY DEF StartCheck, Begin, IInv, TypeOK
  <1>2. txn'[p] = [Idle EXCEPT !.at = "start", !.defender = d, !.source = source, !.origin = o,
                               !.eligible = Eligible(p, d, source)]
    BY DEF StartCheck, Begin, IInv, TypeOK
  <1>3. /\ txn'[p].at = "start" /\ txn'[p].defender = d
        /\ txn'[p].source = source /\ txn'[p].origin = o
    BY <1>2 DEF Idle
  <1>4. \A t \in Tickets : ~Live(t, p)'
    BY <1>1 DEF StartCheck, Live, Open
  <1>5. source # "revenge" => o = NoTicket
    BY DEF StartCheck, Sources
  <1>6. source = "revenge" =>
          /\ o \in Tickets /\ tickets[o].state = "settled"
          /\ tickets[o].defender = p /\ tickets[o].player = d /\ Unavenged(p, o)
    BY DEF StartCheck, Due
  <1>7. Starting(p)'
    BY <1>1, <1>3, <1>4, <1>5, <1>6 DEF Starting, Unavenged
  <1>8. \A q \in Players \ {p} :
          (Starting(q)' <=> Starting(q)) /\ (Settling(q)' <=> Settling(q))
    BY <1>1 DEF Starting, Settling, Live, Open, Unavenged, Eligible, RewardedToday
  <1> QED
    BY <1>1, <1>3, <1>7, <1>8 DEF IInv, Steps

LEMMA SettleCheckSteps ==
  ASSUME IInv, NEW p \in Players, NEW t \in Tickets, SettleCheck(p, t)
  PROVE  Steps'
  <1>1. tickets' = tickets /\ now' = now /\ \A q \in Players \ {p} : txn'[q] = txn[q]
    BY DEF SettleCheck, Begin, IInv, TypeOK
  <1>2. txn'[p] = [Idle EXCEPT !.at = "settle", !.ticket = t,
                     !.eligible = tickets[t].eligible
                                  /\ Eligible(p, tickets[t].defender, tickets[t].source)]
    BY DEF SettleCheck, Begin, IInv, TypeOK
  <1>3. /\ txn'[p].at = "settle" /\ txn'[p].ticket = t
        /\ txn'[p].eligible => Eligible(p, tickets[t].defender, tickets[t].source)
    BY <1>2 DEF Idle
  <1>4. Open(t, p)
    BY DEF SettleCheck, Live
  <1>5. Settling(p)'
    BY <1>1, <1>3, <1>4 DEF Settling, Open, Eligible, RewardedToday
  <1>6. \A q \in Players \ {p} :
          (Starting(q)' <=> Starting(q)) /\ (Settling(q)' <=> Settling(q))
    BY <1>1 DEF Starting, Settling, Live, Open, Unavenged, Eligible, RewardedToday
  <1> QED
    BY <1>1, <1>3, <1>5, <1>6 DEF IInv, Steps

(* A new day has no rewards yet, so what was eligible stays eligible.      *)
LEMMA EligibleTomorrow ==
  ASSUME IInv, Tick, NEW p \in Players, NEW d, NEW source, Eligible(p, d, source)
  PROVE  Eligible(p, d, source)'
  <1>1. tickets' = tickets /\ now' = now + 1 /\ now \in 0..MaxTime /\ now + 1 \in 0..MaxTime
    BY RealmAssumption DEF Tick, IInv, TypeOK
  <1>2. CASE Day[now + 1] = Day[now]
    <2>1. RewardedToday(p)' = RewardedToday(p)
      BY <1>1, <1>2 DEF RewardedToday
    <2> QED
      BY <1>1, <2>1 DEF Eligible
  <1>3. CASE Day[now + 1] # Day[now]
    <2>1. \A t \in Tickets : tickets[t].settled \in 0..MaxTime /\ tickets[t].settled <= now
      BY DEF IInv, TypeOK, Row, Rows
    <2>2. \A t \in Tickets : Day[tickets[t].settled] <= Day[now]
      BY <1>1, <2>1, RealmAssumption
    <2>3. Day[now] <= Day[now + 1] /\ Day[now] \in Nat /\ Day[now + 1] \in Nat
      BY <1>1, RealmAssumption
    <2>4. \A t \in Tickets : Day[tickets[t].settled] \in Nat
      BY <2>1, RealmAssumption
    <2>5. \A t \in Tickets : Day[tickets[t].settled] # Day[now + 1]
      BY <1>3, <2>2, <2>3, <2>4
    <2>6. RewardedToday(p)' = {}
      BY <1>1, <2>5 DEF RewardedToday
    <2>7. {t \in RewardedToday(p)' : tickets'[t].source # "ranked"} = {}
      BY <2>6
    <2>8. source # "ranked" => SocialQuota > 0
      <3>1. IsFiniteSet({t \in RewardedToday(p) : tickets[t].source # "ranked"})
        BY FS_Subset, RealmAssumption DEF RewardedToday
      <3>2. Cardinality({t \in RewardedToday(p) : tickets[t].source # "ranked"}) \in Nat
        BY <3>1, FS_CardinalityType
      <3>3. SocialQuota \in Nat
        BY RealmAssumption
      <3> QED
        BY <3>2, <3>3 DEF Eligible
    <2> QED
      BY <2>6, <2>7, <2>8, FS_EmptySet DEF Eligible
  <1> QED
    BY <1>2, <1>3

LEMMA TickSteps == IInv /\ Tick => Steps'
  <1> SUFFICES ASSUME IInv, Tick PROVE Steps'
    OBVIOUS
  <1>1. tickets' = tickets /\ txn' = txn /\ now' = now + 1 /\ now \in Nat
    BY DEF Tick, IInv, TypeOK
  <1>2. ASSUME NEW p \in Players, Starting(p) PROVE Starting(p)'
    <2>1. \A t \in Tickets : ~Live(t, p)'
      <3>1. \A t \in Tickets : tickets[t].expires \in Nat
        BY DEF IInv, TypeOK, Row
      <3> QED
        BY <1>1, <1>2, <3>1 DEF Starting, Live, Open
    <2> QED
      BY <1>1, <1>2, <2>1 DEF Starting, Unavenged
  <1>3. ASSUME NEW p \in Players, Settling(p) PROVE Settling(p)'
    <2>1. ASSUME NEW d, NEW source, Eligible(p, d, source) PROVE Eligible(p, d, source)'
      BY <2>1, EligibleTomorrow
    <2>2. txn'[p].ticket = txn[p].ticket
      BY <1>1
    <2> QED
      BY <1>1, <1>3, <2>1, <2>2 DEF Settling, Open
  <1> QED
    BY <1>1, <1>2, <1>3 DEF IInv, Steps

-----------------------------------------------------------------------------
LEMMA MoveInv ==
  ASSUME IInv, TypeOK', NEW p \in Players, Move(p) PROVE IInv'
  BY MoveRows, MoveOneBattle, MoveRevenge, MoveLimits, MoveSteps DEF IInv

LEMMA NextInv == IInv /\ [Next]_vars => IInv'
  <1> SUFFICES ASSUME IInv, [Next]_vars PROVE IInv'
    OBVIOUS
  <1>t. TypeOK'
    BY TypeStep
  <1>n. now \in Nat /\ now' \in Nat
    BY <1>t DEF IInv, TypeOK
  <1>1. CASE UNCHANGED vars
    <2>1. tickets' = tickets /\ txn' = txn /\ now' = now
      BY <1>1 DEF vars
    <2>2. Steps'
      BY <2>1 DEF IInv, Steps, Starting, Settling, Live, Open, Unavenged, Eligible, RewardedToday
    <2>3. Rows' /\ OneBattle' /\ RevengeIsDue' /\ Limits'
      BY <1>n, <2>1, SameTable
    <2> QED
      BY <1>t, <2>2, <2>3 DEF IInv
  <1>2. CASE Tick
    <2>1. tickets' = tickets /\ now <= now'
      BY <1>n, <1>2 DEF Tick
    <2>2. Rows' /\ OneBattle' /\ RevengeIsDue' /\ Limits'
      BY <1>n, <2>1, SameTable
    <2> QED
      BY <1>t, <1>2, <2>2, TickSteps DEF IInv
  <1>3. ASSUME NEW p \in Players, Invite(p) \/ Rollback(p) PROVE IInv'
    <2>1. tickets' = tickets /\ now' = now /\ now <= now'
      BY <1>n, <1>3 DEF Invite, Rollback
    <2>2. \A q \in Players : txn'[q].at = "idle" \/ txn'[q] = txn[q]
      BY <1>3 DEF Invite, Rollback, End, IInv, TypeOK, Idle
    <2>3. Steps'
      <3>1. \A q \in Players : txn'[q] = txn[q] =>
              (Starting(q)' <=> Starting(q)) /\ (Settling(q)' <=> Settling(q))
        BY <2>1 DEF Starting, Settling, Live, Open, Unavenged, Eligible, RewardedToday
      <3> QED
        BY <2>2, <3>1 DEF IInv, Steps
    <2>4. Rows' /\ OneBattle' /\ RevengeIsDue' /\ Limits'
      BY <1>n, <2>1, SameTable
    <2> QED
      BY <1>t, <2>3, <2>4 DEF IInv
  <1>4. ASSUME NEW p \in Players, NEW source \in Sources \ {"practice"}, NEW d \in Players,
               NEW o \in Tickets \cup {NoTicket}, StartCheck(p, source, d, o)
        PROVE  IInv'
    <2>1. tickets' = tickets /\ now <= now'
      BY <1>n, <1>4 DEF StartCheck
    <2>2. Rows' /\ OneBattle' /\ RevengeIsDue' /\ Limits'
      BY <1>n, <2>1, SameTable
    <2> QED
      BY <1>t, <1>4, <2>2, StartCheckSteps DEF IInv
  <1>5. ASSUME NEW p \in Players, NEW t \in Tickets, SettleCheck(p, t) PROVE IInv'
    <2>1. tickets' = tickets /\ now <= now'
      BY <1>n, <1>5 DEF SettleCheck
    <2>2. Rows' /\ OneBattle' /\ RevengeIsDue' /\ Limits'
      BY <1>n, <2>1, SameTable
    <2> QED
      BY <1>t, <1>5, <2>2, SettleCheckSteps DEF IInv
  <1>6. ASSUME NEW p \in Players, Home(p) \/ SettleCommit(p) PROVE IInv'
    BY <1>t, <1>6, HomeMoves, SettleMoves, MoveInv
  <1>7. ASSUME NEW p \in Players, NEW t \in Tickets,
               StartCommit(p, t) \/ Practice(p, t) \/ SettlePractice(p, t) \/ Abandon(p, t)
        PROVE  IInv'
    BY <1>t, <1>7, StartMoves, PracticeMoves, SettlePracticeMoves, AbandonMoves, MoveInv
  <1> QED
    BY <1>1, <1>2, <1>3, <1>4, <1>5, <1>6, <1>7 DEF Next

(* Every state of the specification satisfies the inductive invariant.     *)
THEOREM Invariance == Spec => []IInv
  BY InitInv, NextInv, PTL DEF Spec

(* Every variable keeps its type: trophies stay natural numbers.           *)
THEOREM TypeCorrect == Spec => []TypeOK
  <1>1. IInv => TypeOK
    BY DEF IInv
  <1> QED
    BY <1>1, Invariance, PTL

(* A player has one open offline battle, practice or attack.               *)
THEOREM OneBattleCorrect == Spec => []OneBattle
  <1>1. IInv => OneBattle
    BY DEF IInv
  <1> QED
    BY <1>1, Invariance, PTL

(* An attack is avenged once at most, by its defender on its attacker.     *)
THEOREM RevengeCorrect == Spec => []RevengeIsDue
  <1>1. IInv => RevengeIsDue
    BY DEF IInv
  <1> QED
    BY <1>1, Invariance, PTL

(* The day's limits hold for every calendar in which days follow each      *)
(* other, although eligibility is looked up before the settlement's time.  *)
THEOREM RewardsCorrect == Spec => []RewardsWithinLimits
  <1>1. IInv => RewardsWithinLimits
    <2> SUFFICES ASSUME IInv, NEW p \in Players, NEW t \in Tickets
                 PROVE  LET day == Day[tickets[t].settled]
                            paid == PaidOn(p, day) IN
                        /\ \A x, y \in paid : tickets[x].defender = tickets[y].defender => x = y
                        /\ Cardinality({x \in paid : tickets[x].source # "ranked"}) <= SocialQuota
      BY DEF RewardsWithinLimits, PaidOn
    <2>1. Day[tickets[t].settled] \in Nat
      BY RealmAssumption DEF IInv, TypeOK, Row
    <2> QED
      BY <2>1 DEF IInv, Limits, Social
  <1> QED
    BY <1>1, Invariance, PTL

LEMMA NextMoves ==
  ASSUME IInv, [Next]_vars
  PROVE  tickets' = tickets \/ \E p \in Players : Move(p)
  BY ZenonT(40), HomeMoves, SettleMoves, StartMoves, PracticeMoves, SettlePracticeMoves, AbandonMoves
     DEF Next, vars, Tick, Invite, Rollback, StartCheck, SettleCheck

(* A resolved ticket is never touched again.                               *)
LEMMA ResolvedStays ==
  ASSUME IInv, [Next]_vars, NEW t \in Tickets, tickets[t].state \in {"settled", "abandoned"}
  PROVE  tickets'[t] = tickets[t]
  <1>1. \A p \in Players : ~Closed(t, p) /\ ~Filed(t, p)
    BY DEF Closed, Filed, Open
  <1> QED
    BY <1>1, NextMoves DEF Move, Kept

LEMMA FinedIsRanked ==
  ASSUME IInv, NEW p \in Players, Fined(p) # trophies[p]
  PROVE  \E t \in Tickets : Lapsed(t, p) /\ tickets[t].source = "ranked"
  BY DEF Fined, Penalty

(* Only the end of a ranked battle of the player moves the trophies.       *)
LEMMA TrophiesMoveOnce ==
  ASSUME IInv, Next, NEW p \in Players, trophies'[p] # trophies[p]
  PROVE  \E t \in Tickets : /\ Open(t, p) /\ tickets[t].source = "ranked"
                            /\ tickets'[t].state # "active"
  <1> DEFINE Reason == \E t \in Tickets : /\ Open(t, p) /\ tickets[t].source = "ranked"
                                          /\ tickets'[t].state # "active"
  <1>1. trophies \in [Players -> Nat] /\ tickets \in [Tickets -> Row]
    BY DEF IInv, TypeOK
  <1>2. ASSUME NEW q \in Players, trophies' = [trophies EXCEPT ![q] = Fined(q)],
               \A t \in Tickets : Lapsed(t, q) => tickets'[t] = Swept(q)[t]
        PROVE  Reason
    <2>1. q = p /\ Fined(p) # trophies[p]
      BY <1>1, <1>2
    <2>2. PICK t \in Tickets : Lapsed(t, p) /\ tickets[t].source = "ranked"
      BY <2>1, FinedIsRanked
    <2>3. TypeOK
      BY DEF IInv
    <2>4. tickets'[t].state = "abandoned"
      BY <1>2, <2>1, <2>2, <2>3, SweptLapsed
    <2> QED
      BY <2>2, <2>4 DEF Lapsed
  <1>3. ASSUME NEW q \in Players, Home(q) PROVE Reason
    BY <1>2, <1>3 DEF Home
  <1>4. ASSUME NEW q \in Players, NEW u \in Tickets, StartCommit(q, u) \/ Practice(q, u)
        PROVE  Reason
    <2>1. trophies' = [trophies EXCEPT ![q] = Fined(q)] /\ tickets[u].state = "none"
      BY <1>4 DEF StartCommit, Practice
    <2>2. \A t \in Tickets : Lapsed(t, q) => tickets'[t] = Swept(q)[t]
      <3>1. \A t \in Tickets : Lapsed(t, q) => t # u
        BY <2>1 DEF Lapsed, Open
      <3>2. Swept(q) \in [Tickets -> Row]
        BY SweptRows DEF IInv
      <3> QED
        BY <1>4, <3>1, <3>2 DEF StartCommit, Practice
    <2> QED
      BY <1>2, <2>1, <2>2
  <1>5. ASSUME NEW q \in Players, SettleCommit(q) PROVE Reason
    <2>1. q = p /\ tickets[txn[p].ticket].source = "ranked"
      BY <1>1, <1>5 DEF SettleCommit
    <2>2. txn[p].ticket \in Tickets /\ Open(txn[p].ticket, p)
      BY <1>5, <2>1 DEF SettleCommit, IInv, Steps, Settling
    <2>3. Move(p)
      BY <1>5, <2>1, SettleMoves
    <2>4. tickets'[txn[p].ticket].state = "settled"
      BY <1>1, <1>5, <2>1, <2>2 DEF SettleCommit, Row
    <2> QED
      BY <2>1, <2>2, <2>4
  <1>6. ASSUME NEW q \in Players, NEW t \in Tickets, Abandon(q, t) PROVE Reason
    <2>1. q = p /\ Charged(p, Penalty(t)) # trophies[p]
      BY <1>1, <1>6 DEF Abandon
    <2>2. tickets[t].source = "ranked"
      BY <1>1, <2>1 DEF Charged, Penalty
    <2>3. tickets'[t].state = "abandoned"
      BY <1>1, <1>6 DEF Abandon, Row
    <2> QED
      BY <1>6, <2>1, <2>2, <2>3 DEF Abandon
  <1> QED
    BY ZenonT(40), <1>3, <1>4, <1>5, <1>6
       DEF Next, Tick, Invite, Rollback, StartCheck, SettleCheck, SettlePractice

(* A resolved ticket is settled, paid and charged once, and only the end   *)
(* of a ranked battle of the player moves the trophies.                    *)
THEOREM ResolvedCorrect == Spec => ResolvedForGood
  <1> DEFINE Kind(t) == tickets[t].state \in {"settled", "abandoned"} => tickets'[t] = tickets[t]
             Reason(p) == \E t \in Tickets : /\ Open(t, p) /\ tickets[t].source = "ranked"
                                             /\ tickets'[t].state # "active"
  <1>1. ASSUME IInv, [Next]_vars
        PROVE  [/\ \A t \in Tickets : Kind(t)
                /\ \A p \in Players : trophies'[p] # trophies[p] => Reason(p)]_vars
    <2>1. \A t \in Tickets : Kind(t)
      BY <1>1, ResolvedStays
    <2>2. Next => \A p \in Players : trophies'[p] # trophies[p] => Reason(p)
      BY <1>1, TrophiesMoveOnce
    <2> QED
      BY <1>1, <2>1, <2>2
  <1> QED
    BY <1>1, Invariance, PTL DEF Spec, ResolvedForGood
=============================================================================
