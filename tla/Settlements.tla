------------------------------ MODULE Settlements ------------------------------
(***************************************************************************)
(* Paying for matches and upgrades: store.go, with the two realm           *)
(* transactions that write a career (realm_store.go).                      *)
(*                                                                         *)
(* Every operation is one database transaction of the same shape: look for *)
(* a stored result, lock the careers it changes, look again, write the     *)
(* careers, the ledger, the daily progress and the stored result, commit.  *)
(* A worker is a request being served; the same id may be asked for again, *)
(* by another worker or after its answer was lost.  A transaction is split *)
(* at every row lock; what it writes shows at its commit.                  *)
(*                                                                         *)
(*   match    SettleMatch, SettleMatchVerified: one player                 *)
(*   team     SettleMatch2v2: all players of a team match                  *)
(*   attack   SettlePvpAttack: the attacker, names the defender's row      *)
(*   upgrade  PurchaseUpgrade                                              *)
(*   raid     StartRealmAttack: a ticket that names the defender's row     *)
(*   realm    SettleRealmAttack                                            *)
(***************************************************************************)
EXTENDS Integers, Sequences, FiniteSets

CONSTANTS
  Players, Ids, Payees, Amount, InitialCoins,   \* see Payments
  Kind,             \* what an id stands for
  Defender,         \* whom an attack or a raid names
  Slot,             \* the players' slots in a team match
  DailyTarget,      \* matches that count for the daily mission
  Workers, NoId,
  MaxAborts         \* bound of the model only

Kinds == {"match", "team", "attack", "upgrade", "raid", "realm"}
Names(id) == Kind[id] \in {"attack", "raid"}
Advances(id) == Kind[id] \in {"match", "team", "attack", "realm"}

ASSUME SettlementAssumption ==
  /\ Players \subseteq Nat /\ IsFiniteSet(Players)
  /\ Payees \in [Ids -> SUBSET Players]
  /\ Amount \in [Ids -> Int]
  /\ InitialCoins \in Nat /\ DailyTarget \in Nat \ {0}
  /\ Kind \in [Ids -> Kinds]
  /\ Defender \in [Ids -> Players]
  /\ \A id \in Ids :
       Kind[id] # "team" => \E p \in Players : Payees[id] = {p} /\ (Names(id) => Defender[id] # p)
  /\ NoId \notin Ids
  /\ MaxAborts \in Nat

VARIABLES
  coins,     \* players.coins
  ledger,    \* economy_ledger, by player, in the order of insertion
  progress,  \* player_daily_progress.matches_played
  stored,    \* ids with a stored result
  work,      \* what each worker serves, which careers it has locked and read
  aborts

vars == <<coins, ledger, progress, stored, work, aborts>>

Idle == [id |-> NoId, held |-> {}, seen |-> [p \in Players |-> 0]]

Init ==
  /\ coins = [p \in Players |-> InitialCoins]
  /\ ledger = [p \in Players |-> <<>>]
  /\ progress = [p \in Players |-> 0]
  /\ stored = {}
  /\ work = [w \in Workers |-> Idle]
  /\ aborts = 0

-----------------------------------------------------------------------------
(* Row locks.  A transaction waits for one row at a time: the careers it   *)
(* changes in the order of ORDER BY id, then, if it inserts a row that     *)
(* refers to another player, that player's.                                *)

ForUpdate(id) == "update"                                          \* mutant
Mode(id) == IF Kind[id] \in {"raid", "realm"} THEN "no key update" ELSE "update"

NeverExcludes(held, wanted) == FALSE                                \* mutant
Excludes(held, wanted) == {held, wanted} # {"no key update", "key share"}

BySlot(id, p, q) == Slot[id][p] < Slot[id][q]                       \* mutant
Before(id, p, q) == p < q

Left(w) == Payees[work[w].id] \ work[w].held

Wants(w, p) ==
  LET id == work[w].id IN
  /\ id # NoId
  /\ \/ p \in Left(w) /\ \A q \in Left(w) \ {p} : Before(id, p, q)
     \/ Left(w) = {} /\ Names(id) /\ id \notin stored /\ p = Defender[id]

Wanted(w) == IF Left(w) # {} THEN Mode(work[w].id) ELSE "key share"

Blocked(w, v) ==
  /\ v # w
  /\ \E p \in work[v].held : Wants(w, p) /\ Excludes(Mode(work[v].id), Wanted(w))

Leave(w) == work' = [work EXCEPT ![w] = Idle]

-----------------------------------------------------------------------------
(* The transactions.                                                       *)

(* The realm's transactions look for a stored result only under the lock.  *)
Begin(w, id) ==
  /\ work[w] = Idle
  /\ Mode(id) = "update" => id \notin stored
  /\ work' = [work EXCEPT ![w].id = id]
  /\ UNCHANGED <<coins, ledger, progress, stored, aborts>>

LockCareer(w) ==
  /\ work[w].id # NoId
  /\ \A v \in Workers : ~Blocked(w, v)
  /\ \E p \in Left(w) :
       /\ Wants(w, p)
       /\ work' = [work EXCEPT ![w].held = @ \cup {p}, ![w].seen[p] = coins[p]]
  /\ UNCHANGED <<coins, ledger, progress, stored, aborts>>

OneIdPerMatch(id, p) == <<id, 0>>                                   \* mutant
LedgerId(id, p) == IF Kind[id] = "team" THEN <<id, p>> ELSE <<id, 0>>

(* ON CONFLICT (id) DO NOTHING: an id that is there already, or that an    *)
(* earlier participant of this transaction has just inserted, is dropped.  *)
Dropped(id, p) ==
  \/ \E q \in Players : \E k \in DOMAIN ledger[q] : ledger[q][k].id = LedgerId(id, p)
  \/ \E q \in Payees[id] : q < p /\ LedgerId(id, q) = LedgerId(id, p)

Again(id) == FALSE                                                  \* mutant
Settled(id) == id \in stored

Uncapped(n) == n                                                    \* mutant
Capped(n) == IF n > DailyTarget THEN DailyTarget ELSE n

After(w, p) == work[w].seen[p] + Amount[work[w].id]

(* An upgrade is refused when the balance does not cover its price.        *)
Affordable(w) == \A p \in Payees[work[w].id] : After(w, p) >= 0

Entry(w, p) ==
  [id |-> LedgerId(work[w].id, p), previous |-> work[w].seen[p], resulting |-> After(w, p)]

Commit(w) ==
  LET id == work[w].id IN
  /\ id # NoId /\ Left(w) = {}
  /\ \A v \in Workers : ~Blocked(w, v)
  /\ IF ~Settled(id) /\ Affordable(w)
       THEN /\ coins' = [p \in Players |-> IF p \in Payees[id] THEN After(w, p) ELSE coins[p]]
            /\ ledger' = [p \in Players |->
                 IF p \in Payees[id] /\ Amount[id] # 0 /\ ~Dropped(id, p)
                   THEN Append(ledger[p], Entry(w, p)) ELSE ledger[p]]
            /\ progress' = [p \in Players |->
                 IF p \in Payees[id] /\ Advances(id)
                   THEN Capped(progress[p] + 1) ELSE progress[p]]
            /\ stored' = stored \cup {id}
       ELSE UNCHANGED <<coins, ledger, progress, stored>>
  /\ Leave(w)
  /\ UNCHANGED aborts

(* A request is cancelled or its connection lost: the transaction rolls    *)
(* back.                                                                   *)
Abort(w) ==
  /\ work[w] # Idle /\ aborts < MaxAborts
  /\ aborts' = aborts + 1
  /\ Leave(w)
  /\ UNCHANGED <<coins, ledger, progress, stored>>

(* Postgres ends a deadlock by failing one of the transactions in it.      *)
Deadlocked(S) == S # {} /\ \A w \in S : \E v \in S : Blocked(w, v)

Victim(w) ==
  /\ \E S \in SUBSET Workers : w \in S /\ Deadlocked(S)
  /\ Leave(w)
  /\ UNCHANGED <<coins, ledger, progress, stored, aborts>>

Next ==
  \E w \in Workers :
    \/ \E id \in Ids : Begin(w, id)
    \/ LockCareer(w) \/ Commit(w) \/ Abort(w) \/ Victim(w)

Spec == Init /\ [][Next]_vars

-----------------------------------------------------------------------------
(* Properties.                                                             *)

LedgerRow == [id : Ids \X (Players \cup {0}), previous : Nat, resulting : Nat]
Request == [id : Ids \cup {NoId}, held : SUBSET Players, seen : [Players -> Nat]]

(* No balance is negative and no daily count above its cap.                *)
TypeOK ==
  /\ coins \in [Players -> Nat]
  /\ ledger \in [Players -> Seq(LedgerRow)]
  /\ progress \in [Players -> 0..DailyTarget]
  /\ stored \in SUBSET Ids
  /\ work \in [Workers -> Request]
  /\ aborts \in Nat

(* Every id pays all of its players at once, and once: no retry pays again *)
(* and no transaction undoes what another paid.                            *)
P == INSTANCE Payments WITH paid <- stored
PaymentsSpec == P!Spec

(* A player's ledger explains the balance: no entry is missing, although   *)
(* entries whose id exists already are dropped without an error.           *)
LedgerExplainsBalance ==
  \A p \in Players :
    LET entries == ledger[p] IN
    /\ \A k \in DOMAIN entries :
         entries[k].previous = IF k = 1 THEN InitialCoins ELSE entries[k - 1].resulting
    /\ coins[p] = IF entries = <<>> THEN InitialCoins ELSE entries[Len(entries)].resulting

(* The daily mission counts every settled match of the player once.        *)
ProgressCounts ==
  \A p \in Players :
    progress[p] = Capped(Cardinality({id \in stored : Advances(id) /\ p \in Payees[id]}))

(* "Concurrent matches sharing participants can never deadlock"            *)
(* (store.go:452).                                                         *)
NoDeadlock == \A S \in SUBSET Workers : ~Deadlocked(S)

(* ORDER BY id and the realm's weaker lock leave one way to a deadlock: a  *)
(* transaction that has its own career waits to name a defender, and an    *)
(* attack or a team match, which lock FOR UPDATE, is in the circle with    *)
(* it.  Team matches alone, or raids alone, never block one another.       *)
DeadlockNeedsName ==
  \A S \in SUBSET Workers :
    Deadlocked(S) =>
      /\ \E w \in S : Left(w) = {} /\ Names(work[w].id)
      /\ \E v \in S : Kind[work[v].id] \in {"attack", "team"}
=============================================================================
