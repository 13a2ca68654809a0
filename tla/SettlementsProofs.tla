--------------------------- MODULE SettlementsProofs ---------------------------
(***************************************************************************)
(* Proofs about Settlements, for any players, requests and workers.        *)
(* Locked says what the row locks achieve: a career is held by one worker, *)
(* which has read the balance it will write.  Ordered says that a team     *)
(* match holds its lowest careers.  Entered ties the ledger's ids to the   *)
(* stored results, so that no insertion is dropped.                        *)
(***************************************************************************)
EXTENDS Settlements, SetSums, FiniteSetTheorems, WellFoundedInduction, TLAPS

Locked ==
  /\ \A w \in Workers : work[w].id = NoId => work[w].held = {}
  /\ \A w \in Workers : work[w].id # NoId => work[w].held \subseteq Payees[work[w].id]
  /\ \A v, w \in Workers : v # w => work[v].held \cap work[w].held = {}
  /\ \A w \in Workers : \A p \in work[w].held : work[w].seen[p] = coins[p]

Ordered ==
  \A w \in Workers : work[w].id # NoId =>
    \A p \in work[w].held : \A q \in Left(w) : p < q

Entered ==
  \A p \in Players : \A k \in DOMAIN ledger[p] : ledger[p][k].id[1] \in stored

IInv == TypeOK /\ Locked /\ Ordered /\ Entered /\ LedgerExplainsBalance

-----------------------------------------------------------------------------
(* What a career's lock means when it is granted and when it is used.      *)

LEMMA IdleTyped == Idle \in Request /\ Idle.id = NoId /\ Idle.held = {}
  BY DEF Idle, Request

LEMMA WaitsForOne ==
  ASSUME TypeOK, NEW w \in Workers, NEW p \in Left(w), Wants(w, p)
  PROVE  \A q \in Left(w) \ {p} : p < q
  BY DEF Wants, Before

(* A granted career is held by nobody else.                                *)
LEMMA GrantedIsFree ==
  ASSUME TypeOK, Locked, NEW w \in Workers, NEW v \in Workers, v # w, ~Blocked(w, v),
         NEW p \in Left(w), Wants(w, p)
  PROVE  p \notin work[v].held
  <1> SUFFICES ASSUME p \in work[v].held PROVE FALSE
    OBVIOUS
  <1>1. Wanted(w) = Mode(work[w].id) /\ Wanted(w) # "key share"
    BY DEF Wanted, Mode
  <1>2. Mode(work[v].id) # "key share"
    BY DEF Mode
  <1>3. Excludes(Mode(work[v].id), Wanted(w))
    BY <1>1, <1>2 DEF Excludes
  <1> QED
    BY <1>3 DEF Blocked

(* At its commit a worker holds every career it writes, and has read it.   *)
LEMMA CommitHolds ==
  ASSUME TypeOK, Locked, NEW w \in Workers, Commit(w)
  PROVE  /\ work[w].id \in Ids
         /\ work[w].held = Payees[work[w].id]
         /\ \A p \in Payees[work[w].id] : After(w, p) = coins[p] + Amount[work[w].id]
  <1>1. work[w].id \in Ids
    BY DEF Commit, TypeOK, Request
  <1>2. work[w].held = Payees[work[w].id]
    BY DEF Commit, Left, Locked
  <1> QED
    BY <1>1, <1>2 DEF Locked, After

(* Only one of a transaction's participants has a given ledger id, and an  *)
(* id that is not stored has no entry yet: nothing is dropped.             *)
LEMMA NothingDropped ==
  ASSUME TypeOK, Entered, NEW id \in Ids, id \notin stored, NEW p \in Payees[id]
  PROVE  ~Dropped(id, p)
  <1>1. LedgerId(id, p)[1] = id
    BY DEF LedgerId
  <1>2. \A q \in Players : \A k \in DOMAIN ledger[q] : ledger[q][k].id # LedgerId(id, p)
    BY <1>1 DEF Entered
  <1>3. ASSUME NEW q \in Payees[id], q < p, LedgerId(id, q) = LedgerId(id, p)
        PROVE  FALSE
    <2>1. Payees[id] \subseteq Nat
      BY SettlementAssumption
    <2>2. CASE Kind[id] = "team"
      BY <1>3, <2>1, <2>2 DEF LedgerId
    <2>3. CASE Kind[id] # "team"
      BY <1>3, <2>1, <2>3, SettlementAssumption
    <2> QED
      BY <2>2, <2>3
  <1> QED
    BY <1>2, <1>3 DEF Dropped

-----------------------------------------------------------------------------
LEMMA InitInv == Init => IInv
  <1> SUFFICES ASSUME Init PROVE IInv
    OBVIOUS
  <1>1. TypeOK
    BY IdleTyped, SettlementAssumption DEF Init, TypeOK
  <1>2. Locked /\ Ordered /\ Entered
    BY IdleTyped DEF Init, Locked, Ordered, Entered
  <1>3. LedgerExplainsBalance
    BY DEF Init, LedgerExplainsBalance
  <1> QED
    BY <1>1, <1>2, <1>3 DEF IInv

(* The rows a commit writes.                                               *)
LEMMA CommitWrites ==
  ASSUME IInv, NEW w \in Workers, Commit(w), work[w].id \notin stored, Affordable(w)
  PROVE  LET id == work[w].id IN
         /\ id \in Ids
         /\ Payees[id] \subseteq Players
         /\ \A p \in Payees[id] : coins[p] + Amount[id] \in Nat
         /\ coins' = [p \in Players |->
              IF p \in Payees[id] THEN coins[p] + Amount[id] ELSE coins[p]]
         /\ \A p \in Payees[id] : Entry(w, p) \in LedgerRow
         /\ ledger' = [p \in Players |->
              IF p \in Payees[id] /\ Amount[id] # 0
                THEN Append(ledger[p], Entry(w, p)) ELSE ledger[p]]
         /\ progress' = [p \in Players |->
              IF p \in Payees[id] /\ Advances(id) THEN Capped(progress[p] + 1) ELSE progress[p]]
         /\ stored' = stored \cup {id}
  <1> DEFINE id == work[w].id
  <1> USE DEF IInv
  <1>1. /\ id \in Ids
        /\ \A p \in Payees[id] : After(w, p) = coins[p] + Amount[id]
    BY CommitHolds
  <1>2. Payees[id] \subseteq Players /\ Amount[id] \in Int
    BY <1>1, SettlementAssumption
  <1>3. \A p \in Payees[id] : coins[p] + Amount[id] \in Nat
    BY <1>1, <1>2 DEF Affordable, TypeOK
  <1>4. \A p \in Payees[id] : ~Dropped(id, p)
    BY <1>1, NothingDropped
  <1>5. ASSUME NEW p \in Payees[id] PROVE Entry(w, p) \in LedgerRow
    <2>1. LedgerId(id, p) \in Ids \X (Players \cup {0})
      BY <1>1, <1>2 DEF LedgerId
    <2>2. work[w].seen[p] \in Nat
      BY <1>2 DEF TypeOK, Request
    <2> QED
      BY <1>1, <1>3, <2>1, <2>2 DEF Entry, LedgerRow
  <1>6. coins' = [p \in Players |-> IF p \in Payees[id] THEN coins[p] + Amount[id] ELSE coins[p]]
    BY <1>1 DEF Commit, Settled
  <1>7. ledger' = [p \in Players |->
          IF p \in Payees[id] /\ Amount[id] # 0 THEN Append(ledger[p], Entry(w, p)) ELSE ledger[p]]
    BY <1>4 DEF Commit, Settled
  <1>8. /\ progress' = [p \in Players |->
              IF p \in Payees[id] /\ Advances(id) THEN Capped(progress[p] + 1) ELSE progress[p]]
        /\ stored' = stored \cup {id}
    BY DEF Commit, Settled
  <1> QED
    BY <1>1, <1>2, <1>3, <1>5, <1>6, <1>7, <1>8

(* Every step either commits a new result or leaves the tables alone.      *)
LEMMA Steps ==
  ASSUME [Next]_vars
  PROVE  \/ \E w \in Workers : Commit(w) /\ work[w].id \notin stored /\ Affordable(w)
         \/ UNCHANGED <<coins, ledger, progress, stored>>
  BY DEF Next, vars, Begin, LockCareer, Commit, Settled, Abort, Victim

(* What becomes of the workers: one of them begins, is granted a career or *)
(* leaves.                                                                 *)
LEMMA WorkSteps ==
  ASSUME TypeOK, [Next]_vars
  PROVE  \/ UNCHANGED work
         \/ \E w \in Workers, id \in Ids :
              work[w] = Idle /\ work' = [work EXCEPT ![w].id = id]
         \/ \E w \in Workers : LockCareer(w)
         \/ \E w \in Workers : Leave(w)
  BY DEF Next, vars, Begin, Commit, Abort, Victim

LEMMA TypeStep == IInv /\ [Next]_vars => TypeOK'
  <1> SUFFICES ASSUME IInv, [Next]_vars PROVE TypeOK'
    OBVIOUS
  <1> USE DEF IInv
  <1>1. aborts' \in Nat
    BY DEF TypeOK, Next, vars, Begin, LockCareer, Commit, Abort, Victim
  <1>2. work' \in [Workers -> Request]
    <2>1. ASSUME NEW w \in Workers, NEW id \in Ids, work' = [work EXCEPT ![w].id = id]
          PROVE  work' \in [Workers -> Request]
      BY <2>1 DEF TypeOK, Request
    <2>2. ASSUME NEW w \in Workers, LockCareer(w) PROVE work' \in [Workers -> Request]
      <3>1. PICK p \in Left(w) :
              work' = [work EXCEPT ![w].held = @ \cup {p}, ![w].seen[p] = coins[p]]
        BY <2>2 DEF LockCareer
      <3>2. work[w].id \in Ids
        BY <2>2 DEF LockCareer, TypeOK, Request
      <3>3. p \in Players /\ coins[p] \in Nat
        BY <3>1, <3>2, SettlementAssumption DEF Left, TypeOK
      <3>4. [work[w] EXCEPT !.held = @ \cup {p}, !.seen[p] = coins[p]] \in Request
        BY <3>3 DEF TypeOK, Request
      <3> QED
        BY <3>1, <3>4 DEF TypeOK
    <2>3. ASSUME NEW w \in Workers, Leave(w) PROVE work' \in [Workers -> Request]
      BY <2>3, IdleTyped DEF TypeOK, Leave
    <2> QED
      BY <2>1, <2>2, <2>3, WorkSteps DEF TypeOK
  <1>3. ASSUME NEW w \in Workers, Commit(w), work[w].id \notin stored, Affordable(w)
        PROVE  /\ coins' \in [Players -> Nat]
               /\ ledger' \in [Players -> Seq(LedgerRow)]
               /\ progress' \in [Players -> 0..DailyTarget]
               /\ stored' \in SUBSET Ids
    <2> DEFINE id == work[w].id
    <2>0. /\ id \in Ids
          /\ \A p \in Payees[id] : coins[p] + Amount[id] \in Nat
          /\ coins' = [p \in Players |->
               IF p \in Payees[id] THEN coins[p] + Amount[id] ELSE coins[p]]
          /\ \A p \in Payees[id] : Entry(w, p) \in LedgerRow
          /\ ledger' = [p \in Players |->
               IF p \in Payees[id] /\ Amount[id] # 0
                 THEN Append(ledger[p], Entry(w, p)) ELSE ledger[p]]
          /\ progress' = [p \in Players |->
               IF p \in Payees[id] /\ Advances(id) THEN Capped(progress[p] + 1) ELSE progress[p]]
          /\ stored' = stored \cup {id}
      BY <1>3, CommitWrites
    <2>1. coins' \in [Players -> Nat]
      BY <2>0 DEF TypeOK
    <2>2. ledger' \in [Players -> Seq(LedgerRow)]
      <3>1. \A p \in Players : ledger[p] \in Seq(LedgerRow)
        BY DEF TypeOK
      <3> QED
        BY <2>0, <3>1
    <2>3. \A n \in 0..DailyTarget : Capped(n + 1) \in 0..DailyTarget
      BY SettlementAssumption DEF Capped
    <2>4. progress' \in [Players -> 0..DailyTarget]
      BY <2>0, <2>3 DEF TypeOK
    <2> QED
      BY <2>0, <2>1, <2>2, <2>4 DEF TypeOK
  <1> QED
    BY <1>1, <1>2, <1>3, Steps DEF TypeOK

(* What the lock of a granted career adds to the worker's request.         *)
LEMMA Granted ==
  ASSUME TypeOK, Locked, NEW w \in Workers, LockCareer(w)
  PROVE  \E p \in Left(w) :
           /\ work[w].id \in Ids /\ p \in Players
           /\ \A q \in Left(w) \ {p} : p < q
           /\ \A v \in Workers : p \notin work[v].held
           /\ work'[w].id = work[w].id
           /\ work'[w].held = work[w].held \cup {p}
           /\ work'[w].seen[p] = coins[p]
           /\ \A q \in Players \ {p} : work'[w].seen[q] = work[w].seen[q]
           /\ \A v \in Workers \ {w} : work'[v] = work[v]
           /\ coins' = coins
  <1>1. PICK p \in Left(w) :
          Wants(w, p) /\ work' = [work EXCEPT ![w].held = @ \cup {p}, ![w].seen[p] = coins[p]]
    BY DEF LockCareer
  <1>2. work[w].id \in Ids
    BY DEF LockCareer, TypeOK, Request
  <1>3. p \in Players
    BY <1>2, SettlementAssumption DEF Left
  <1>4. work'[w] = [work[w] EXCEPT !.held = @ \cup {p}, !.seen[p] = coins[p]]
    BY <1>1 DEF TypeOK
  <1>5. /\ work'[w].id = work[w].id
        /\ work'[w].held = work[w].held \cup {p}
        /\ work'[w].seen = [work[w].seen EXCEPT ![p] = coins[p]]
    BY <1>4 DEF TypeOK, Request
  <1>6. /\ work'[w].seen[p] = coins[p]
        /\ \A q \in Players \ {p} : work'[w].seen[q] = work[w].seen[q]
    BY <1>3, <1>5 DEF TypeOK, Request
  <1>7. \A v \in Workers : p \notin work[v].held
    <2>1. \A v \in Workers \ {w} : p \notin work[v].held
      BY <1>1, GrantedIsFree DEF LockCareer
    <2> QED
      BY <2>1 DEF Left
  <1>8. \A q \in Left(w) \ {p} : p < q
    BY <1>1, WaitsForOne
  <1>9. \A v \in Workers \ {w} : work'[v] = work[v]
    BY <1>1 DEF TypeOK
  <1>10. coins' = coins
    BY DEF LockCareer
  <1> QED
    BY <1>2, <1>3, <1>5, <1>6, <1>7, <1>8, <1>9, <1>10

LEMMA LockedStep == IInv /\ [Next]_vars => Locked' /\ Ordered'
  <1> SUFFICES ASSUME IInv, [Next]_vars PROVE Locked' /\ Ordered'
    OBVIOUS
  <1> USE DEF IInv
  <1> USE IdleTyped
  <1>1. CASE UNCHANGED <<work, coins>>
    BY <1>1 DEF Locked, Ordered, Left
  <1>2. ASSUME NEW w \in Workers, NEW id \in Ids, Begin(w, id) PROVE Locked' /\ Ordered'
    <2>1. /\ work'[w].id = id /\ work'[w].held = {}
          /\ \A v \in Workers \ {w} : work'[v] = work[v]
          /\ coins' = coins
      BY <1>2 DEF Begin, TypeOK, Request
    <2>2. id # NoId
      BY SettlementAssumption
    <2> QED
      BY <2>1, <2>2 DEF Locked, Ordered, Left
  <1>3. ASSUME NEW w \in Workers, LockCareer(w) PROVE Locked' /\ Ordered'
    <2>1. PICK p \in Left(w) :
           /\ work[w].id \in Ids /\ p \in Players
           /\ \A q \in Left(w) \ {p} : p < q
           /\ \A v \in Workers : p \notin work[v].held
           /\ work'[w].id = work[w].id
           /\ work'[w].held = work[w].held \cup {p}
           /\ work'[w].seen[p] = coins[p]
           /\ \A q \in Players \ {p} : work'[w].seen[q] = work[w].seen[q]
           /\ \A v \in Workers \ {w} : work'[v] = work[v]
           /\ coins' = coins
      BY <1>3, Granted
    <2>2. p \in Payees[work[w].id] /\ p \notin work[w].held
      BY DEF Left
    <2>3. work[w].held \subseteq Players
      BY DEF TypeOK, Request
    <2>4. work[w].id # NoId
      BY <1>3 DEF LockCareer
    <2>5. \A v \in Workers : v # w => work'[v].held \cap work'[w].held = {}
      BY <2>1 DEF Locked
    <2>6. \A q \in work'[w].held : work'[w].seen[q] = coins[q]
      BY <2>1, <2>2, <2>3 DEF Locked
    <2>7. Locked'
      BY <2>1, <2>2, <2>4, <2>5, <2>6 DEF Locked
    <2>8. \A q \in work'[w].held : \A r \in Payees[work'[w].id] \ work'[w].held : q < r
      BY <2>1, <2>2, <2>4 DEF Ordered, Left
    <2>9. Ordered'
      BY <2>1, <2>8 DEF Ordered, Left
    <2> QED
      BY <2>7, <2>9
  <1>4. ASSUME NEW w \in Workers, Leave(w),
               \A v \in Workers \ {w} : \A p \in work[v].held : coins'[p] = coins[p]
        PROVE  Locked' /\ Ordered'
    <2>1. /\ work'[w].id = NoId /\ work'[w].held = {}
          /\ \A v \in Workers \ {w} : work'[v] = work[v]
      BY <1>4 DEF Leave, TypeOK
    <2> QED
      BY <1>4, <2>1 DEF Locked, Ordered, Left
  <1>5. ASSUME NEW w \in Workers, Commit(w) PROVE Locked' /\ Ordered'
    <2>1. CASE UNCHANGED coins
      BY <1>4, <1>5, <2>1 DEF Commit
    <2>2. CASE work[w].id \notin stored /\ Affordable(w)
      <3>1. coins' = [p \in Players |->
              IF p \in Payees[work[w].id] THEN coins[p] + Amount[work[w].id] ELSE coins[p]]
        BY <1>5, <2>2, CommitWrites
      <3>2. \A v \in Workers \ {w} : \A p \in work[v].held :
              p \in Players /\ p \notin Payees[work[w].id]
        <4>1. work[w].held = Payees[work[w].id]
          BY <1>5, CommitHolds
        <4> QED
          BY <4>1 DEF Locked, TypeOK, Request
      <3> QED
        BY <1>4, <1>5, <3>1, <3>2 DEF Commit
    <2> QED
      BY <1>5, <2>1, <2>2 DEF Commit, Settled
  <1>6. ASSUME NEW w \in Workers, Abort(w) \/ Victim(w) PROVE Locked' /\ Ordered'
    BY <1>4, <1>6 DEF Abort, Victim
  <1> QED
    BY <1>1, <1>2, <1>3, <1>5, <1>6 DEF Next, vars

(* One more entry that starts at the balance keeps the chain.              *)
LEMMA ChainGrows ==
  ASSUME NEW entries \in Seq(LedgerRow), NEW e \in LedgerRow, NEW balance,
         \A k \in DOMAIN entries :
           entries[k].previous = IF k = 1 THEN InitialCoins ELSE entries[k - 1].resulting,
         balance = IF entries = <<>> THEN InitialCoins ELSE entries[Len(entries)].resulting,
         e.previous = balance
  PROVE  LET longer == Append(entries, e) IN
         /\ \A k \in DOMAIN longer :
              longer[k].previous = IF k = 1 THEN InitialCoins ELSE longer[k - 1].resulting
         /\ longer # <<>> /\ longer[Len(longer)] = e
  <1> DEFINE longer == Append(entries, e)
  <1>0. /\ \A k \in DOMAIN entries :
             entries[k].previous = IF k = 1 THEN InitialCoins ELSE entries[k - 1].resulting
        /\ e.previous = IF entries = <<>> THEN InitialCoins ELSE entries[Len(entries)].resulting
    OBVIOUS
  <1>1. /\ Len(longer) = Len(entries) + 1 /\ DOMAIN longer = 1..Len(longer)
        /\ DOMAIN entries = 1..Len(entries) /\ Len(entries) \in Nat
        /\ longer[Len(entries) + 1] = e
        /\ \A k \in 1..Len(entries) : longer[k] = entries[k]
    <2>1. longer \in Seq(LedgerRow)
      OBVIOUS
    <2> QED
      BY <2>1
  <1>2. entries = <<>> <=> Len(entries) = 0
    OBVIOUS
  <1> HIDE DEF longer
  <1>3. ASSUME NEW k \in 1..Len(longer)
        PROVE  longer[k].previous = IF k = 1 THEN InitialCoins ELSE longer[k - 1].resulting
    <2>1. CASE k \in 1..Len(entries)
      <3>1. k = 1 \/ k - 1 \in 1..Len(entries)
        BY <1>1, <2>1
      <3> QED
        BY <1>0, <1>1, <2>1, <3>1
    <2>2. CASE k = Len(entries) + 1
      <3>1. CASE Len(entries) = 0
        BY <1>0, <1>1, <1>2, <2>2, <3>1
      <3>2. CASE Len(entries) # 0
        <4>1. k # 1 /\ k - 1 = Len(entries) /\ Len(entries) \in 1..Len(entries)
          BY <1>1, <2>2, <3>2
        <4> QED
          BY <1>0, <1>1, <1>2, <2>2, <3>2, <4>1
      <3> QED
        BY <3>1, <3>2
    <2> QED
      BY <1>1, <2>1, <2>2
  <1>4. longer # <<>>
    BY <1>1
  <1> QED
    BY <1>1, <1>3, <1>4 DEF longer

LEMMA LedgerStep == IInv /\ [Next]_vars => Entered' /\ LedgerExplainsBalance'
  <1> SUFFICES ASSUME IInv, [Next]_vars PROVE Entered' /\ LedgerExplainsBalance'
    OBVIOUS
  <1> USE DEF IInv
  <1>1. CASE UNCHANGED <<coins, ledger, stored>>
    BY <1>1 DEF Entered, LedgerExplainsBalance
  <1>2. ASSUME NEW w \in Workers, Commit(w), work[w].id \notin stored, Affordable(w)
        PROVE  Entered' /\ LedgerExplainsBalance'
    <2> DEFINE id == work[w].id
    <2>1. /\ id \in Ids
          /\ coins' = [p \in Players |->
               IF p \in Payees[id] THEN coins[p] + Amount[id] ELSE coins[p]]
          /\ \A p \in Payees[id] : Entry(w, p) \in LedgerRow
          /\ ledger' = [p \in Players |->
               IF p \in Payees[id] /\ Amount[id] # 0
                 THEN Append(ledger[p], Entry(w, p)) ELSE ledger[p]]
          /\ stored' = stored \cup {id}
      BY <1>2, CommitWrites
    <2>2. \A p \in Payees[id] :
            /\ Entry(w, p).id[1] = id
            /\ Entry(w, p).previous = coins[p]
            /\ Entry(w, p).resulting = coins[p] + Amount[id]
      BY <1>2, CommitHolds DEF Entry, LedgerId, Locked
    <2>3. \A p \in Players : ledger[p] \in Seq(LedgerRow) /\ coins[p] \in Nat
      BY DEF TypeOK
    <2> HIDE DEF id
    <2>4. ASSUME NEW p \in Players
          PROVE  /\ \A k \in DOMAIN ledger'[p] : ledger'[p][k].id[1] \in stored'
                 /\ \A k \in DOMAIN ledger'[p] :
                      ledger'[p][k].previous =
                        IF k = 1 THEN InitialCoins ELSE ledger'[p][k - 1].resulting
                 /\ coins'[p] = IF ledger'[p] = <<>> THEN InitialCoins
                                ELSE ledger'[p][Len(ledger'[p])].resulting
      <3>1. CASE p \in Payees[id] /\ Amount[id] # 0
        <4>1. ledger'[p] = Append(ledger[p], Entry(w, p)) /\ coins'[p] = coins[p] + Amount[id]
          BY <2>1, <3>1
        <4>2. \A k \in DOMAIN Append(ledger[p], Entry(w, p)) :
                \/ k \in DOMAIN ledger[p] /\ Append(ledger[p], Entry(w, p))[k] = ledger[p][k]
                \/ Append(ledger[p], Entry(w, p))[k] = Entry(w, p)
          BY <2>3, <2>1, <3>1
        <4>3. \A k \in DOMAIN ledger'[p] : ledger'[p][k].id[1] \in stored'
          BY <2>1, <2>2, <3>1, <4>1, <4>2 DEF Entered
        <4>4. /\ \A k \in DOMAIN ledger'[p] :
                   ledger'[p][k].previous =
                     IF k = 1 THEN InitialCoins ELSE ledger'[p][k - 1].resulting
              /\ ledger'[p] # <<>> /\ ledger'[p][Len(ledger'[p])] = Entry(w, p)
          BY SMTT(30), <2>1, <2>2, <2>3, <3>1, <4>1, ChainGrows DEF LedgerExplainsBalance
        <4> QED
          BY <2>2, <3>1, <4>1, <4>3, <4>4
      <3>2. CASE ~(p \in Payees[id] /\ Amount[id] # 0)
        <4>1. ledger'[p] = ledger[p] /\ coins'[p] = coins[p]
          BY <2>1, <2>3, <3>2
        <4> QED
          BY ZenonT(40), <2>1, <4>1 DEF Entered, LedgerExplainsBalance
      <3> QED
        BY <3>1, <3>2
    <2> QED
      BY <2>4 DEF Entered, LedgerExplainsBalance
  <1> QED
    BY <1>1, <1>2, Steps

(* Every state of the specification satisfies the inductive invariant.     *)
THEOREM Invariance == Spec => []IInv
  <1>1. Init => IInv
    BY InitInv
  <1>2. IInv /\ [Next]_vars => IInv'
    BY TypeStep, LockedStep, LedgerStep DEF IInv
  <1> QED
    BY <1>1, <1>2, PTL DEF Spec

(* No balance ever falls below zero and no daily count above its cap,      *)
(* whatever settlements, purchases and cancellations interleave.           *)
THEOREM TypeCorrect == Spec => []TypeOK
  <1>1. IInv => TypeOK
    BY DEF IInv
  <1> QED
    BY <1>1, Invariance, PTL

(* The ledger accounts for every change of a balance: ON CONFLICT DO       *)
(* NOTHING never drops an entry, as each participant has an id of its own. *)
THEOREM LedgerCorrect == Spec => []LedgerExplainsBalance
  <1>1. IInv => LedgerExplainsBalance
    BY DEF IInv
  <1> QED
    BY <1>1, Invariance, PTL

-----------------------------------------------------------------------------
(* The transactions implement Payments: a step that stores a result pays   *)
(* all of its players from the balance of that moment, every other step    *)
(* changes nothing a caller could see.                                     *)
THEOREM PaymentsCorrect == Spec => PaymentsSpec
  <1>1. Init => P!Init
    BY DEF Init, P!Init
  <1>2. ASSUME IInv, [Next]_vars PROVE [P!Next]_(P!vars)
    <2>1. CASE UNCHANGED <<coins, ledger, progress, stored>>
      BY <2>1 DEF P!vars
    <2>2. ASSUME NEW w \in Workers, Commit(w), work[w].id \notin stored, Affordable(w)
          PROVE  P!Next
      <3> DEFINE id == work[w].id
      <3>1. /\ id \in Ids
            /\ \A p \in Payees[id] : coins[p] + Amount[id] \in Nat
            /\ coins' = [p \in Players |->
                 IF p \in Payees[id] THEN coins[p] + Amount[id] ELSE coins[p]]
            /\ stored' = stored \cup {id}
        BY <1>2, <2>2, CommitWrites
      <3>2. P!Pay(id)
        BY <2>2, <3>1 DEF P!Pay
      <3> QED
        BY <3>1, <3>2 DEF P!Next
    <2> QED
      BY <1>2, <2>1, <2>2, Steps
  <1> QED
    BY <1>1, <1>2, Invariance, PTL DEF Spec, PaymentsSpec, P!Spec

-----------------------------------------------------------------------------
(* What a player was paid, and charged, with.                              *)
PaidTo(p) == {id \in stored : p \in Payees[id]}

BalanceIsPaid ==
  \A p \in Players : coins[p] = InitialCoins + SumOf(Amount, PaidTo(p))

LEMMA PaidStep ==
  ASSUME IsFiniteSet(stored), stored \subseteq Ids, BalanceIsPaid, NEW id \in Ids, P!Pay(id)
  PROVE  IsFiniteSet(stored)' /\ (stored \subseteq Ids)' /\ BalanceIsPaid'
  <1>1. /\ stored' = stored \cup {id} /\ id \notin stored
        /\ \A p \in Players :
             coins'[p] = IF p \in Payees[id] THEN coins[p] + Amount[id] ELSE coins[p]
    BY DEF P!Pay
  <1>2. IsFiniteSet(stored') /\ stored' \subseteq Ids
    BY <1>1, FS_AddElement
  <1>3. ASSUME NEW p \in Players
        PROVE  coins'[p] = InitialCoins + SumOf(Amount, PaidTo(p)')
    <2>1. IsFiniteSet(PaidTo(p)) /\ PaidTo(p) \subseteq Ids
      BY FS_Subset DEF PaidTo
    <2>2. coins[p] = InitialCoins + SumOf(Amount, PaidTo(p))
      BY DEF BalanceIsPaid
    <2>3. \A i \in Ids : Amount[i] \in Int
      BY SettlementAssumption
    <2>4. CASE p \in Payees[id]
      <3>1. PaidTo(p)' = PaidTo(p) \cup {id} /\ id \notin PaidTo(p)
        BY <1>1, <2>4 DEF PaidTo
      <3>2. SumOf(Amount, PaidTo(p) \cup {id}) = SumOf(Amount, PaidTo(p)) + Amount[id]
        BY <2>1, <2>3, <3>1, SumOfOneMore
      <3>3. SumOf(Amount, PaidTo(p)) \in Int
        BY <2>1, <2>3, SumOfTyped
      <3> QED
        BY <1>1, <2>2, <2>3, <2>4, <3>1, <3>2, <3>3, SettlementAssumption
    <2>5. CASE p \notin Payees[id]
      <3>1. PaidTo(p)' = PaidTo(p)
        BY <1>1, <2>5 DEF PaidTo
      <3> QED
        BY <1>1, <2>2, <2>5, <3>1
    <2> QED
      BY <2>4, <2>5
  <1> QED
    BY <1>2, <1>3 DEF BalanceIsPaid

(* No coin is made or lost: whatever requests overlap, fail or are sent    *)
(* again, a balance is what the player began with and the amounts of the   *)
(* settlements and purchases stored for him, each counted once.  This      *)
(* holds of Payments, and so of the transactions that implement it.        *)
THEOREM BalanceCorrect == Spec => []BalanceIsPaid
  <1> DEFINE Inv == IsFiniteSet(stored) /\ stored \subseteq Ids /\ BalanceIsPaid
  <1>1. P!Init => Inv
    <2> SUFFICES ASSUME P!Init PROVE Inv
      OBVIOUS
    <2>1. stored = {} /\ \A p \in Players : coins[p] = InitialCoins /\ PaidTo(p) = {}
      BY DEF P!Init, PaidTo
    <2>2. SumOf(Amount, {}) = 0
      BY SumOfNothing
    <2> QED
      BY <2>1, <2>2, FS_EmptySet, SettlementAssumption DEF BalanceIsPaid
  <1>2. Inv /\ [P!Next]_(P!vars) => Inv'
    <2> SUFFICES ASSUME Inv, [P!Next]_(P!vars) PROVE Inv'
      OBVIOUS
    <2>1. CASE UNCHANGED P!vars
      BY <2>1 DEF P!vars, BalanceIsPaid, PaidTo
    <2>2. CASE P!Next
      BY <2>2, PaidStep DEF P!Next
    <2> QED
      BY <2>1, <2>2
  <1>3. Inv => BalanceIsPaid
    OBVIOUS
  <1> QED
    BY <1>1, <1>2, <1>3, PaymentsCorrect, PTL DEF PaymentsSpec, P!Spec

-----------------------------------------------------------------------------
Counted(p) == {id \in stored : Advances(id) /\ p \in Payees[id]}

CountInv == IsFiniteSet(stored) /\ ProgressCounts

LEMMA CountStep == IInv /\ CountInv /\ [Next]_vars => CountInv'
  <1> SUFFICES ASSUME IInv, CountInv, [Next]_vars PROVE CountInv'
    OBVIOUS
  <1>1. CASE UNCHANGED <<coins, ledger, progress, stored>>
    BY <1>1 DEF CountInv, ProgressCounts
  <1>2. ASSUME NEW w \in Workers, Commit(w), work[w].id \notin stored, Affordable(w)
        PROVE  CountInv'
    <2> DEFINE id == work[w].id
    <2>1. /\ progress' = [p \in Players |->
               IF p \in Payees[id] /\ Advances(id) THEN Capped(progress[p] + 1) ELSE progress[p]]
          /\ stored' = stored \cup {id}
      BY <1>2, CommitWrites
    <2>2. IsFiniteSet(stored')
      BY <2>1, FS_AddElement DEF CountInv
    <2>3. ASSUME NEW p \in Players
          PROVE  progress'[p] = Capped(Cardinality(Counted(p)'))
      <3>1. IsFiniteSet(Counted(p)) /\ Cardinality(Counted(p)) \in Nat
        BY FS_Subset, FS_CardinalityType DEF CountInv, Counted
      <3>2. progress[p] = Capped(Cardinality(Counted(p)))
        BY DEF CountInv, ProgressCounts, Counted
      <3>3. CASE p \in Payees[id] /\ Advances(id)
        <4>1. Counted(p)' = Counted(p) \cup {id} /\ id \notin Counted(p)
          BY <1>2, <2>1, <3>3 DEF Counted
        <4>2. Cardinality(Counted(p)') = Cardinality(Counted(p)) + 1
          BY <3>1, <4>1, FS_AddElement
        <4>3. \A n \in Nat : Capped(Capped(n) + 1) = Capped(n + 1)
          BY SettlementAssumption DEF Capped
        <4> QED
          BY <2>1, <3>1, <3>2, <3>3, <4>2, <4>3
      <3>4. CASE ~(p \in Payees[id] /\ Advances(id))
        <4>1. Counted(p)' = Counted(p)
          BY <2>1, <3>4 DEF Counted
        <4> QED
          BY <2>1, <3>2, <3>4, <4>1
      <3> QED
        BY <3>3, <3>4
    <2> QED
      BY <2>2, <2>3 DEF CountInv, ProgressCounts, Counted
  <1> QED
    BY <1>1, <1>2, Steps

(* The daily mission counts each settled match of a player once, up to its *)
(* target: retries and concurrent settlements neither lose nor repeat one. *)
THEOREM ProgressCorrect == Spec => []ProgressCounts
  <1>1. Init => CountInv
    <2> SUFFICES ASSUME Init PROVE CountInv
      OBVIOUS
    <2>1. IsFiniteSet({}) /\ Cardinality({}) = 0
      BY FS_EmptySet
    <2>2. Capped(0) = 0
      BY SettlementAssumption DEF Capped
    <2>3. \A p \in Players : {id \in stored : Advances(id) /\ p \in Payees[id]} = {}
      BY DEF Init
    <2> QED
      BY <2>1, <2>2, <2>3 DEF Init, CountInv, ProgressCounts
  <1>2. CountInv => ProgressCounts
    BY DEF CountInv
  <1> QED
    BY <1>1, <1>2, CountStep, Invariance, PTL DEF Spec

-----------------------------------------------------------------------------
(* The two circumstances under which no deadlock is possible.              *)
NobodyIsNamed == \A id \in Ids : Kind[id] \notin {"attack", "raid"}
NoTeamsNorAttacks == \A id \in Ids : Kind[id] \notin {"attack", "team"}

Above(p) == {q \in Players : q > p}

LEMMA AboveShrinks ==
  ASSUME NEW p \in Players, NEW q \in Players, q > p
  PROVE  Above(q) \subseteq Above(p) /\ q \in Above(p) /\ q \notin Above(q)
  <1>1. Players \subseteq Nat
    BY SettlementAssumption
  <1>2. ASSUME NEW r \in Above(q) PROVE r \in Above(p)
    BY <1>1, <1>2 DEF Above
  <1>3. q \in Above(p) /\ q \notin Above(q)
    BY <1>1 DEF Above
  <1> QED
    BY <1>2, <1>3

(* A career somebody waits for is held by somebody who waits, if at all,   *)
(* for a higher one: in a cycle of waiters there would be no highest.      *)
LEMMA SomebodyNames ==
  ASSUME IInv, NEW S \in SUBSET Workers, Deadlocked(S)
  PROVE  \E w \in S : Left(w) = {} /\ Names(work[w].id)
  <1> SUFFICES ASSUME \A w \in S : ~(Left(w) = {} /\ Names(work[w].id))
               PROVE  FALSE
    OBVIOUS
  <1>a. ASSUME NEW w \in S, NEW p, Wants(w, p) PROVE p \in Left(w)
    BY <1>a DEF Wants
  <1> DEFINE Awaited == {p \in Players : \E w \in S : p \in Left(w) /\ Wants(w, p)}
             T == {Above(p) : p \in Awaited}
  <1>1. ASSUME NEW w \in S
        PROVE  \E v \in S, p \in Awaited : p \in work[v].held /\ Wants(w, p)
    <2>1. PICK v \in S : Blocked(w, v)
      BY DEF Deadlocked
    <2>2. PICK p \in work[v].held : Wants(w, p)
      BY <2>1 DEF Blocked
    <2>3. p \in Left(w)
      BY <2>2, <1>a
    <2>4. p \in Players
      BY DEF IInv, TypeOK, Request
    <2> QED
      BY <2>2, <2>3, <2>4
  <1>2. ASSUME NEW p \in Awaited PROVE \E q \in Awaited : q > p
    <2>1. PICK w \in S : p \in Left(w) /\ Wants(w, p)
      OBVIOUS
    <2>2. PICK v \in S, r \in Awaited : r \in work[v].held /\ Wants(w, r)
      BY <1>1
    <2>3. r \in Left(w)
      BY <2>2, <1>a
    <2>4. r = p
      <3>1. p \in Nat /\ r \in Nat
        BY SettlementAssumption
      <3> QED
        BY <2>1, <2>2, <2>3, <3>1, WaitsForOne DEF IInv
    <2>5. PICK u \in S, q \in Awaited : q \in work[u].held /\ Wants(v, q)
      BY <1>1
    <2>6. work[v].id # NoId /\ q \in Left(v)
      BY <2>5, <1>a DEF Wants
    <2>7. p < q
      BY <2>2, <2>4, <2>6 DEF IInv, Ordered
    <2> QED
      BY <2>7, SettlementAssumption
  <1>3. S # {} /\ Awaited # {}
    BY <1>1 DEF Deadlocked
  <1>4. T \subseteq SUBSET Players /\ T # {}
    BY <1>3 DEF Above
  <1>5. PICK A \in T : \A B \in T : ~(B \subseteq A /\ B # A)
    <2>1. IsWellFoundedOn(StrictSubsetOrdering(Players), FiniteSubsetsOf(Players))
      BY FS_StrictSubsetOrderingWellFounded
    <2>2. T \subseteq FiniteSubsetsOf(Players)
      BY <1>4, FS_Subset, SettlementAssumption DEF FiniteSubsetsOf
    <2>3. \E A \in T : \A B \in T : ~(<<B, A>> \in StrictSubsetOrdering(Players))
      BY <1>4, <2>1, <2>2, WFMin
    <2> QED
      BY <1>4, <2>3 DEF StrictSubsetOrdering
  <1>6. PICK p \in Awaited : A = Above(p)
    OBVIOUS
  <1>7. PICK q \in Awaited : q > p
    BY <1>2
  <1>8. Above(q) \subseteq A /\ q \in A /\ q \notin Above(q)
    <2>1. p \in Players /\ q \in Players
      OBVIOUS
    <2> QED
      BY <1>6, <1>7, <2>1, AboveShrinks, Zenon
  <1>9. Above(q) \in T
    BY <1>7
  <1>10. Above(q) # A
    BY <1>8
  <1>11. ~(Above(q) \subseteq A /\ Above(q) # A)
    <2> HIDE DEF T
    <2> QED
      BY <1>5, <1>9, Zenon
  <1> QED
    BY <1>8, <1>10, <1>11, Zenon

(* Without a team match a worker that holds a career has all it needs, so  *)
(* it can only wait to name a defender; without attacks that takes a       *)
(* raid's weak lock on its own career, which nobody who waits to name one  *)
(* minds.                                                                  *)
LEMMA SomebodyLocksFirmly ==
  ASSUME IInv, NEW S \in SUBSET Workers, Deadlocked(S)
  PROVE  \E v \in S : Kind[work[v].id] \in {"attack", "team"}
  <1> SUFFICES ASSUME \A v \in S : Kind[work[v].id] \notin {"attack", "team"}
               PROVE  FALSE
    OBVIOUS
  <1>1. ASSUME NEW w \in S, NEW v \in S, Blocked(w, v)
        PROVE  work[v].id \in Ids /\ Left(v) = {}
    <2>1. work[v].held # {}
      BY <1>1 DEF Blocked
    <2>2. work[v].id \in Ids /\ work[v].held \subseteq Payees[work[v].id]
      BY <2>1 DEF IInv, Locked, TypeOK, Request
    <2>3. PICK p \in Players : Payees[work[v].id] = {p}
      BY <2>2, SettlementAssumption
    <2> QED
      BY <2>1, <2>2, <2>3 DEF Left
  <1>2. PICK w \in S, v \in S : Blocked(w, v)
    BY DEF Deadlocked
  <1>3. PICK u \in S : Blocked(v, u)
    BY DEF Deadlocked
  <1>4. PICK t \in S : Blocked(u, t)
    BY DEF Deadlocked
  <1>5. /\ work[v].id \in Ids /\ Left(v) = {}
        /\ work[u].id \in Ids /\ Left(u) = {}
    BY <1>1, <1>2, <1>3
  <1>6. Wanted(v) = "key share"
    BY <1>5 DEF Wanted
  <1>7. Mode(work[u].id) = "update"
    BY <1>3, <1>6 DEF Blocked, Excludes, Mode
  <1>8. Names(work[u].id)
    BY <1>4, <1>5 DEF Blocked, Wants
  <1> QED
    BY <1>5, <1>7, <1>8 DEF Names, Mode

(* Every deadlock has a transaction that waits to name a defender, and an  *)
(* attack or a team match.                                                 *)
THEOREM DeadlockExplained == Spec => []DeadlockNeedsName
  <1>1. IInv => DeadlockNeedsName
    BY SomebodyNames, SomebodyLocksFirmly DEF DeadlockNeedsName
  <1> QED
    BY <1>1, Invariance, PTL

(* Ordered locking excludes deadlock among team matches, matches and       *)
(* purchases (store.go:452), and the realm's weaker lock among raids of    *)
(* players on each other (realm_store.go:585).  Neither excludes it once   *)
(* attacks, or raids and team matches, run together (DeadlockExplained).   *)
THEOREM DeadlockFree == NobodyIsNamed \/ NoTeamsNorAttacks => (Spec => []NoDeadlock)
  <1>1. IInv /\ (NobodyIsNamed \/ NoTeamsNorAttacks) => NoDeadlock
    <2> SUFFICES ASSUME IInv, NobodyIsNamed \/ NoTeamsNorAttacks,
                        NEW S \in SUBSET Workers, Deadlocked(S)
                 PROVE  FALSE
      BY DEF NoDeadlock
    <2>1. \A w \in S : work[w].id \in Ids
      <3> SUFFICES ASSUME NEW w \in S PROVE work[w].id \in Ids
        OBVIOUS
      <3>1. work[w].id \in Ids \cup {NoId}
        BY DEF IInv, TypeOK, Request
      <3>2. work[w].id # NoId
        BY DEF Deadlocked, Blocked, Wants
      <3> QED
        BY <3>1, <3>2
    <2>2. CASE NobodyIsNamed
      BY <2>1, <2>2, SomebodyNames DEF NobodyIsNamed, Names
    <2>3. CASE NoTeamsNorAttacks
      BY <2>1, <2>3, SomebodyLocksFirmly DEF NoTeamsNorAttacks
    <2> QED
      BY <2>2, <2>3
  <1> SUFFICES ASSUME NobodyIsNamed \/ NoTeamsNorAttacks PROVE Spec => []NoDeadlock
    OBVIOUS
  <1>2. IInv => NoDeadlock
    BY <1>1
  <1> QED
    BY <1>2, Invariance, PTL
=============================================================================
