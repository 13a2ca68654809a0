---------------------------- MODULE LiveMatchProofs ----------------------------
(***************************************************************************)
(* Proofs about LiveMatch, ranked or by invitation, for any users and      *)
(* sessions.  Seated says that a user has one seat at most, Unpaid that    *)
(* nothing is paid before the match is over; so both settlements come from *)
(* one call of finishSettlements, with one status and two different seats. *)
(***************************************************************************)
EXTENDS LiveMatch, TLAPS

Seated == \A seat \in Seats : Taken(seat) => presenceByID[players[seat].user] = seat

Unpaid == ~finished => \A u \in Users : paid[u] = NoResult /\ told[u] = NoResult

OverMeansIdle == pc = "draining" => started /\ ~finished

IInv == TypeOK /\ Seated /\ Unpaid /\ OverMeansIdle /\ ResultsAgree

Outcome == Results \cup {NoResult}
Answer == Results \cup {NoResult, "error"}

-----------------------------------------------------------------------------
LEMMA RolesTyped ==
  ASSUME NEW st \in Results, NEW seat
  PROVE  StatusForRole(st, seat) \in Results
  BY DEF StatusForRole, Results

LEMMA FreeTyped == Free \in [user : Users \cup {NoUser}, nextSeq : Nat]
  BY DEF Free

(* Both settlements of one call, if both are made, fit each other.         *)
LEMMA FinishPays ==
  ASSUME IInv, ~finished, NEW st \in Results, FinishSettlements(st)
  PROVE  /\ paid' \in [Users -> Outcome]
         /\ told' \in [Users -> Answer]
         /\ ResultsAgree'
  <1>1. PICK reply \in [Seats -> {"ok", "failed", "lost"}] :
          LET Settled(u, seat) == u = players[seat].user /\ reply[seat] # "failed"
              Row(u) == IF paid[u] # NoResult \/ ~\E seat \in Seats : Settled(u, seat) THEN paid[u]
                        ELSE StatusForRole(st, CHOOSE seat \in Seats : Settled(u, seat))
              Result(u, seat) == IF reply[seat] = "ok" THEN Row(u) ELSE "error"
          IN /\ paid' = [u \in Users |-> Row(u)]
             /\ told' = [u \in Users |->
                  IF \E seat \in Seats : u = players[seat].user
                    THEN Result(u, CHOOSE seat \in Seats : u = players[seat].user) ELSE told[u]]
    BY DEF FinishSettlements
  <1> DEFINE Settled(u, seat) == u = players[seat].user /\ reply[seat] # "failed"
             At(u) == CHOOSE seat \in Seats : Settled(u, seat)
             Sits(u) == CHOOSE seat \in Seats : u = players[seat].user
  <1>2. \A u \in Users : paid[u] = NoResult /\ told[u] = NoResult
    BY DEF IInv, Unpaid
  <1>3. \A u \in Users : \A s1, s2 \in Seats :
          u = players[s1].user /\ u = players[s2].user => s1 = s2
    BY LiveMatchAssumption DEF IInv, Seated, Taken
  <1>4. \A u \in Users :
          IF \E seat \in Seats : Settled(u, seat)
            THEN At(u) \in Seats /\ Settled(u, At(u)) /\ paid'[u] = StatusForRole(st, At(u))
            ELSE paid'[u] = NoResult
    BY <1>1, <1>2
  <1>5. \A u \in Users :
          IF \E seat \in Seats : u = players[seat].user
            THEN /\ Sits(u) \in Seats /\ u = players[Sits(u)].user
                 /\ told'[u] = IF reply[Sits(u)] = "ok" THEN paid'[u] ELSE "error"
            ELSE told'[u] = NoResult
    BY <1>1, <1>2
  <1>6. paid' \in [Users -> Outcome]
    <2>1. \A u \in Users : paid'[u] \in Outcome
      BY <1>4, RolesTyped DEF Outcome
    <2> QED
      BY <1>1, <2>1
  <1>7. told' \in [Users -> Answer]
    <2>1. \A u \in Users : told'[u] \in Answer
      BY <1>5, <1>6 DEF Outcome, Answer
    <2> QED
      BY <1>1, <2>1
  <1>8. ASSUME NEW u \in Users, NEW v \in Users, u # v, paid'[u] # NoResult, paid'[v] # NoResult
        PROVE  {paid'[u], paid'[v]} \in {{"victory", "defeat"}, {"draw"}}
    <2>1. /\ At(u) \in Seats /\ Settled(u, At(u)) /\ paid'[u] = StatusForRole(st, At(u))
          /\ At(v) \in Seats /\ Settled(v, At(v)) /\ paid'[v] = StatusForRole(st, At(v))
      BY <1>4, <1>8
    <2>2. At(u) # At(v)
      BY <1>8, <2>1
    <2> HIDE DEF At, Settled
    <2>3. CASE At(u) = 0 /\ At(v) = 1
      BY <2>1, <2>3 DEF StatusForRole, Results
    <2>4. CASE At(u) = 1 /\ At(v) = 0
      BY <2>1, <2>4 DEF StatusForRole, Results
    <2> QED
      BY <2>1, <2>2, <2>3, <2>4 DEF Seats
  <1>9. ASSUME NEW u \in Users, told'[u] \notin {NoResult, "error"}
        PROVE  told'[u] = paid'[u]
    BY <1>5, <1>9
  <1> QED
    BY <1>6, <1>7, <1>8, <1>9 DEF ResultsAgree

LEMMA InitInv == Init => IInv
  <1> SUFFICES ASSUME Init PROVE IInv
    OBVIOUS
  <1>1. players \in [Seats -> [user : Users \cup {NoUser}, nextSeq : Nat]]
    BY FreeTyped DEF Init
  <1>2. /\ started = FALSE /\ finished = FALSE /\ stopped = FALSE /\ age = 0 /\ pc = "idle"
        /\ status = "playing" /\ armies = <<>> /\ pending = {} /\ tracked = {} /\ starters = {}
        /\ presenceByID \in [Users -> Seats \cup {NoSeat}]
        /\ paid = [u \in Users |-> NoResult] /\ told = [u \in Users |-> NoResult]
    BY DEF Init
  <1>3. /\ started \in BOOLEAN /\ finished \in BOOLEAN /\ stopped \in BOOLEAN
        /\ age \in 0..(MaxMatchTime + 1)
        /\ armies \in Seq([user : Users, seat : Seats, seq : Nat])
    <2>1. started \in BOOLEAN /\ finished \in BOOLEAN /\ stopped \in BOOLEAN
      BY <1>2
    <2>2. age \in 0..(MaxMatchTime + 1)
      BY <1>2, LiveMatchAssumption
    <2>3. armies \in Seq([user : Users, seat : Seats, seq : Nat])
      BY <1>2
    <2> QED
      BY <2>1, <2>2, <2>3
  <1>4. TypeOK
    BY <1>1, <1>2, <1>3 DEF TypeOK
  <1>5. \A u \in Users : paid[u] = NoResult /\ told[u] = NoResult
    BY <1>2
  <1>6. Seated
    <2>1. \A seat \in Seats : players[seat].user = NoUser
      BY DEF Init, Free
    <2> QED
      BY <2>1 DEF Seated, Taken
  <1>7. Unpaid /\ OverMeansIdle /\ ResultsAgree
    BY <1>2, <1>5 DEF Unpaid, OverMeansIdle, ResultsAgree
  <1> QED
    BY <1>4, <1>6, <1>7 DEF IInv

LEMMA SamePaid ==
  ASSUME IInv, UNCHANGED <<finished, paid, told>>
  PROVE  Unpaid' /\ ResultsAgree'
  BY DEF IInv, Unpaid, ResultsAgree

LEMMA NextInv == IInv /\ [Next]_vars => IInv'
  <1> SUFFICES ASSUME IInv, [Next]_vars PROVE IInv'
    OBVIOUS
  <1>1. CASE UNCHANGED vars
    BY <1>1 DEF vars, IInv, TypeOK, Seated, Taken, Unpaid, OverMeansIdle, ResultsAgree
  <1>2. ASSUME NEW s \in Sessions, MatchJoinAttempt(s) PROVE IInv'
    BY <1>2 DEF MatchJoinAttempt, IInv, TypeOK, Seated, Taken, Unpaid, OverMeansIdle, ResultsAgree
  <1>3. ASSUME NEW s \in Sessions, MatchJoin(s) PROVE IInv'
    <2> DEFINE u == UserOf[s]
               seat == IF Taken(0) THEN 1 ELSE 0
    <2>1. u \in Users /\ u # NoUser /\ seat \in Seats
      BY LiveMatchAssumption DEF Seats
    <2>2. \/ /\ presenceByID[u] = NoSeat
             /\ players' = [players EXCEPT ![seat] = [Free EXCEPT !.user = u]]
             /\ presenceByID' = [presenceByID EXCEPT ![u] = seat]
          \/ UNCHANGED <<players, presenceByID>>
      BY <1>3 DEF MatchJoin, Unknown
    <2>3. UNCHANGED <<pc, finished, age, status, armies, paid, told, stopped>>
          /\ pending' = pending \ {s} /\ tracked' = tracked \cup {s}
      BY <1>3 DEF MatchJoin
    <2>4. started' \in BOOLEAN
      BY <1>3 DEF MatchJoin, IInv, TypeOK
    <2>5. /\ players' \in [Seats -> [user : Users \cup {NoUser}, nextSeq : Nat]]
          /\ presenceByID' \in [Users -> Seats \cup {NoSeat}]
      <3>1. [Free EXCEPT !.user = u] \in [user : Users \cup {NoUser}, nextSeq : Nat]
        BY <2>1 DEF Free
      <3>2. /\ players \in [Seats -> [user : Users \cup {NoUser}, nextSeq : Nat]]
            /\ presenceByID \in [Users -> Seats \cup {NoSeat}]
        BY DEF IInv, TypeOK
      <3> HIDE DEF u, seat
      <3>3. players' = players \/ players' = [players EXCEPT ![seat] = [Free EXCEPT !.user = u]]
        BY <2>2
      <3>4. presenceByID' = presenceByID \/ presenceByID' = [presenceByID EXCEPT ![u] = seat]
        BY <2>2
      <3>5. players' \in [Seats -> [user : Users \cup {NoUser}, nextSeq : Nat]]
        BY <3>1, <3>2, <3>3
      <3>6. presenceByID' \in [Users -> Seats \cup {NoSeat}]
        BY <2>1, <3>2, <3>4
      <3> QED
        BY <3>5, <3>6
    <2>6. starters' \in SUBSET Users
      <3>1. starters' = starters \/ starters' = {players'[0].user, players'[1].user}
        BY <1>3 DEF MatchJoin
      <3>2. starters' # starters => players'[0].user # NoUser /\ players'[1].user # NoUser
        BY <1>3 DEF MatchJoin
      <3>3. 0 \in Seats /\ 1 \in Seats
        BY DEF Seats
      <3> QED
        BY <2>5, <3>1, <3>2, <3>3 DEF IInv, TypeOK
    <2>7. TypeOK'
      BY <2>3, <2>4, <2>5, <2>6 DEF IInv, TypeOK
    <2>8. Seated'
      <3>1. CASE UNCHANGED <<players, presenceByID>>
        BY <3>1 DEF IInv, Seated, Taken
      <3>2. CASE /\ presenceByID[u] = NoSeat
                 /\ players' = [players EXCEPT ![seat] = [Free EXCEPT !.user = u]]
                 /\ presenceByID' = [presenceByID EXCEPT ![u] = seat]
        <4>1. players'[seat].user = u /\ presenceByID'[u] = seat
          BY <2>1, <3>2 DEF IInv, TypeOK, Free
        <4>2. ASSUME NEW other \in Seats, other # seat, Taken(other)'
              PROVE  presenceByID'[players'[other].user] = other
          <5>1. players'[other] = players[other]
            BY <3>2, <4>2 DEF IInv, TypeOK
          <5>2. Taken(other) /\ presenceByID[players[other].user] = other
            BY <4>2, <5>1 DEF Taken, IInv, Seated
          <5>3. players[other].user # u /\ players[other].user \in Users
            BY <3>2, <5>2, LiveMatchAssumption DEF Taken, IInv, TypeOK, Seats
          <5> HIDE DEF u, seat
          <5> QED
            BY <3>2, <5>1, <5>2, <5>3 DEF IInv, TypeOK
        <4> QED
          BY <4>1, <4>2 DEF Seated
      <3> QED
        BY <2>2, <3>1, <3>2
    <2>9. OverMeansIdle'
      BY <1>3, <2>3 DEF MatchJoin, OverMeansIdle
    <2> QED
      BY <2>3, <2>7, <2>8, <2>9, SamePaid DEF IInv
  <1>4. ASSUME NEW s \in Sessions, MatchLeave(s) PROVE IInv'
    <2> DEFINE u == UserOf[s]
               seat == presenceByID[u]
    <2>1. u \in Users
      BY LiveMatchAssumption
    <2>2. UNCHANGED <<pc, started, age, armies, pending, starters, stopped>>
          /\ tracked' = tracked \ {s} /\ pc = "idle"
      BY <1>4 DEF MatchLeave
    <2>3. CASE finished \/ seat = NoSeat
      <3>1. UNCHANGED <<players, presenceByID, finished, status, paid, told>>
        BY <1>4, <2>3 DEF MatchLeave, Undecided
      <3> QED
        BY <2>2, <3>1, SamePaid DEF IInv, TypeOK, Seated, Taken, OverMeansIdle
    <2>4. CASE ~finished /\ seat # NoSeat
      <3>1. /\ presenceByID' = [presenceByID EXCEPT ![u] = NoSeat]
            /\ players' = [players EXCEPT ![seat] = Free]
            /\ \/ Finish(ForfeitStatus(seat))
               \/ finished' \in BOOLEAN /\ UNCHANGED <<status, paid, told>>
        BY <1>4, <2>4 DEF MatchLeave, Undecided
      <3>2. seat \in Seats
        BY <2>1, <2>4 DEF IInv, TypeOK
      <3>3. /\ players' \in [Seats -> [user : Users \cup {NoUser}, nextSeq : Nat]]
            /\ presenceByID' \in [Users -> Seats \cup {NoSeat}]
        <4> HIDE DEF u, seat
        <4> QED
          BY <3>1, <3>2, FreeTyped DEF IInv, TypeOK
      <3>4. Seated'
        <4> SUFFICES ASSUME NEW other \in Seats, Taken(other)'
                     PROVE  presenceByID'[players'[other].user] = other
          BY DEF Seated
        <4>1. other # seat /\ players'[other] = players[other]
          BY <3>1, <3>2 DEF IInv, TypeOK, Taken, Free
        <4>2. Taken(other) /\ presenceByID[players[other].user] = other
          BY <4>1 DEF Taken, IInv, Seated
        <4>3. players[other].user # u /\ players[other].user \in Users
          BY <4>1, <4>2 DEF Taken, IInv, TypeOK
        <4> HIDE DEF u, seat
        <4> QED
          BY <3>1, <4>1, <4>2, <4>3 DEF IInv, TypeOK
      <3>5. /\ finished' \in BOOLEAN /\ status' \in Results \cup {"playing"}
            /\ paid' \in [Users -> Outcome] /\ told' \in [Users -> Answer]
            /\ Unpaid' /\ ResultsAgree'
        <4>1. CASE Finish(ForfeitStatus(seat))
          <5>1. ForfeitStatus(seat) \in Results
            BY DEF ForfeitStatus, Results
          <5>2. finished' = TRUE /\ status' = ForfeitStatus(seat)
                /\ FinishSettlements(ForfeitStatus(seat))
            BY <4>1 DEF Finish
          <5> HIDE DEF u, seat
          <5> QED
            BY <2>4, <5>1, <5>2, FinishPays DEF Unpaid
        <4>2. CASE finished' \in BOOLEAN /\ UNCHANGED <<status, paid, told>>
          BY <2>4, <4>2 DEF IInv, TypeOK, Unpaid, ResultsAgree, Outcome, Answer
        <4> QED
          BY <3>1, <4>1, <4>2
      <3> QED
        BY <2>2, <3>3, <3>4, <3>5 DEF IInv, TypeOK, OverMeansIdle, Outcome, Answer
    <2> QED
      BY <2>3, <2>4
  <1>5. CASE LoopBegin
    <2>1. age' \in 0..(MaxMatchTime + 1)
      BY <1>5, LiveMatchAssumption DEF LoopBegin, IInv, TypeOK
    <2> QED
      BY <1>5, <2>1, SamePaid DEF LoopBegin, IInv, TypeOK, Seated, Taken, OverMeansIdle
  <1>6. ASSUME NEW u \in Users, NEW seq \in 0..MaxActions, Dispatch(u, seq) PROVE IInv'
    <2> DEFINE seat == presenceByID[u]
    <2>1. seat \in Seats /\ players[seat].nextSeq \in Nat /\ seq \in Nat
      BY <1>6 DEF Dispatch, IInv, TypeOK
    <2>2. /\ players' = [players EXCEPT ![seat].nextSeq = @ + 1]
          /\ armies' = Append(armies, [user |-> u, seat |-> seat, seq |-> seq])
          /\ UNCHANGED <<pc, presenceByID, started, finished, age, status, paid, told, pending,
                         tracked, starters, stopped>>
      BY <1>6 DEF Dispatch
    <2> HIDE DEF seat
    <2>3. [user |-> u, seat |-> seat, seq |-> seq] \in [user : Users, seat : Seats, seq : Nat]
      BY <2>1
    <2>4. armies' \in Seq([user : Users, seat : Seats, seq : Nat])
      BY <2>2, <2>3 DEF IInv, TypeOK
    <2>5. players' \in [Seats -> [user : Users \cup {NoUser}, nextSeq : Nat]]
          /\ \A other \in Seats : players'[other].user = players[other].user
      BY <2>1, <2>2 DEF IInv, TypeOK
    <2> QED
      BY <2>2, <2>4, <2>5, SamePaid DEF IInv, TypeOK, Seated, Taken, OverMeansIdle
  <1>7. CASE LoopEnd
    <2>1. UNCHANGED <<players, presenceByID, started, age, armies, pending, tracked, starters, stopped>>
          /\ pc = "draining" /\ pc' = "idle" /\ ~finished
      BY <1>7 DEF LoopEnd, IInv, OverMeansIdle
    <2>2. PlayOn \/ \E st \in Results : Finish(st)
      BY <1>7 DEF LoopEnd, Results
    <2>3. CASE PlayOn
      BY <2>1, <2>3, SamePaid DEF PlayOn, IInv, TypeOK, Seated, Taken, OverMeansIdle
    <2>4. ASSUME NEW st \in Results, Finish(st) PROVE IInv'
      <3>1. finished' = TRUE /\ status' = st /\ FinishSettlements(st)
        BY <2>4 DEF Finish
      <3>2. paid' \in [Users -> Outcome] /\ told' \in [Users -> Answer] /\ ResultsAgree'
        BY <2>1, <3>1, FinishPays
      <3> QED
        BY <2>1, <3>1, <3>2 DEF IInv, TypeOK, Seated, Taken, Unpaid, OverMeansIdle, Outcome, Answer
    <2> QED
      BY <2>2, <2>3, <2>4
  <1>8. CASE Crash
    BY <1>8, SamePaid DEF Crash, IInv, TypeOK, Seated, Taken, OverMeansIdle
  <1> QED
    BY <1>1, <1>2, <1>3, <1>4, <1>5, <1>6, <1>7, <1>8 DEF Next

(* Every state of the specification satisfies the inductive invariant.     *)
THEOREM Invariance == Spec => []IInv
  BY InitInv, NextInv, PTL DEF Spec

(* Every variable keeps its type.                                          *)
THEOREM TypeCorrect == Spec => []TypeOK
  <1>1. IInv => TypeOK
    BY DEF IInv
  <1> QED
    BY <1>1, Invariance, PTL

(* The stored results of two players fit each other, and nobody is told    *)
(* another result than the stored one, in ranked and invite matches alike. *)
THEOREM ResultsCorrect == Spec => []ResultsAgree
  <1>1. IInv => ResultsAgree
    BY DEF IInv
  <1> QED
    BY <1>1, Invariance, PTL

(* Nothing is paid before or after the step that finishes the match, and   *)
(* the status does not change after it.                                    *)
THEOREM FinalCorrect == Spec => ResultIsFinal
  <1> DEFINE Final == /\ finished => paid' = paid /\ status' = status
                      /\ paid' # paid => finished' /\ started
  <1>1. ASSUME IInv, [Next]_vars PROVE [Final]_vars
    <2>1. CASE UNCHANGED vars
      BY <2>1
    <2>2. ASSUME NEW s \in Sessions, MatchJoinAttempt(s) \/ MatchJoin(s) PROVE Final
      BY <2>2 DEF MatchJoinAttempt, MatchJoin
    <2>3. ASSUME NEW s \in Sessions, MatchLeave(s) PROVE Final
      BY <2>3 DEF MatchLeave, Undecided, Finish
    <2>4. ASSUME NEW u \in Users, NEW seq \in 0..MaxActions, Dispatch(u, seq) PROVE Final
      BY <2>4 DEF Dispatch
    <2>5. CASE LoopBegin \/ Crash
      BY <2>5 DEF LoopBegin, Crash
    <2>6. CASE LoopEnd
      BY <1>1, <2>6 DEF LoopEnd, Finish, PlayOn, IInv, OverMeansIdle
    <2> QED
      BY <1>1, <2>1, <2>2, <2>3, <2>4, <2>5, <2>6 DEF Next
  <1> QED
    BY <1>1, Invariance, PTL DEF Spec, ResultIsFinal

-----------------------------------------------------------------------------
(* A ranked match, with two allowed users: whoever holds a seat is one of  *)
(* them, so once both are seated no join can take a seat, and the running  *)
(* match has its starters in its seats.                                    *)
Ranked == \E a, b \in Users : Allowed \subseteq {a, b}

(* A known user sits on his seat.                                          *)
Known == \A u \in Users : presenceByID[u] # NoSeat => players[presenceByID[u]].user = u

Invited ==
  /\ \A u \in Users : presenceByID[u] # NoSeat => u \in Allowed
  /\ \A s \in pending : UserOf[s] \in Allowed

BothSeated == Taken(0) /\ Taken(1) /\ starters = {players[0].user, players[1].user}

Running == started /\ ~finished => BothSeated

(* What an accepted dispatch has to do with the seat it came from.         *)
OfItsSeat(k) ==
  /\ armies[k].user = players[armies[k].seat].user
  /\ armies[k].seq < players[armies[k].seat].nextSeq

Commands == started /\ ~finished => \A k \in DOMAIN armies : OfItsSeat(k)

Unstarted == ~started => armies = <<>> /\ \A u \in Users : paid[u] = NoResult

PairInv == Known /\ Invited /\ Running /\ Commands /\ Unstarted /\ RankedPairIsKept

(* finishSettlements pays who sits, by his seat.                           *)
LEMMA SeatsArePaid ==
  ASSUME IInv, ~finished, NEW st \in Results, FinishSettlements(st), NEW u \in Users
  PROVE  paid'[u] = NoResult \/ \E seat \in Seats : /\ players[seat].user = u
                                                   /\ paid'[u] = StatusForRole(st, seat)
  <1>1. PICK reply \in [Seats -> {"ok", "failed", "lost"}] :
          LET Settled(v, seat) == v = players[seat].user /\ reply[seat] # "failed"
              Row(v) == IF paid[v] # NoResult \/ ~\E seat \in Seats : Settled(v, seat) THEN paid[v]
                        ELSE StatusForRole(st, CHOOSE seat \in Seats : Settled(v, seat))
          IN paid' = [v \in Users |-> Row(v)]
    BY DEF FinishSettlements
  <1>2. paid[u] = NoResult
    BY DEF IInv, Unpaid
  <1> DEFINE Settled(v, seat) == v = players[seat].user /\ reply[seat] # "failed"
             At == CHOOSE seat \in Seats : Settled(u, seat)
  <1>3. IF \E seat \in Seats : Settled(u, seat)
          THEN At \in Seats /\ Settled(u, At) /\ paid'[u] = StatusForRole(st, At)
          ELSE paid'[u] = NoResult
    BY <1>1, <1>2
  <1> QED
    BY <1>3

LEMMA PairInit == Init => PairInv
  BY DEF Init, PairInv, Known, Invited, Running, Commands, Unstarted, RankedPairIsKept

(* While the seats and the match stay as they are, so does the invariant.  *)
LEMMA SamePair ==
  ASSUME PairInv, UNCHANGED <<players, presenceByID, started, finished, armies, paid, starters>>,
         \A s \in pending' : UserOf[s] \in Allowed
  PROVE  PairInv'
  BY DEF PairInv, Known, Invited, Running, BothSeated, Taken, Commands, OfItsSeat,
     Unstarted, RankedPairIsKept

(* So it does when the match ends: nobody but a starter is paid.           *)
LEMMA EndKeepsPair ==
  ASSUME IInv, PairInv, started, ~finished, NEW st \in Results, Finish(st),
         Known', Invited', UNCHANGED <<started, armies, starters>>
  PROVE  PairInv'
  <1>1. \A u \in Users : paid'[u] # NoResult => u \in starters
    <2> SUFFICES ASSUME NEW u \in Users, paid'[u] # NoResult PROVE u \in starters
      OBVIOUS
    <2>1. PICK seat \in Seats : players[seat].user = u
      BY SeatsArePaid DEF Finish
    <2> QED
      BY <2>1 DEF PairInv, Running, BothSeated, Seats
  <1>2. finished'
    BY DEF Finish
  <1>3. Running' /\ Commands' /\ Unstarted'
    BY <1>2 DEF Running, Commands, Unstarted
  <1> QED
    BY <1>1, <1>3 DEF PairInv, RankedPairIsKept

LEMMA PairStep ==
  ASSUME Ranked, IInv, IInv', PairInv, [Next]_vars
  PROVE  PairInv'
  <1>t. /\ players \in [Seats -> [user : Users \cup {NoUser}, nextSeq : Nat]]
        /\ presenceByID \in [Users -> Seats \cup {NoSeat}]
        /\ \A k \in DOMAIN armies : armies[k] \in [user : Users, seat : Seats, seq : Nat]
        /\ armies \in Seq([user : Users, seat : Seats, seq : Nat])
        /\ 0 \in Seats /\ 1 \in Seats /\ NoUser \notin Users /\ NoSeat \notin Seats
    <2>1. 0 \in Seats /\ 1 \in Seats /\ NoUser \notin Users /\ NoSeat \notin Seats
      BY LiveMatchAssumption DEF Seats
    <2>2. armies \in Seq([user : Users, seat : Seats, seq : Nat])
      BY DEF IInv, TypeOK
    <2>3. \A k \in DOMAIN armies : armies[k] \in [user : Users, seat : Seats, seq : Nat]
      <3> DEFINE A == [user : Users, seat : Seats, seq : Nat]
      <3>1. armies \in Seq(A)
        BY <2>2
      <3> HIDE DEF A
      <3>2. \A k \in DOMAIN armies : armies[k] \in A
        BY <3>1
      <3> QED
        BY <3>2 DEF A
    <2> QED
      BY <2>1, <2>2, <2>3 DEF IInv, TypeOK
  <1>i. \A s \in pending : UserOf[s] \in Allowed
    BY DEF PairInv, Invited
  <1>1. CASE UNCHANGED vars
    BY <1>1, <1>i, SamePair DEF vars
  <1>2. ASSUME NEW s \in Sessions, MatchJoinAttempt(s) PROVE PairInv'
    <2>1. UserOf[s] \in Users
      BY LiveMatchAssumption
    <2>2. UserOf[s] \in Allowed
      BY <1>2, <2>1 DEF MatchJoinAttempt, Admits, PairInv, Invited
    <2> QED
      BY <1>2, <1>i, <2>2, SamePair DEF MatchJoinAttempt
  <1>3. ASSUME NEW s \in Sessions, MatchJoin(s) PROVE PairInv'
    <2> DEFINE u == UserOf[s]
               seat == IF Taken(0) THEN 1 ELSE 0
    <2>1. u \in Users /\ u \in Allowed /\ seat \in Seats
      BY <1>3, <1>i, <1>t, LiveMatchAssumption DEF MatchJoin
    <2>2. UNCHANGED <<finished, armies, paid>> /\ pending' = pending \ {s}
      BY <1>3 DEF MatchJoin
    <2>3. IF ~started /\ players'[0].user # NoUser /\ players'[1].user # NoUser
            THEN started' = TRUE /\ starters' = {players'[0].user, players'[1].user}
            ELSE UNCHANGED <<started, starters>>
      BY <1>3 DEF MatchJoin
    <2>4. \/ UNCHANGED <<players, presenceByID>>
          \/ /\ presenceByID[u] = NoSeat
             /\ players' = [players EXCEPT ![seat] = [Free EXCEPT !.user = u]]
             /\ presenceByID' = [presenceByID EXCEPT ![u] = seat]
      BY <1>3 DEF MatchJoin, Unknown
    <2> HIDE DEF u
    <2>5. Taken(0) /\ Taken(1) => presenceByID[u] # NoSeat
      <3> SUFFICES ASSUME Taken(0), Taken(1) PROVE presenceByID[u] # NoSeat
        OBVIOUS
      <3>1. /\ presenceByID[players[0].user] = 0 /\ presenceByID[players[1].user] = 1
            /\ players[0].user \in Users /\ players[1].user \in Users
        BY <1>t DEF IInv, Seated, Taken
      <3>2. players[0].user \in Allowed /\ players[1].user \in Allowed
        BY <1>t, <3>1 DEF PairInv, Invited
      <3>3. players[0].user # players[1].user
        BY <3>1
      <3>4. u \in {players[0].user, players[1].user}
        BY <2>1, <3>2, <3>3 DEF Ranked
      <3> QED
        BY <1>t, <3>1, <3>4
    <2>6. presenceByID[u] = NoSeat => ~Taken(seat)
      BY <2>5
    <2>7. Known' /\ Invited'
      <3>1. CASE UNCHANGED <<players, presenceByID>>
        BY <1>i, <2>2, <3>1 DEF PairInv, Known, Invited
      <3>2. CASE /\ presenceByID[u] = NoSeat
                 /\ players' = [players EXCEPT ![seat] = [Free EXCEPT !.user = u]]
                 /\ presenceByID' = [presenceByID EXCEPT ![u] = seat]
        <4>1. players'[seat].user = u /\ presenceByID'[u] = seat
          BY <1>t, <2>1, <3>2 DEF Free
        <4>2. ASSUME NEW v \in Users, v # u, presenceByID'[v] # NoSeat
              PROVE  players'[presenceByID'[v]].user = v /\ v \in Allowed
          <5>1. presenceByID'[v] = presenceByID[v] /\ presenceByID[v] \in Seats
            BY <1>t, <2>1, <3>2, <4>2
          <5>2. players[presenceByID[v]].user = v /\ v \in Allowed
            BY <4>2, <5>1 DEF PairInv, Known, Invited
          <5>3. presenceByID[v] # seat
            BY <1>t, <2>6, <3>2, <5>2 DEF Taken
          <5>4. players'[presenceByID[v]] = players[presenceByID[v]]
            BY <1>t, <3>2, <5>1, <5>3
          <5> QED
            BY <5>1, <5>2, <5>4
        <4> QED
          BY <1>i, <2>1, <2>2, <4>1, <4>2 DEF Known, Invited
      <3> QED
        BY <2>4, <3>1, <3>2
    <2>8. CASE started
      <3>1. started' /\ starters' = starters
        BY <2>3, <2>8
      <3>2. finished \/ UNCHANGED <<players, presenceByID>>
        BY <2>4, <2>5, <2>8 DEF PairInv, Running, BothSeated
      <3> QED
        BY <2>2, <2>7, <2>8, <3>1, <3>2
        DEF PairInv, Running, BothSeated, Taken, Commands, OfItsSeat, Unstarted, RankedPairIsKept
    <2>9. CASE ~started
      <3>1. armies' = <<>> /\ \A v \in Users : paid'[v] = NoResult
        BY <2>2, <2>9 DEF PairInv, Unstarted
      <3>2. DOMAIN armies' = {}
        BY <3>1
      <3>3. Running'
        BY <2>3, <2>9 DEF Running, BothSeated, Taken
      <3>4. Commands' /\ Unstarted' /\ RankedPairIsKept'
        BY <3>1, <3>2 DEF Commands, Unstarted, RankedPairIsKept
      <3> QED
        BY <2>7, <3>3, <3>4 DEF PairInv
    <2> QED
      BY <2>8, <2>9
  <1>4. ASSUME NEW s \in Sessions, MatchLeave(s) PROVE PairInv'
    <2> DEFINE u == UserOf[s]
               seat == presenceByID[u]
    <2>1. u \in Users /\ UNCHANGED <<started, armies, pending, starters>>
      BY <1>4, LiveMatchAssumption DEF MatchLeave
    <2>2. CASE finished \/ seat = NoSeat
      BY <1>4, <1>i, <2>2, SamePair DEF MatchLeave, Undecided
    <2>3. CASE ~finished /\ seat # NoSeat
      <3>1. /\ presenceByID' = [presenceByID EXCEPT ![u] = NoSeat]
            /\ players' = [players EXCEPT ![seat] = Free]
            /\ IF started /\ Taken(seat)
                 THEN Finish(ForfeitStatus(seat))
                 ELSE UNCHANGED <<status, paid, told>>
        BY <1>4, <2>3 DEF MatchLeave, Undecided
      <3>2. seat \in Seats /\ players[seat].user = u /\ Taken(seat)
        BY <1>t, <2>1, <2>3 DEF PairInv, Known, Taken
      <3>3. ForfeitStatus(seat) \in Results
        BY DEF ForfeitStatus, Results
      <3> HIDE DEF seat, u
      <3>4. ASSUME NEW v \in Users, presenceByID'[v] # NoSeat
            PROVE  players'[presenceByID'[v]].user = v /\ v \in Allowed
        <4>1. v # u /\ presenceByID'[v] = presenceByID[v] /\ presenceByID[v] \in Seats
          BY <1>t, <2>1, <3>1, <3>4
        <4>2. players[presenceByID[v]].user = v /\ v \in Allowed
          BY <3>4, <4>1 DEF PairInv, Known, Invited
        <4>3. presenceByID[v] # seat
          BY <3>2, <4>1, <4>2
        <4>4. players'[presenceByID[v]] = players[presenceByID[v]]
          BY <1>t, <3>1, <4>1, <4>3
        <4> QED
          BY <4>1, <4>2, <4>4
      <3>5. Known' /\ Invited'
        BY <1>i, <2>1, <3>4 DEF Known, Invited
      <3>6. CASE started
        BY <2>1, <2>3, <3>1, <3>2, <3>3, <3>5, <3>6, EndKeepsPair
      <3>7. CASE ~started
        <4>1. paid' = paid /\ armies' = armies /\ ~started'
          BY <2>1, <3>1, <3>7
        <4> QED
          BY <2>1, <3>5, <3>7, <4>1 DEF PairInv, Running, Commands, Unstarted, RankedPairIsKept
      <3> QED
        BY <3>6, <3>7
    <2> QED
      BY <2>2, <2>3
  <1>5. CASE LoopBegin \/ Crash
    BY <1>5, <1>i, SamePair DEF LoopBegin, Crash
  <1>6. ASSUME NEW u \in Users, NEW seq \in 0..MaxActions, Dispatch(u, seq) PROVE PairInv'
    <2> DEFINE seat == presenceByID[u]
               a == [user |-> u, seat |-> seat, seq |-> seq]
               n == Len(armies)
    <2>1. /\ seat \in Seats /\ seq = players[seat].nextSeq
          /\ players' = [players EXCEPT ![seat].nextSeq = @ + 1]
          /\ armies' = Append(armies, a)
          /\ UNCHANGED <<pc, presenceByID, started, finished, paid, pending, starters>>
          /\ started /\ ~finished
      BY <1>6, <1>t DEF Dispatch, InSequence, IInv, OverMeansIdle
    <2>2. a.user = u /\ a.seat = seat /\ a.seq = seq /\ players[seat].user = u
      BY <2>1, LiveMatchAssumption DEF PairInv, Known, Seats
    <2> HIDE DEF seat, a
    <2>3. /\ \A other \in Seats : players'[other].user = players[other].user
          /\ \A other \in Seats : players[other].nextSeq <= players'[other].nextSeq
          /\ players'[seat].nextSeq = seq + 1 /\ seq \in Nat
          /\ \A other \in Seats : players[other].nextSeq \in Nat /\ players'[other].nextSeq \in Nat
      BY <1>t, <2>1
    <2>4. /\ n \in Nat /\ DOMAIN armies = 1..n /\ DOMAIN armies' = 1..(n + 1)
          /\ armies'[n + 1] = a /\ \A k \in 1..n : armies'[k] = armies[k]
      BY <1>t, <2>1
    <2> HIDE DEF n
    <2>5. \A k \in 1..(n + 1) : k = n + 1 \/ k \in 1..n
      BY <2>4
    <2>6. ASSUME NEW k \in 1..n
          PROVE  OfItsSeat(k)' /\ OfItsSeat(k)
      <3>1. /\ armies[k].user = players[armies[k].seat].user
            /\ armies[k].seq < players[armies[k].seat].nextSeq
            /\ armies[k].seat \in Seats /\ armies[k].seq \in Nat
            /\ armies'[k] = armies[k]
        BY <1>t, <2>1, <2>4 DEF PairInv, Commands, OfItsSeat
      <3>2. armies[k].seq < players'[armies[k].seat].nextSeq
        BY <2>3, <3>1
      <3> QED
        BY <2>3, <3>1, <3>2 DEF OfItsSeat
    <2>7. ASSUME NEW k, k = n + 1 PROVE OfItsSeat(k)'
      <3>1. seq < players'[seat].nextSeq
        BY <2>3
      <3> QED
        BY <2>1, <2>2, <2>3, <2>4, <2>7, <3>1 DEF OfItsSeat
    <2>8. Commands'
      BY <2>4, <2>5, <2>6, <2>7 DEF Commands
    <2>9. ASSUME NEW k \in 1..n, a.seat = armies[k].seat
          PROVE  armies[k].seq # a.seq /\ armies[k].user = a.user
      <3>1. armies[k].seq < seq /\ armies[k].user = u /\ armies[k].seq \in Nat
        BY <1>t, <2>1, <2>2, <2>4, <2>6, <2>9 DEF OfItsSeat
      <3> QED
        BY <2>2, <2>3, <3>1
    <2>10. \A j, k \in 1..(n + 1) : j # k /\ armies'[j].seat = armies'[k].seat =>
             armies'[j].seq # armies'[k].seq /\ armies'[j].user = armies'[k].user
      <3> SUFFICES ASSUME NEW j \in 1..(n + 1), NEW k \in 1..(n + 1), j # k,
                          armies'[j].seat = armies'[k].seat
                   PROVE  armies'[j].seq # armies'[k].seq /\ armies'[j].user = armies'[k].user
        OBVIOUS
      <3>1. CASE j \in 1..n /\ k \in 1..n
        BY <2>4, <3>1 DEF PairInv, RankedPairIsKept
      <3>2. CASE j = n + 1 /\ k \in 1..n
        BY <2>4, <2>9, <3>2
      <3>3. CASE j \in 1..n /\ k = n + 1
        BY <2>4, <2>9, <3>3
      <3> QED
        BY <2>5, <3>1, <3>2, <3>3
    <2>11. RankedPairIsKept'
      BY <2>1, <2>4, <2>10 DEF PairInv, RankedPairIsKept
    <2>12. Known' /\ Invited' /\ Running' /\ Unstarted'
      BY <1>i, <1>t, <2>1, <2>3
      DEF PairInv, Known, Invited, Running, BothSeated, Taken, Unstarted
    <2> QED
      BY <2>8, <2>11, <2>12 DEF PairInv
  <1>7. CASE LoopEnd
    <2>1. /\ UNCHANGED <<players, presenceByID, started, armies, pending, starters>>
          /\ started /\ ~finished
      BY <1>7 DEF LoopEnd, IInv, OverMeansIdle
    <2>2. PlayOn \/ \E st \in Results : Finish(st)
      BY <1>7 DEF LoopEnd, Results
    <2>3. CASE PlayOn
      BY <1>i, <2>1, <2>3, SamePair DEF PlayOn
    <2>4. Known' /\ Invited'
      BY <2>1 DEF PairInv, Known, Invited
    <2> QED
      BY <2>1, <2>2, <2>3, <2>4, EndKeepsPair
  <1> QED
    BY <1>1, <1>2, <1>3, <1>4, <1>5, <1>6, <1>7 DEF Next

(* In a ranked match the pair's invariant is kept as well.                 *)
THEOREM PairInvariance == Ranked => (Spec => []PairInv)
  <1> SUFFICES ASSUME Ranked PROVE Spec => []PairInv
    OBVIOUS
  <1>1. IInv /\ IInv' /\ PairInv /\ [Next]_vars => PairInv'
    BY PairStep
  <1> QED
    BY <1>1, Invariance, PairInit, PTL DEF Spec

(* A ranked match belongs to its two starters, whatever sessions join, and *)
(* no two armies of a role share an id: a seat that is taken stays its     *)
(* user's until the match is over.                                         *)
THEOREM PairCorrect == Ranked => (Spec => []RankedPairIsKept)
  <1>1. PairInv => RankedPairIsKept
    BY DEF PairInv
  <1> QED
    BY <1>1, PairInvariance, PTL

(* In a ranked match whoever leaves while it runs is stored a defeat, if   *)
(* anything, and the other starter a victory.                              *)
THEOREM LeaveCorrect == Ranked => (Spec => LeaverLoses)
  <1> DEFINE Loses == \A u \in Users :
               presenceByID[u] # NoSeat /\ presenceByID'[u] = NoSeat /\ started =>
                 /\ paid'[u] \in {NoResult, "defeat"}
                 /\ \A v \in starters \ {u} : paid'[v] \in {NoResult, "victory"}
  <1>1. ASSUME IInv, PairInv, [Next]_vars PROVE Loses
    <2>1. CASE presenceByID' = presenceByID
      BY <2>1
    <2>2. ASSUME NEW s \in Sessions, MatchJoin(s) PROVE Loses
      <3>0. NoSeat \notin Seats
        BY LiveMatchAssumption DEF Seats
      <3>1. UserOf[s] \in Users /\ presenceByID \in [Users -> Seats \cup {NoSeat}]
        BY <1>1, LiveMatchAssumption DEF IInv, TypeOK
      <3>2. \/ presenceByID' = presenceByID
            \/ \E seat \in Seats : presenceByID' = [presenceByID EXCEPT ![UserOf[s]] = seat]
        BY <2>2 DEF MatchJoin, Seats
      <3> QED
        BY <3>0, <3>1, <3>2
    <2>3. ASSUME NEW s \in Sessions, MatchLeave(s), presenceByID' # presenceByID PROVE Loses
      <3> DEFINE u == UserOf[s]
                 seat == presenceByID[u]
      <3>1. /\ u \in Users /\ seat # NoSeat /\ ~finished
            /\ presenceByID' = [presenceByID EXCEPT ![u] = NoSeat]
            /\ started /\ Taken(seat) => Finish(ForfeitStatus(seat))
        BY <2>3, LiveMatchAssumption DEF MatchLeave, Undecided
      <3>2. /\ seat \in Seats /\ players[seat].user = u /\ Taken(seat)
            /\ presenceByID \in [Users -> Seats \cup {NoSeat}]
        BY <1>1, <3>1, LiveMatchAssumption DEF IInv, TypeOK, PairInv, Known, Taken
      <3> HIDE DEF u, seat
      <3>3. \A v \in Users : presenceByID[v] # NoSeat /\ presenceByID'[v] = NoSeat => v = u
        BY <3>1, <3>2
      <3>4. ASSUME started, NEW v \in Users
            PROVE  paid'[v] = NoResult \/ \E other \in Seats :
                     players[other].user = v /\ paid'[v] = StatusForRole(ForfeitStatus(seat), other)
        <4>1. ForfeitStatus(seat) \in Results /\ FinishSettlements(ForfeitStatus(seat))
          BY <3>1, <3>2, <3>4 DEF ForfeitStatus, Results, Finish
        <4> QED
          BY <1>1, <3>1, <4>1, SeatsArePaid
      <3>5. StatusForRole(ForfeitStatus(seat), seat) = "defeat"
        BY <3>2 DEF StatusForRole, ForfeitStatus, Seats
      <3>6. \A other \in Seats : other # seat =>
              StatusForRole(ForfeitStatus(seat), other) = "victory"
        BY <3>2 DEF StatusForRole, ForfeitStatus, Seats
      <3>7. \A other \in Seats : players[other].user = u => other = seat
        BY <1>1, <3>1, <3>2, LiveMatchAssumption DEF IInv, Seated, Taken
      <3>8. ASSUME started PROVE paid'[u] \in {NoResult, "defeat"}
        BY <3>1, <3>4, <3>5, <3>7, <3>8
      <3>9. ASSUME started, NEW v \in Users, v # u PROVE paid'[v] \in {NoResult, "victory"}
        BY <3>2, <3>4, <3>6, <3>9
      <3>10. starters \subseteq Users
        BY <1>1 DEF IInv, TypeOK
      <3> QED
        BY <3>3, <3>8, <3>9, <3>10
    <2> QED
      BY <1>1, <2>1, <2>2, <2>3
      DEF Next, MatchJoinAttempt, Dispatch, LoopBegin, LoopEnd, Crash, vars
  <1> QED
    BY <1>1, Invariance, PairInvariance, PTL DEF Spec, LeaverLoses

-----------------------------------------------------------------------------
(* The time limit.                                                         *)

InTime == ~finished => age <= (IF pc = "idle" THEN MaxMatchTime ELSE MaxMatchTime + 1)

(* Between two callbacks an undecided match is within its time limit,      *)
(* whatever its players do: the loop that finds the time up decides it, a  *)
(* loop that waits for seats to be taken does not count, and no leave or   *)
(* late join lets a match live on undecided.  It is what PlayEnds needs    *)
(* besides fair loops.                                                     *)
THEOREM TimeCorrect == Spec => [](pc = "idle" /\ ~finished => age <= MaxMatchTime)
  <1>1. Init => InTime
    BY LiveMatchAssumption DEF Init, InTime
  <1>2. IInv /\ InTime /\ [Next]_vars => InTime'
    <2> SUFFICES ASSUME IInv, InTime, [Next]_vars PROVE InTime'
      OBVIOUS
    <2>0. age \in Int /\ MaxMatchTime \in Int /\ pc \in {"idle", "draining"}
      BY LiveMatchAssumption DEF IInv, TypeOK
    <2>1. CASE LoopBegin
      BY <2>0, <2>1 DEF LoopBegin, InTime
    <2>2. CASE LoopEnd
      <3>1. age' = age /\ pc' = "idle" /\ (finished' \/ ~TimeIsUp)
        BY <2>2 DEF LoopEnd, Finish, PlayOn
      <3> QED BY <2>0, <3>1 DEF InTime, TimeIsUp
    <2>3. ASSUME NEW s \in Sessions, MatchJoinAttempt(s) \/ MatchJoin(s) \/ MatchLeave(s)
          PROVE  InTime'
      <3>1. pc' = pc /\ age' = age /\ (finished => finished')
        BY <2>3 DEF MatchJoinAttempt, MatchJoin, MatchLeave, Finish, Undecided
      <3> QED BY <3>1 DEF InTime
    <2>4. CASE \/ Crash \/ UNCHANGED vars
               \/ \E u \in Users, seq \in 0..MaxActions : Dispatch(u, seq)
      <3>1. pc' = pc /\ age' = age /\ finished' = finished
        BY <2>4 DEF Crash, Dispatch, vars
      <3> QED BY <3>1 DEF InTime
    <2> QED BY <2>1, <2>2, <2>3, <2>4 DEF Next
  <1>3. InTime => (pc = "idle" /\ ~finished => age <= MaxMatchTime)
    BY DEF InTime
  <1> QED BY <1>1, <1>2, <1>3, Invariance, PTL DEF Spec
=============================================================================
