------------------------------- MODULE LiveMatch -------------------------------
(***************************************************************************)
(* The authoritative duel handler of apps/server-nakama/live.go.           *)
(*                                                                         *)
(* Unlike the team handler it knows users, not sessions: a second session  *)
(* of a seated user is let in and ignored, and any session of the user     *)
(* that leaves gives the seat up.  A leave in mid match is a forfeit;      *)
(* every player is settled on its own, once, without a retry.              *)
(*                                                                         *)
(* Callbacks do not interleave; MatchLoop is split into LoopBegin, the     *)
(* messages and LoopEnd, and pc keeps the other callbacks out.  An         *)
(* accepted MatchJoinAttempt and its MatchJoin are two calls.              *)
(***************************************************************************)
EXTENDS Integers, Sequences

CONSTANTS
  Users, Sessions, UserOf,
  Allowed,          \* allowed_users of a ranked match, or who has the invite code
  NoUser, NoSeat, NoResult,
  MaxMatchTime,     \* liveMaxMatchTime, in ticks
  MaxActions        \* bound of the model only

ASSUME LiveMatchAssumption ==
  /\ UserOf \in [Sessions -> Users] /\ Allowed \subseteq Users
  /\ NoUser \notin Users /\ NoSeat \notin {0, 1}
  /\ NoResult \notin {"victory", "defeat", "draw"}
  /\ MaxMatchTime \in Nat /\ MaxActions \in Nat

VARIABLES
  pc,                \* "idle" between callbacks, "draining" inside MatchLoop
  players,           \* who has each seat; seat 0 plays the role "player"
  presenceByID,      \* the seat of every user the handler knows
  started, finished,
  age,               \* ticks since startedAt
  status,            \* the simulation's status, seen from seat 0
  armies,            \* the accepted dispatches, each with its army's id
  paid,              \* the stored settlement of every user
  told,              \* the match_result or error a user was sent
  pending, tracked,  \* accepted join attempts; sessions that joined
  starters,          \* who was sent match_started
  stopped            \* the match process is gone

vars == <<pc, players, presenceByID, started, finished, age, status, armies, paid, told,
          pending, tracked, starters, stopped>>

Seats == {0, 1}
FromMinusOne == [user |-> NoUser, nextSeq |-> -1]                   \* mutant
Free == [user |-> NoUser, nextSeq |-> 0]
Taken(seat) == players[seat].user # NoUser

Init ==
  /\ pc = "idle"
  /\ players = [seat \in Seats |-> Free]
  /\ presenceByID = [u \in Users |-> NoSeat]
  /\ started = FALSE /\ finished = FALSE /\ age = 0 /\ status = "playing"
  /\ armies = <<>>
  /\ paid = [u \in Users |-> NoResult]
  /\ told = [u \in Users |-> NoResult]
  /\ pending = {} /\ tracked = {} /\ starters = {}
  /\ stopped = FALSE

-----------------------------------------------------------------------------
(* statusForRole, canonicalForfeitStatus and finishSettlements.            *)

SameForBoth(st, seat) == st                                         \* mutant
StatusForRole(st, seat) ==
  IF seat = 0 THEN st
  ELSE CASE st = "victory" -> "defeat" [] st = "defeat" -> "victory" [] OTHER -> st

LeaverWins(seat) == IF seat = 0 THEN "victory" ELSE "defeat"        \* mutant
ForfeitStatus(seat) == IF seat = 0 THEN "defeat" ELSE "victory"

(* Every seated player is settled by a transaction of its own, which may   *)
(* fail, or commit and still report an error.  SettleMatch keeps and       *)
(* returns the row that is there already.                                  *)
FinishSettlements(st) ==
  \E reply \in [Seats -> {"ok", "failed", "lost"}] :
    LET Settled(u, seat) == u = players[seat].user /\ reply[seat] # "failed"
        Row(u) == IF paid[u] # NoResult \/ ~\E seat \in Seats : Settled(u, seat) THEN paid[u]
                  ELSE StatusForRole(st, CHOOSE seat \in Seats : Settled(u, seat))
        Result(u, seat) == IF reply[seat] = "ok" THEN Row(u) ELSE "error"
    IN /\ paid' = [u \in Users |-> Row(u)]
       /\ told' = [u \in Users |->
            IF \E seat \in Seats : u = players[seat].user
              THEN Result(u, CHOOSE seat \in Seats : u = players[seat].user) ELSE told[u]]

Finish(st) == finished' = TRUE /\ status' = st /\ FinishSettlements(st)

PlayOn == UNCHANGED <<finished, status, paid, told>>

-----------------------------------------------------------------------------
(* Join and leave callbacks.                                               *)

AnybodyWithASeat(u) ==                                              \* mutant
  \/ presenceByID[u] # NoSeat
  \/ ~finished /\ \E seat \in Seats : ~Taken(seat)
Admits(u) ==
  \/ presenceByID[u] # NoSeat
  \/ /\ \E seat \in Seats : ~Taken(seat)
     /\ ~finished /\ u \in Allowed

MatchJoinAttempt(s) ==
  /\ pc = "idle" /\ ~stopped
  /\ s \notin pending \cup tracked
  /\ Admits(UserOf[s])
  /\ pending' = pending \cup {s}
  /\ UNCHANGED <<pc, players, presenceByID, started, finished, age, status, armies, paid, told,
                 tracked, starters, stopped>>

Unknown(u) == presenceByID[u] = NoSeat

(* The career may fail to load, and then the user gets no seat.            *)
MatchJoin(s) ==
  LET u == UserOf[s]
      seat == IF Taken(0) THEN 1 ELSE 0 IN
  /\ pc = "idle" /\ ~stopped
  /\ s \in pending
  /\ pending' = pending \ {s}
  /\ tracked' = tracked \cup {s}
  /\ \/ /\ Unknown(u)
        /\ players' = [players EXCEPT ![seat] = [Free EXCEPT !.user = u]]
        /\ presenceByID' = [presenceByID EXCEPT ![u] = seat]
     \/ UNCHANGED <<players, presenceByID>>
  /\ IF ~started /\ players'[0].user # NoUser /\ players'[1].user # NoUser
       THEN started' = TRUE /\ starters' = {players'[0].user, players'[1].user}
       ELSE UNCHANGED <<started, starters>>
  /\ UNCHANGED <<pc, finished, age, status, armies, paid, told, stopped>>

Playing == started                                                  \* mutant
Undecided == ~finished

MatchLeave(s) ==
  LET u == UserOf[s]
      seat == presenceByID[u] IN
  /\ pc = "idle" /\ ~stopped
  /\ s \in tracked
  /\ tracked' = tracked \ {s}
  /\ IF Undecided /\ seat # NoSeat
       THEN /\ presenceByID' = [presenceByID EXCEPT ![u] = NoSeat]
            /\ players' = [players EXCEPT ![seat] = Free]
            /\ IF started /\ Taken(seat)
                 THEN Finish(ForfeitStatus(seat))
                 ELSE /\ finished' = (players'[0] = Free /\ players'[1] = Free)
                      /\ UNCHANGED <<status, paid, told>>
       ELSE UNCHANGED <<players, presenceByID, finished, status, paid, told>>
  /\ UNCHANGED <<pc, started, age, armies, pending, starters, stopped>>

-----------------------------------------------------------------------------
(* MatchLoop.  A match that has not started, or has finished, ignores it.  *)

LoopBegin ==
  /\ pc = "idle" /\ ~stopped /\ started /\ ~finished
  /\ pc' = "draining"
  /\ age' = IF age > MaxMatchTime THEN age ELSE age + 1
  /\ UNCHANGED <<players, presenceByID, started, finished, status, armies, paid, told, pending,
                 tracked, starters, stopped>>

AnyNew(seat, seq) == seq >= players[seat].nextSeq                   \* mutant
InSequence(seat, seq) == seq = players[seat].nextSeq

(* Every other message is rejected and changes nothing.                    *)
Dispatch(u, seq) ==
  LET seat == presenceByID[u] IN
  /\ pc = "draining" /\ Len(armies) < MaxActions
  /\ seat # NoSeat /\ Taken(seat)
  /\ InSequence(seat, seq)
  /\ players' = [players EXCEPT ![seat].nextSeq = @ + 1]
  /\ armies' = Append(armies, [user |-> u, seat |-> seat, seq |-> seq])
  /\ UNCHANGED <<pc, presenceByID, started, finished, age, status, paid, told, pending, tracked,
                 starters, stopped>>

NoLimit == FALSE                                                    \* mutant
TimeIsUp == age > MaxMatchTime

LoopEnd ==
  /\ pc = "draining" /\ pc' = "idle"
  /\ \E st \in {"playing", "victory", "defeat", "draw"} :
       IF st # "playing" THEN Finish(st)
       ELSE IF TimeIsUp THEN Finish("draw")
       ELSE PlayOn
  /\ UNCHANGED <<players, presenceByID, started, age, armies, pending, tracked, starters, stopped>>

(* The process is lost; MatchTerminate saves nothing.                      *)
Crash ==
  /\ pc = "idle" /\ ~stopped
  /\ stopped' = TRUE
  /\ UNCHANGED <<pc, players, presenceByID, started, finished, age, status, armies, paid, told,
                 pending, tracked, starters>>

Next ==
  \/ \E s \in Sessions : MatchJoinAttempt(s) \/ MatchJoin(s) \/ MatchLeave(s)
  \/ \E u \in Users, seq \in 0..MaxActions : Dispatch(u, seq)
  \/ LoopBegin \/ LoopEnd
  \/ Crash

Spec == Init /\ [][Next]_vars

(* Nakama keeps calling MatchLoop, and a call returns.                     *)
FairSpec == Spec /\ WF_vars(LoopBegin) /\ WF_vars(LoopEnd)

-----------------------------------------------------------------------------
(* Properties.  A ranked match is one whose Allowed has two users.         *)

Results == {"victory", "defeat", "draw"}

(* Every variable keeps to the values its Go type and use allow.           *)
TypeOK ==
  /\ pc \in {"idle", "draining"}
  /\ players \in [Seats -> [user : Users \cup {NoUser}, nextSeq : Nat]]
  /\ presenceByID \in [Users -> Seats \cup {NoSeat}]
  /\ started \in BOOLEAN /\ finished \in BOOLEAN /\ stopped \in BOOLEAN
  /\ age \in 0..(MaxMatchTime + 1)
  /\ status \in Results \cup {"playing"}
  /\ armies \in Seq([user : Users, seat : Seats, seq : Nat])
  /\ paid \in [Users -> Results \cup {NoResult}]
  /\ told \in [Users -> Results \cup {NoResult, "error"}]
  /\ pending \in SUBSET Sessions /\ tracked \in SUBSET Sessions
  /\ starters \in SUBSET Users

(* The two players' results fit each other, though they are stored by two  *)
(* transactions, and the result a player is told is the stored one.        *)
ResultsAgree ==
  /\ \A u, v \in Users : u # v /\ NoResult \notin {paid[u], paid[v]} =>
       {paid[u], paid[v]} \in {{"victory", "defeat"}, {"draw"}}
  /\ \A u \in Users : told[u] \notin {NoResult, "error"} => told[u] = paid[u]

(* A ranked match belongs to the two players who were told that it         *)
(* started, whatever sessions join before and after: nobody else is        *)
(* settled or commands an army, and no two armies of a role have the same  *)
(* id, which liveArmyID makes of role and sequence.                        *)
RankedPairIsKept ==
  /\ \A u \in Users : paid[u] # NoResult => u \in starters
  /\ \A j, k \in DOMAIN armies : j # k /\ armies[j].seat = armies[k].seat =>
       armies[j].seq # armies[k].seq /\ armies[j].user = armies[k].user

(* Settlement happens in the step that finishes the match, with a status   *)
(* that never changes again: no leave, join or loop after it pays anybody. *)
ResultIsFinal ==
  [][/\ finished => paid' = paid /\ status' = status
     /\ paid' # paid => finished' /\ started]_vars

(* Who leaves a running match loses it, and the other player wins.         *)
LeaverLoses ==
  [][\A u \in Users :
       presenceByID[u] # NoSeat /\ presenceByID'[u] = NoSeat /\ started =>
         /\ paid'[u] \in {NoResult, "defeat"}
         /\ \A v \in starters \ {u} : paid'[v] \in {NoResult, "victory"}]_vars

(* A running match is decided in the end, by its time limit at the latest. *)
PlayEnds == started /\ ~finished ~> finished \/ stopped
=============================================================================
