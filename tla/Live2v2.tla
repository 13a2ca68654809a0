------------------------------- MODULE Live2v2 -------------------------------
(***************************************************************************)
(* The authoritative team-match handler of apps/server-nakama/live2v2.go:  *)
(* lobby, countdown, play, settlement and rematch, with sessions that      *)
(* join, drop, rejoin and evict one another.                               *)
(*                                                                         *)
(* Nakama runs one goroutine per match, so a callback never interleaves    *)
(* with another.  MatchLoop is the one callback with several steps here:   *)
(* LoopBegin, then any number of drained messages, then LoopEnd; pc keeps  *)
(* every other callback out in between.  What does interleave is the       *)
(* server around the handler: an accepted MatchJoinAttempt and its         *)
(* MatchJoin are two calls, a kicked session's MatchLeave comes later, and *)
(* the settlement transaction may commit and still report an error.        *)
(*                                                                         *)
(* A user is identified with the slot the draft gave it (one slot per      *)
(* user, fixed at MatchInit).  Wall clock and tick are one clock, counted  *)
(* in ticks.  The simulation step is reduced to the status it may produce. *)
(***************************************************************************)
EXTENDS Integers, Sequences, FiniteSets

CONSTANTS
  Slots,            \* the player slots (four in the code)
  TeamA,            \* the slots of team A, the simulation's "player" side
  Sessions,         \* authenticated sessions that may ever reach the match
  UserOf,           \* the slot whose user opened the session
  NoSession,        \* a slot without presence
  Never,            \* the zero time
  NoSettlement,     \* no row stored, nothing announced
  WaitingTimeout, Countdown, Grace, RematchWindow, RetryDelay, MaxMatchTime,
  MaxActions,       \* the code's cap on accepted dispatches
  MaxTick, MaxMessages, MaxFailures   \* bounds of the model only

Durations == {WaitingTimeout, Countdown, Grace, RematchWindow, RetryDelay,
              MaxMatchTime, MaxActions, MaxTick, MaxMessages, MaxFailures}

ASSUME ConstantsAssumption ==
  /\ Durations \subseteq Nat
  /\ TeamA \subseteq Slots /\ TeamA # {} /\ TeamA # Slots
  /\ UserOf \in [Sessions -> Slots]
  /\ NoSession \notin Sessions
  /\ Never \notin Nat
  /\ Countdown <= Grace /\ Grace > 0     \* 10 s and 30 s in the code

Teams == {"A", "B"}
TeamOf(i) == IF i \in TeamA THEN "A" ELSE "B"

Phases   == {"waiting", "countdown", "playing", "finished", "cancelled"}
Statuses == {"none", "playing", "victory", "defeat", "draw"}

VARIABLES
  pc,                \* "idle" between callbacks, "draining" inside MatchLoop
  tick, phase, slots,
  status,            \* the simulation's status, seen from team A
  countdownEnds, deadlineAt,
  serverSeq, actionLog,
  settled, settlementRetryAt, rematchEnds, votes, rematchMade,
  announced,         \* the outcomes of the match_result broadcast
  stored,            \* the committed settlement of this match
  failures,          \* settlement calls that returned an error
  pending,           \* sessions whose join attempt was accepted, not yet joined
  tracked,           \* sessions joined whose leave was not delivered yet
  stopped            \* the match process is gone

lobbyVars   == <<countdownEnds, deadlineAt>>
streamVars  == <<serverSeq, actionLog>>
settleVars  == <<settled, settlementRetryAt, rematchEnds, announced, stored, failures>>
rematchVars == <<votes, rematchMade>>
serverVars  == <<pending, tracked>>
vars == <<pc, tick, phase, slots, status, lobbyVars, streamVars, settleVars,
          rematchVars, serverVars, stopped>>

-----------------------------------------------------------------------------
(* The state of a slot and what the handler reads off all of them.         *)

FreshSlot(seq) == [presence |-> NoSession, joined |-> FALSE, connected |-> FALSE,
                   disconnectedAt |-> Never, abandoned |-> FALSE,
                   surrendered |-> FALSE, ready |-> FALSE, nextSeq |-> seq]
SlotFromMinusOne == FreshSlot(-1)                                  \* mutant
EmptySlot == FreshSlot(0)

Dead(sl, i) == sl[i].abandoned \/ sl[i].surrendered

AllSlotsJoined(sl) == \A i \in Slots : sl[i].presence # NoSession
AllSlotsReady == \A i \in Slots : slots[i].ready

(* The session speaks for its user's slot: presenceByUser knows the user   *)
(* and the slot is held by this very session.                              *)
KnownUser(s) == slots[UserOf[s]].joined                            \* mutant
Bound(s) == slots[UserOf[s]].joined /\ slots[UserOf[s]].presence = s

AnyoneDead(sl, team) == \E i \in Slots : TeamOf(i) = team /\ Dead(sl, i)  \* mutant
TeamDead(sl, team) == \A i \in Slots : TeamOf(i) = team => Dead(sl, i)
ForfeitStatus(sl)  == IF TeamDead(sl, "A") THEN "defeat"
                      ELSE IF TeamDead(sl, "B") THEN "victory" ELSE "playing"

Flip(st) == CASE st = "victory" -> "defeat"
              [] st = "defeat"  -> "victory"
              [] OTHER          -> st

StatusForRole(st, team) == IF team = "A" THEN st ELSE Flip(st)

TeamOutcomes(sl, st) ==                                            \* mutant
  [i \in Slots |-> [status    |-> StatusForRole(st, TeamOf(i)),
                    abandoned |-> Dead(sl, i)]]
ParticipantOutcomes(sl, st) ==
  [i \in Slots |-> [status    |-> IF Dead(sl, i) THEN "defeat"
                                  ELSE StatusForRole(st, TeamOf(i)),
                    abandoned |-> Dead(sl, i)]]

-----------------------------------------------------------------------------
Init ==
  /\ pc = "idle" /\ tick = 0 /\ phase = "waiting" /\ status = "none"
  /\ slots = [i \in Slots |-> EmptySlot]
  /\ countdownEnds = 0 /\ deadlineAt = 0
  /\ serverSeq = 0 /\ actionLog = <<>>
  /\ settled = FALSE /\ settlementRetryAt = 0 /\ rematchEnds = 0
  /\ votes = {} /\ rematchMade = FALSE
  /\ announced = NoSettlement /\ stored = NoSettlement /\ failures = 0
  /\ pending = {} /\ tracked = {}
  /\ stopped = FALSE

-----------------------------------------------------------------------------
(* Settlement: finishMatch with the slots and status its caller computed.  *)
(* "lost" is a transaction that committed while its caller got an error.   *)

FinishMatch(sl, st, now) ==
  LET request == [outcomes |-> ParticipantOutcomes(sl, st), replay |-> actionLog]
  IN \E reply \in {"ok", "failed", "lost"} :
       /\ phase' = "finished"
       /\ stored' = IF stored = NoSettlement /\ reply # "failed" THEN request ELSE stored
       /\ \/ /\ reply = "ok"
             /\ settled' = TRUE
             /\ rematchEnds' = now + RematchWindow
             /\ announced' = request.outcomes
             /\ UNCHANGED <<settlementRetryAt, failures>>
          \/ /\ reply # "ok"
             /\ failures < MaxFailures
             /\ failures' = failures + 1
             /\ settlementRetryAt' = now + RetryDelay
             /\ UNCHANGED <<settled, rematchEnds, announced>>

(* checkTeamForfeit: the match goes on unless a whole team is dead.        *)
CheckTeamForfeit(sl, now) ==
  /\ slots' = sl
  /\ status' = ForfeitStatus(sl)
  /\ IF ForfeitStatus(sl) = "playing"
       THEN UNCHANGED <<phase, settleVars>>
       ELSE FinishMatch(sl, ForfeitStatus(sl), now)

CancelMatch == phase' = "cancelled" /\ UNCHANGED settleVars

-----------------------------------------------------------------------------
(* Join and leave callbacks.                                               *)

Admits(s) ==
  LET slot == slots[UserOf[s]] IN
  /\ phase \notin {"finished", "cancelled"}
  /\ IF slot.joined THEN ~slot.surrendered /\ ~slot.abandoned
                    ELSE slot.presence = NoSession

MatchJoinAttempt(s) ==
  /\ pc = "idle" /\ ~stopped
  /\ s \notin pending \cup tracked
  /\ Admits(s)
  /\ pending' = pending \cup {s}
  /\ UNCHANGED <<pc, tick, phase, slots, status, lobbyVars, streamVars,
                 settleVars, rematchVars, tracked, stopped>>

Adopt(i, s) ==
  [slots EXCEPT ![i].presence = s, ![i].joined = TRUE, ![i].connected = TRUE,
                ![i].disconnectedAt = Never]

MatchJoin(s) ==
  /\ pc = "idle" /\ ~stopped
  /\ s \in pending
  /\ pending' = pending \ {s}
  /\ tracked' = tracked \cup {s}
  /\ slots' = Adopt(UserOf[s], s)
  /\ IF phase = "waiting" /\ AllSlotsJoined(slots')
       THEN phase' = "countdown" /\ countdownEnds' = tick + Countdown
       ELSE UNCHANGED <<phase, countdownEnds>>
  /\ UNCHANGED <<pc, tick, status, deadlineAt, streamVars, settleVars,
                 rematchVars, stopped>>

Untimed(i) ==                                                      \* mutant
  [slots EXCEPT ![i].presence = NoSession, ![i].connected = FALSE]
Detach(i) ==
  [slots EXCEPT ![i].presence = NoSession, ![i].connected = FALSE,
                ![i].disconnectedAt = tick]

MatchLeave(s) ==
  /\ pc = "idle" /\ ~stopped
  /\ s \in tracked
  /\ tracked' = tracked \ {s}
  /\ slots' = IF phase \notin {"finished", "cancelled"} /\ Bound(s)
                THEN Detach(UserOf[s]) ELSE slots
  /\ UNCHANGED <<pc, tick, phase, status, lobbyVars, streamVars, settleVars,
                 rematchVars, pending, stopped>>

-----------------------------------------------------------------------------
(* MatchLoop, first part: what it does before it looks at the messages.    *)

Expired(i, now, grace) ==
  /\ ~slots[i].connected /\ ~Dead(slots, i)
  /\ slots[i].disconnectedAt # Never
  /\ now - slots[i].disconnectedAt > grace
OneTickLate(i, now) == Expired(i, now, Grace + 1)                   \* mutant
GraceExpired(i, now) == Expired(i, now, Grace)

LoopStep == pc = "idle" /\ ~stopped /\ tick < MaxTick /\ tick' = tick + 1

LoopCancelled ==
  /\ LoopStep /\ phase = "cancelled"
  /\ stopped' = TRUE
  /\ UNCHANGED <<pc, phase, slots, status, lobbyVars, streamVars, settleVars,
                 rematchVars, serverVars>>

RetryBefore(now) == now < settlementRetryAt                        \* mutant
RetryDue(now) == now >= settlementRetryAt

LoopRetrySettlement ==
  /\ LoopStep /\ phase = "finished" /\ ~settled
  /\ IF RetryDue(tick')
       THEN FinishMatch(slots, status, tick')
       ELSE UNCHANGED <<phase, settleVars>>
  /\ UNCHANGED <<pc, slots, status, lobbyVars, streamVars, rematchVars,
                 serverVars, stopped>>

EnforceReconnectGrace ==
  /\ LoopStep /\ phase = "playing"
  /\ CheckTeamForfeit(
       [i \in Slots |->
          [slots[i] EXCEPT !.abandoned = @ \/ GraceExpired(i, tick')]], tick')
  /\ pc' = IF phase' = "playing" THEN "draining" ELSE "idle"
  /\ UNCHANGED <<lobbyVars, streamVars, rematchVars, serverVars, stopped>>

LoopDrain ==
  /\ LoopStep
  /\ phase \in {"waiting", "countdown"} \/ (phase = "finished" /\ settled)
  /\ pc' = "draining"
  /\ UNCHANGED <<phase, slots, status, lobbyVars, streamVars, settleVars,
                 rematchVars, serverVars, stopped>>

LoopBegin == LoopCancelled \/ LoopRetrySettlement \/ EnforceReconnectGrace \/ LoopDrain

-----------------------------------------------------------------------------
(* MatchLoop, middle part: one drained message of session s.  Whatever is  *)
(* not accepted is answered with command_rejected and only counted.        *)

Received(s) ==
  /\ pc = "draining" /\ serverSeq < MaxMessages
  /\ serverSeq' = serverSeq + 1

HandleRejected(s) ==
  /\ Received(s)
  /\ UNCHANGED <<pc, tick, phase, slots, status, lobbyVars, actionLog,
                 settleVars, rematchVars, serverVars, stopped>>

HandleReady(s) ==
  /\ Received(s) /\ Bound(s)
  /\ phase \in {"waiting", "countdown"}
  /\ slots' = [slots EXCEPT ![UserOf[s]].ready = TRUE]
  /\ UNCHANGED <<pc, tick, phase, status, lobbyVars, actionLog, settleVars,
                 rematchVars, serverVars, stopped>>

AliveAndConnected(i) == ~Dead(slots, i) /\ slots[i].connected      \* mutant
MayDispatch(i) == phase = "playing" /\ ~Dead(slots, i) /\ slots[i].connected

NotStale(i, seq) == seq >= slots[i].nextSeq                        \* mutant
InSequence(i, seq) == seq = slots[i].nextSeq

(* Accepted by the handler's checks and then by the simulation's           *)
(* dispatchArmy, whose own refusals are among the rejected messages.       *)
HandleDispatch(s, seq) ==
  LET i == UserOf[s] IN
  /\ Received(s) /\ Bound(s)
  /\ MayDispatch(i) /\ InSequence(i, seq)
  /\ Len(actionLog) < MaxActions
  /\ slots' = [slots EXCEPT ![i].nextSeq = @ + 1]
  /\ actionLog' = Append(actionLog, [tick |-> tick, serverSeq |-> serverSeq',
                                     slot |-> i, clientSeq |-> seq])
  /\ UNCHANGED <<pc, tick, phase, status, lobbyVars, settleVars, rematchVars,
                 serverVars, stopped>>

SurrenderLobby(s) ==
  /\ Received(s) /\ Bound(s)
  /\ phase \in {"waiting", "countdown"}
  /\ CancelMatch
  /\ UNCHANGED <<pc, tick, slots, status, lobbyVars, actionLog, rematchVars,
                 serverVars, stopped>>

SurrenderPlaying(s) ==
  LET i == UserOf[s] IN
  /\ Received(s) /\ Bound(s)
  /\ phase = "playing" /\ slots[i].connected
  /\ CheckTeamForfeit(
       [slots EXCEPT ![i].surrendered = TRUE, ![i].connected = FALSE,
                     ![i].presence = NoSession], tick)
  /\ UNCHANGED <<pc, tick, lobbyVars, actionLog, rematchVars, serverVars, stopped>>

Unanimous(v) == v = Slots

(* The vote is recorded before matchCreate is called, which may fail.      *)
HandleRematchVote(s) ==
  LET i == UserOf[s] IN
  /\ Received(s) /\ Bound(s)
  /\ phase = "finished" /\ settled /\ ~rematchMade
  /\ tick < rematchEnds
  /\ slots[i].connected
  /\ i \notin votes
  /\ votes' = votes \cup {i}
  /\ \E created \in BOOLEAN : rematchMade' = (Unanimous(votes') /\ created)
  /\ UNCHANGED <<pc, tick, phase, slots, status, lobbyVars, actionLog,
                 settleVars, serverVars, stopped>>

HandleMessage(s) ==
  \/ HandleRejected(s)
  \/ HandleReady(s)
  \/ \E seq \in 0..MaxActions : HandleDispatch(s, seq)
  \/ SurrenderLobby(s) \/ SurrenderPlaying(s)
  \/ HandleRematchVote(s)

-----------------------------------------------------------------------------
(* MatchLoop, last part: what the phase does once the batch is drained.    *)

LoopReturn == pc = "draining" /\ pc' = "idle"

(* A stepped simulation reports any status; past the deadline it is over.  *)
PlayOn(deadline) ==
  \E st \in {"playing", "victory", "defeat", "draw"} :
    IF st = "playing" /\ tick <= deadline
      THEN status' = st /\ phase' = "playing" /\ UNCHANGED settleVars
      ELSE /\ status' = (IF st = "playing" THEN "draw" ELSE st)
           /\ FinishMatch(slots, status', tick)

EndWaiting ==
  /\ LoopReturn /\ phase = "waiting"
  /\ \/ /\ AllSlotsJoined(slots)
        /\ phase' = "countdown" /\ countdownEnds' = tick + Countdown
        /\ UNCHANGED settleVars
     \/ /\ ~AllSlotsJoined(slots) /\ tick >= WaitingTimeout
        /\ CancelMatch /\ UNCHANGED countdownEnds
     \/ /\ ~AllSlotsJoined(slots) /\ tick < WaitingTimeout
        /\ UNCHANGED <<phase, countdownEnds, settleVars>>
  /\ UNCHANGED <<tick, slots, status, deadlineAt, streamVars, rematchVars,
                 serverVars, stopped>>

(* startMatch: the first simulation step is taken by the same call.        *)
StartMatch ==
  \/ /\ deadlineAt' = tick + MaxMatchTime
     /\ PlayOn(deadlineAt')
  \/ CancelMatch /\ UNCHANGED <<status, deadlineAt>>   \* initialization_failed

EndCountdown ==
  /\ LoopReturn /\ phase = "countdown"
  /\ \/ /\ AllSlotsReady \/ (tick >= countdownEnds /\ AllSlotsJoined(slots))
        /\ StartMatch
     \/ /\ ~AllSlotsReady /\ tick >= countdownEnds /\ ~AllSlotsJoined(slots)
        /\ CancelMatch /\ UNCHANGED <<status, deadlineAt>>
     \/ /\ ~AllSlotsReady /\ tick < countdownEnds
        /\ UNCHANGED <<phase, status, deadlineAt, settleVars>>
  /\ UNCHANGED <<tick, slots, countdownEnds, streamVars, rematchVars,
                 serverVars, stopped>>

EndPlaying ==
  /\ LoopReturn /\ phase = "playing"
  /\ PlayOn(deadlineAt)
  /\ UNCHANGED <<tick, slots, lobbyVars, streamVars, rematchVars, serverVars,
                 stopped>>

WindowAfterRematch == settled /\ tick >= rematchEnds /\ rematchMade  \* mutant
WindowClosed == settled /\ tick >= rematchEnds

EndOver ==
  /\ LoopReturn /\ phase \in {"finished", "cancelled"}
  /\ stopped' = (phase = "finished" /\ WindowClosed)
  /\ UNCHANGED <<tick, phase, slots, status, lobbyVars, streamVars, settleVars,
                 rematchVars, serverVars>>

LoopEnd == EndWaiting \/ EndCountdown \/ EndPlaying \/ EndOver

-----------------------------------------------------------------------------
(* Shutdown: a graceful MatchTerminate, and the loss of the process.       *)

MatchTerminate ==
  /\ pc = "idle" /\ ~stopped
  /\ phase \in {"waiting", "countdown", "playing"}
  /\ CancelMatch
  /\ UNCHANGED <<pc, tick, slots, status, lobbyVars, streamVars, rematchVars,
                 serverVars, stopped>>

Crash ==
  /\ pc = "idle" /\ ~stopped
  /\ stopped' = TRUE
  /\ UNCHANGED <<pc, tick, phase, slots, status, lobbyVars, streamVars,
                 settleVars, rematchVars, serverVars>>

Next ==
  \/ \E s \in Sessions : MatchJoinAttempt(s) \/ MatchJoin(s) \/ MatchLeave(s)
                         \/ HandleMessage(s)
  \/ LoopBegin \/ LoopEnd
  \/ MatchTerminate \/ Crash

Spec == Init /\ [][Next]_vars

(* Nakama keeps calling MatchLoop until it returns nil, and a call drains  *)
(* its finite batch and returns.  Nothing is assumed of the clients.       *)
FairSpec == Spec /\ WF_vars(LoopBegin) /\ WF_vars(LoopEnd)

-----------------------------------------------------------------------------
(* Properties.                                                             *)

SlotState ==
  [presence : Sessions \cup {NoSession}, joined : BOOLEAN, connected : BOOLEAN,
   disconnectedAt : Nat \cup {Never}, abandoned : BOOLEAN,
   surrendered : BOOLEAN, ready : BOOLEAN, nextSeq : Nat]

Action == [tick : Nat, serverSeq : Nat, slot : Slots, clientSeq : Nat]

Outcomes == [Slots -> [status : Statuses, abandoned : BOOLEAN]]

Settlement == [outcomes : Outcomes, replay : Seq(Action)]

ASSUME NoSettlementAssumption == NoSettlement \notin Outcomes \cup Settlement

(* Every variable keeps to the values its Go type and phase allow.         *)
TypeOK ==
  /\ pc \in {"idle", "draining"} /\ tick \in Nat
  /\ phase \in Phases /\ status \in Statuses
  /\ slots \in [Slots -> SlotState]
  /\ countdownEnds \in Nat /\ deadlineAt \in Nat
  /\ serverSeq \in Nat /\ actionLog \in Seq(Action)
  /\ settled \in BOOLEAN /\ settlementRetryAt \in Nat /\ rematchEnds \in Nat
  /\ votes \in SUBSET Slots /\ rematchMade \in BOOLEAN
  /\ announced \in Outcomes \cup {NoSettlement}
  /\ stored \in Settlement \cup {NoSettlement}
  /\ failures \in Nat
  /\ pending \in SUBSET Sessions /\ tracked \in SUBSET Sessions
  /\ stopped \in BOOLEAN

(* What was paid stays what the match decided: the committed settlement is *)
(* of a finished match, and its outcomes and replay are those the handler  *)
(* would compute again now, however many retries, late joins, leaves and   *)
(* buffered messages came since; the broadcast result is the stored one.   *)
PaidIsDecided ==
  /\ stored # NoSettlement =>
       /\ phase = "finished"
       /\ stored = [outcomes |-> ParticipantOutcomes(slots, status),
                    replay   |-> actionLog]
  /\ announced # NoSettlement =>
       stored # NoSettlement /\ announced = stored.outcomes
  /\ settled <=> announced # NoSettlement

(* No match goes on with a whole team gone, with a player who never came,  *)
(* or with one whose absence is not accounted for: enforceReconnectGrace   *)
(* skips a slot with a zero disconnectedAt, so one that lost its session   *)
(* without a running grace timer would stay away for ever.                 *)
NoGhostTeam ==
  phase = "playing" =>
    /\ \A team \in Teams : ~TeamDead(slots, team)
    /\ \A i \in Slots :
         /\ slots[i].joined
         /\ slots[i].presence = NoSession /\ ~Dead(slots, i) =>
              slots[i].disconnectedAt # Never /\ tick - slots[i].disconnectedAt <= Grace

(* The canonical action list is a replay: strictly ordered by server       *)
(* sequence within and across ticks, and the accepted actions of a slot    *)
(* carry exactly the client sequences 0, 1, ... up to its nextSeq, whatever *)
(* sessions the slot went through.                                         *)
ActionLogIsCanonical ==
  /\ \A j, k \in DOMAIN actionLog : j < k =>
       /\ actionLog[j].serverSeq < actionLog[k].serverSeq
       /\ actionLog[j].tick <= actionLog[k].tick
       /\ actionLog[j].slot = actionLog[k].slot =>
            actionLog[j].clientSeq < actionLog[k].clientSeq
  /\ \A i \in Slots : \A seq \in 0..MaxActions :
       seq < slots[i].nextSeq <=>
         \E k \in DOMAIN actionLog :
           actionLog[k].slot = i /\ actionLog[k].clientSeq = seq

(* A slot loses its session only when that very session left, when its     *)
(* player surrendered, or to a newer session of the same user: the late    *)
(* leave of an evicted session takes nothing away.                         *)
SessionLossIsJustified ==
  [][\A i \in Slots :
       LET old == slots[i].presence IN
       (old # NoSession /\ slots'[i].presence # old) =>
         \/ old \in tracked \ tracked'
         \/ slots'[i].surrendered /\ slots'[i].presence = NoSession
         \/ slots'[i].presence \in pending \ pending']_vars

(* A team is given up only for what its players did: while the simulation  *)
(* has not been stepped, a match ends only with a team both of whose       *)
(* players surrendered or were away longer than their grace, and that team *)
(* is the one whose players are all defeated.                              *)
ForfeitIsEarned ==
  [][(phase = "playing" /\ phase' = "finished" /\ ~(pc = "draining" /\ pc' = "idle")) =>
       LET loser == IF status' = "defeat" THEN "A" ELSE "B" IN
       /\ status' \in {"victory", "defeat"}
       /\ \A i \in Slots : TeamOf(i) = loser =>
            \/ slots'[i].surrendered
            \/ slots'[i].abandoned
       /\ \A i \in Slots : slots'[i].abandoned /\ ~slots[i].abandoned =>
            slots[i].presence = NoSession /\ ~slots[i].surrendered]_vars

(* Every match process ends: no lobby, no unsettled result and no rematch  *)
(* window keeps it alive for ever.                                         *)
MatchEnds == <>stopped

(* A decided match is paid, unless the process is lost first.              *)
DecidedIsPaid == phase = "finished" ~> (stored # NoSettlement \/ stopped)

(* The comment at live2v2.go:335 and the test at live2v2_test.go:673: no   *)
(* later session of a user who surrendered may rejoin the slot.            *)
SurrenderedStaysOut ==
  phase = "playing" => \A i \in Slots :
    slots[i].surrendered => slots[i].presence = NoSession

(* The match as its players see it: MatchOutcome.                          *)
Outcome == INSTANCE MatchOutcome WITH
  NoTerms <- NoSettlement,
  verdict <- CASE phase = "finished"  -> "decided"
               [] phase = "cancelled" -> "cancelled"
               [] OTHER               -> "open",
  terms   <- IF phase = "finished" THEN ParticipantOutcomes(slots, status)
                                   ELSE NoSettlement,
  paid    <- IF stored = NoSettlement THEN NoSettlement ELSE stored.outcomes

OutcomeSpec == Outcome!Spec
=============================================================================
