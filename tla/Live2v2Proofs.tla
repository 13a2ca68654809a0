---------------------------- MODULE Live2v2Proofs ----------------------------
(***************************************************************************)
(* Proofs about the team-match handler of Live2v2, for any slots, teams,   *)
(* sessions and durations.                                                 *)
(***************************************************************************)
EXTENDS Live2v2, TLAPS

SettleTyped ==
  /\ phase \in Phases /\ settled \in BOOLEAN
  /\ settlementRetryAt \in Nat /\ rematchEnds \in Nat
  /\ announced \in Outcomes \cup {NoSettlement}
  /\ stored \in Settlement \cup {NoSettlement}
  /\ failures \in Nat

(* The outcomes computed for any slots and status are outcomes.            *)
LEMMA OutcomesTyped ==
  ASSUME NEW sl \in [Slots -> SlotState], NEW st \in Statuses
  PROVE  ParticipantOutcomes(sl, st) \in Outcomes
  <1>1. ASSUME NEW i \in Slots
        PROVE  Dead(sl, i) \in BOOLEAN
    BY DEF Dead, SlotState
  <1>2. ASSUME NEW i \in Slots
        PROVE  StatusForRole(st, TeamOf(i)) \in Statuses
    BY DEF StatusForRole, Flip, Statuses, TeamOf
  <1>3. "defeat" \in Statuses
    BY DEF Statuses
  <1> QED
    BY <1>1, <1>2, <1>3 DEF ParticipantOutcomes, Outcomes

(* finishMatch keeps every settlement variable in its type.                *)
LEMMA FinishTyped ==
  ASSUME TypeOK, NEW sl \in [Slots -> SlotState], NEW st \in Statuses,
         NEW now \in Nat, FinishMatch(sl, st, now)
  PROVE  SettleTyped'
  <1> DEFINE request == [outcomes |-> ParticipantOutcomes(sl, st), replay |-> actionLog]
  <1>1. ParticipantOutcomes(sl, st) \in Outcomes
    BY OutcomesTyped
  <1>2. request \in Settlement
    BY <1>1 DEF Settlement, TypeOK
  <1>3. now + RematchWindow \in Nat /\ now + RetryDelay \in Nat
    BY ConstantsAssumption DEF Durations
  <1>4. PICK reply \in {"ok", "failed", "lost"} :
          /\ phase' = "finished"
          /\ stored' = IF stored = NoSettlement /\ reply # "failed" THEN request ELSE stored
          /\ \/ /\ reply = "ok"
                /\ settled' = TRUE
                /\ rematchEnds' = now + RematchWindow
                /\ announced' = request.outcomes
                /\ UNCHANGED <<settlementRetryAt, failures>>
             \/ /\ reply # "ok"
                /\ failures < MaxFailures
                /\ failures' = failures + 1
                /\ settlementRetryAt' = now + RetryDelay
                /\ UNCHANGED <<settled, rematchEnds, announced>>
    BY DEF FinishMatch
  <1>5. request.outcomes \in Outcomes
    BY <1>1
  <1> HIDE DEF request
  <1>6. stored' \in Settlement \cup {NoSettlement}
    BY <1>2, <1>4 DEF TypeOK
  <1>7. phase' \in Phases
    BY <1>4 DEF Phases
  <1>8. CASE reply = "ok"
    BY <1>3, <1>4, <1>5, <1>6, <1>7, <1>8 DEF TypeOK, SettleTyped
  <1>9. CASE reply # "ok"
    BY <1>3, <1>4, <1>6, <1>7, <1>9 DEF TypeOK, SettleTyped
  <1> QED
    BY <1>8, <1>9

(* So does checkTeamForfeit, for well-typed slots.                         *)
LEMMA ForfeitTyped ==
  ASSUME TypeOK, NEW sl \in [Slots -> SlotState], NEW now \in Nat,
         CheckTeamForfeit(sl, now)
  PROVE  SettleTyped' /\ slots' \in [Slots -> SlotState] /\ status' \in Statuses
  <1>1. ForfeitStatus(sl) \in Statuses
    BY DEF ForfeitStatus, Statuses
  <1>2. slots' \in [Slots -> SlotState] /\ status' \in Statuses
    BY <1>1 DEF CheckTeamForfeit
  <1>3. CASE ForfeitStatus(sl) = "playing"
    BY <1>2, <1>3 DEF CheckTeamForfeit, TypeOK, SettleTyped, settleVars
  <1>4. CASE ForfeitStatus(sl) # "playing"
    <2>1. FinishMatch(sl, ForfeitStatus(sl), now)
      BY <1>4 DEF CheckTeamForfeit
    <2> QED
      BY <1>1, <1>2, <2>1, FinishTyped
  <1> QED
    BY <1>3, <1>4

(* And the simulation's part of MatchLoop.                                 *)
LEMMA PlayTyped ==
  ASSUME TypeOK, NEW deadline \in Nat, PlayOn(deadline)
  PROVE  SettleTyped' /\ status' \in Statuses
  <1>1. PICK st \in {"playing", "victory", "defeat", "draw"} :
          IF st = "playing" /\ tick <= deadline
            THEN status' = st /\ phase' = "playing" /\ UNCHANGED settleVars
            ELSE /\ status' = (IF st = "playing" THEN "draw" ELSE st)
                 /\ FinishMatch(slots, status', tick)
    BY DEF PlayOn
  <1>2. status' \in Statuses
    BY <1>1 DEF Statuses
  <1>3. CASE st = "playing" /\ tick <= deadline
    BY <1>1, <1>2, <1>3 DEF TypeOK, SettleTyped, settleVars, Phases
  <1>4. CASE ~(st = "playing" /\ tick <= deadline)
    <2>1. FinishMatch(slots, status', tick)
      BY <1>1, <1>4
    <2>2. slots \in [Slots -> SlotState] /\ tick \in Nat
      BY DEF TypeOK
    <2> QED
      BY <1>2, <2>1, <2>2, FinishTyped
  <1> QED
    BY <1>3, <1>4

(* Every update a callback makes to a slot keeps the table well-typed.     *)
LEMMA SlotUpdates ==
  ASSUME TypeOK, NEW i \in Slots, NEW s \in Sessions
  PROVE  /\ Adopt(i, s) \in [Slots -> SlotState]
         /\ Detach(i) \in [Slots -> SlotState]
         /\ [slots EXCEPT ![i].ready = TRUE] \in [Slots -> SlotState]
         /\ [slots EXCEPT ![i].nextSeq = @ + 1] \in [Slots -> SlotState]
         /\ [slots EXCEPT ![i].surrendered = TRUE, ![i].connected = FALSE,
                          ![i].presence = NoSession] \in [Slots -> SlotState]
  <1>0. slots \in [Slots -> SlotState] /\ slots[i] \in SlotState /\ tick \in Nat
    BY DEF TypeOK
  <1>1. [slots[i] EXCEPT !.presence = s, !.joined = TRUE, !.connected = TRUE,
                         !.disconnectedAt = Never] \in SlotState
    BY <1>0 DEF SlotState
  <1>2. [slots[i] EXCEPT !.presence = NoSession, !.connected = FALSE,
                         !.disconnectedAt = tick] \in SlotState
    BY <1>0 DEF SlotState
  <1>3. [slots[i] EXCEPT !.ready = TRUE] \in SlotState
    BY <1>0 DEF SlotState
  <1>4. [slots[i] EXCEPT !.nextSeq = @ + 1] \in SlotState
    BY <1>0 DEF SlotState
  <1>5. [slots[i] EXCEPT !.surrendered = TRUE, !.connected = FALSE,
                         !.presence = NoSession] \in SlotState
    BY <1>0 DEF SlotState
  <1>6. Adopt(i, s) \in [Slots -> SlotState]
    BY <1>0, <1>1 DEF Adopt
  <1>7. Detach(i) \in [Slots -> SlotState]
    BY <1>0, <1>2 DEF Detach
  <1> QED
    BY <1>0, <1>3, <1>4, <1>5, <1>6, <1>7

LEMMA TypeInit == Init => TypeOK
  <1> SUFFICES ASSUME Init PROVE TypeOK
    OBVIOUS
  <1>1. slots \in [Slots -> SlotState]
    BY DEF Init, EmptySlot, FreshSlot, SlotState
  <1>2. actionLog \in Seq(Action)
    BY DEF Init
  <1> QED
    BY <1>1, <1>2 DEF Init, TypeOK, Phases, Statuses

LEMMA TypeStep == TypeOK /\ [Next]_vars => TypeOK'
  <1> SUFFICES ASSUME TypeOK, [Next]_vars PROVE TypeOK'
    OBVIOUS
  <1>u. \A s \in Sessions : UserOf[s] \in Slots
    BY ConstantsAssumption
  <1>1. ASSUME NEW s \in Sessions, MatchJoinAttempt(s) PROVE TypeOK'
    BY <1>1 DEF MatchJoinAttempt, TypeOK, lobbyVars, streamVars, settleVars, rematchVars
  <1>2. ASSUME NEW s \in Sessions, MatchJoin(s) PROVE TypeOK'
    <2>1. slots' \in [Slots -> SlotState]
      BY <1>2, <1>u, SlotUpdates DEF MatchJoin
    <2>2. phase' \in Phases /\ countdownEnds' \in Nat
      BY <1>2, ConstantsAssumption DEF MatchJoin, TypeOK, Phases, Durations
    <2> QED
      BY <1>2, <2>1, <2>2 DEF MatchJoin, TypeOK, streamVars, settleVars, rematchVars
  <1>3. ASSUME NEW s \in Sessions, MatchLeave(s) PROVE TypeOK'
    <2>1. slots' \in [Slots -> SlotState]
      BY <1>3, <1>u, SlotUpdates DEF MatchLeave, TypeOK
    <2> QED
      BY <1>3, <2>1 DEF MatchLeave, TypeOK, lobbyVars, streamVars, settleVars, rematchVars
  <1>4. ASSUME NEW s \in Sessions, HandleRejected(s) PROVE TypeOK'
    BY <1>4 DEF HandleRejected, Received, TypeOK, lobbyVars, settleVars, rematchVars, serverVars
  <1>5. ASSUME NEW s \in Sessions, HandleReady(s) PROVE TypeOK'
    <2>1. slots' \in [Slots -> SlotState]
      BY <1>5, <1>u, SlotUpdates DEF HandleReady
    <2> QED
      BY <1>5, <2>1 DEF HandleReady, Received, TypeOK, lobbyVars, settleVars, rematchVars, serverVars
  <1>6. ASSUME NEW s \in Sessions, NEW seq \in 0..MaxActions, HandleDispatch(s, seq)
        PROVE TypeOK'
    <2>1. slots' \in [Slots -> SlotState]
      BY <1>6, <1>u, SlotUpdates DEF HandleDispatch
    <2>a. serverSeq \in Nat /\ serverSeq' = serverSeq + 1
      BY <1>6 DEF HandleDispatch, Received, TypeOK
    <2>b. MaxActions \in Nat
      BY ConstantsAssumption DEF Durations
    <2>c. seq \in Nat
      BY <2>b
    <2>2. serverSeq' \in Nat /\ seq \in Nat
      BY <2>a, <2>c
    <2>3. actionLog' \in Seq(Action)
      BY <1>6, <1>u, <2>2 DEF HandleDispatch, TypeOK, Action
    <2> QED
      BY <1>6, <2>1, <2>2, <2>3
      DEF HandleDispatch, TypeOK, lobbyVars, settleVars, rematchVars, serverVars
  <1>7. ASSUME NEW s \in Sessions, SurrenderLobby(s) PROVE TypeOK'
    BY <1>7 DEF SurrenderLobby, CancelMatch, Received, TypeOK, Phases, lobbyVars,
                settleVars, rematchVars, serverVars
  <1>8. ASSUME NEW s \in Sessions, SurrenderPlaying(s) PROVE TypeOK'
    <2> DEFINE sl == [slots EXCEPT ![UserOf[s]].surrendered = TRUE,
                                   ![UserOf[s]].connected = FALSE,
                                   ![UserOf[s]].presence = NoSession]
    <2>1. sl \in [Slots -> SlotState]
      BY <1>u, SlotUpdates
    <2>2. CheckTeamForfeit(sl, tick)
      BY <1>8 DEF SurrenderPlaying
    <2>3. SettleTyped' /\ slots' \in [Slots -> SlotState] /\ status' \in Statuses
      BY <2>1, <2>2, ForfeitTyped DEF TypeOK
    <2> QED
      BY <1>8, <2>3 DEF SurrenderPlaying, Received, SettleTyped, TypeOK, lobbyVars,
                        rematchVars, serverVars
  <1>9. ASSUME NEW s \in Sessions, HandleRematchVote(s) PROVE TypeOK'
    <2>1. votes' \in SUBSET Slots /\ rematchMade' \in BOOLEAN
      BY <1>9, <1>u DEF HandleRematchVote, TypeOK
    <2> QED
      BY <1>9, <2>1 DEF HandleRematchVote, Received, TypeOK, lobbyVars, settleVars, serverVars
  <1>10. ASSUME LoopBegin PROVE TypeOK'
    <2>0. LoopStep => tick' \in Nat
      BY DEF LoopStep, TypeOK
    <2>1. CASE LoopCancelled
      BY <2>0, <2>1 DEF LoopCancelled, TypeOK, lobbyVars, streamVars, settleVars,
                   rematchVars, serverVars
    <2>2. CASE LoopRetrySettlement
      <3>1. tick' \in Nat /\ slots \in [Slots -> SlotState] /\ status \in Statuses
        BY <2>0, <2>2 DEF LoopRetrySettlement, TypeOK
      <3>2. CASE RetryDue(tick')
        <4>1. FinishMatch(slots, status, tick')
          BY <2>2, <3>2 DEF LoopRetrySettlement
        <4>2. SettleTyped'
          BY <3>1, <4>1, FinishTyped
        <4> QED
          BY <2>2, <3>1, <4>2 DEF LoopRetrySettlement, SettleTyped, TypeOK, lobbyVars,
             streamVars, rematchVars, serverVars
      <3>3. CASE ~RetryDue(tick')
        BY <2>2, <3>1, <3>3 DEF LoopRetrySettlement, TypeOK, lobbyVars, streamVars,
           settleVars, rematchVars, serverVars
      <3> QED
        BY <3>2, <3>3
    <2>3. CASE EnforceReconnectGrace
      <3> DEFINE sl == [i \in Slots |->
                          [slots[i] EXCEPT !.abandoned = @ \/ GraceExpired(i, tick')]]
      <3>1. tick' \in Nat
        BY <2>0, <2>3 DEF EnforceReconnectGrace
      <3>2. sl \in [Slots -> SlotState]
        BY DEF TypeOK, SlotState
      <3>3. CheckTeamForfeit(sl, tick')
        BY <2>3 DEF EnforceReconnectGrace
      <3>4. SettleTyped' /\ slots' \in [Slots -> SlotState] /\ status' \in Statuses
        BY <3>1, <3>2, <3>3, ForfeitTyped
      <3> QED
        BY <2>3, <3>1, <3>4 DEF EnforceReconnectGrace, SettleTyped, TypeOK, lobbyVars,
           streamVars, rematchVars, serverVars
    <2>4. CASE LoopDrain
      BY <2>0, <2>4 DEF LoopDrain, TypeOK, lobbyVars, streamVars, settleVars,
                   rematchVars, serverVars
    <2> QED
      BY <1>10, <2>1, <2>2, <2>3, <2>4 DEF LoopBegin
  <1>11. ASSUME LoopEnd PROVE TypeOK'
    <2>0. /\ tick + Countdown \in Nat /\ tick + MaxMatchTime \in Nat
          /\ deadlineAt \in Nat
      BY ConstantsAssumption DEF TypeOK, Durations
    <2>1. CASE EndWaiting
      BY <2>0, <2>1 DEF EndWaiting, LoopReturn, CancelMatch, TypeOK, Phases, streamVars,
                   settleVars, rematchVars, serverVars
    <2>2. CASE EndCountdown
      <3>1. CASE StartMatch
        <4>1. CASE deadlineAt' = tick + MaxMatchTime /\ PlayOn(deadlineAt')
          <5>1. SettleTyped' /\ status' \in Statuses
            BY <2>0, <4>1, PlayTyped
          <5> QED
            BY <2>0, <2>2, <4>1, <5>1 DEF EndCountdown, LoopReturn, SettleTyped, TypeOK,
               streamVars, rematchVars, serverVars
        <4>2. CASE CancelMatch /\ UNCHANGED <<status, deadlineAt>>
          BY <2>2, <4>2 DEF EndCountdown, CancelMatch, LoopReturn, TypeOK, Phases,
             streamVars, settleVars, rematchVars, serverVars
        <4> QED
          BY <3>1, <4>1, <4>2 DEF StartMatch
      <3>2. CASE /\ phase' = "cancelled" \/ phase' = phase
                 /\ UNCHANGED <<status, deadlineAt, settleVars>>
        BY <2>2, <3>2 DEF EndCountdown, LoopReturn, TypeOK, Phases, streamVars, settleVars,
           rematchVars, serverVars
      <3> QED
        BY <2>2, <3>1, <3>2 DEF EndCountdown, CancelMatch
    <2>3. CASE EndPlaying
      <3>1. SettleTyped' /\ status' \in Statuses
        BY <2>0, <2>3, PlayTyped DEF EndPlaying
      <3> QED
        BY <2>3, <3>1 DEF EndPlaying, LoopReturn, SettleTyped, TypeOK, lobbyVars,
           streamVars, rematchVars, serverVars
    <2>4. CASE EndOver
      BY <2>4 DEF EndOver, WindowClosed, LoopReturn, TypeOK, lobbyVars, streamVars,
         settleVars, rematchVars, serverVars
    <2> QED
      BY <1>11, <2>1, <2>2, <2>3, <2>4 DEF LoopEnd
  <1>12. ASSUME MatchTerminate PROVE TypeOK'
    BY <1>12 DEF MatchTerminate, CancelMatch, TypeOK, Phases, lobbyVars, streamVars,
                 settleVars, rematchVars, serverVars
  <1>13. ASSUME Crash PROVE TypeOK'
    BY <1>13 DEF Crash, TypeOK, lobbyVars, streamVars, settleVars, rematchVars, serverVars
  <1>14. CASE UNCHANGED vars
    BY <1>14 DEF vars, TypeOK, lobbyVars, streamVars, settleVars, rematchVars, serverVars
  <1> QED
    BY <1>1, <1>2, <1>3, <1>4, <1>5, <1>6, <1>7, <1>8, <1>9, <1>10, <1>11, <1>12, <1>13,
       <1>14 DEF Next, HandleMessage

(* Every variable keeps its type: TypeOK of Live2v2.                       *)
THEOREM TypeCorrect == Spec => []TypeOK
  <1> QED
    BY TypeInit, TypeStep, PTL DEF Spec

-----------------------------------------------------------------------------
(* PaidIsDecided is inductive together with TypeOK.  It needs the outcomes *)
(* of a finished match to be frozen: no callback that runs in the finished *)
(* phase may revive or kill a slot, change the status or append an action. *)

(* Nothing is owed by a step that leaves an unpaid match unpaid.           *)
LEMMA UnpaidStaysUnpaid ==
  ASSUME PaidIsDecided, phase # "finished", UNCHANGED settleVars
  PROVE  PaidIsDecided'
  BY DEF PaidIsDecided, settleVars

(* A step that neither kills nor revives a slot leaves the outcomes alone. *)
LEMMA SameDead ==
  ASSUME PaidIsDecided, UNCHANGED <<phase, status, actionLog, settleVars>>,
         \A i \in Slots : Dead(slots', i) = Dead(slots, i)
  PROVE  PaidIsDecided'
  <1>1. ParticipantOutcomes(slots, status)' = ParticipantOutcomes(slots, status)
    BY DEF ParticipantOutcomes
  <1> QED
    BY <1>1 DEF PaidIsDecided, settleVars

(* finishMatch pays what the slots and status it was given decide: the     *)
(* first time, or again with the outcomes it already paid.                 *)
LEMMA FinishPays ==
  ASSUME TypeOK, PaidIsDecided,
         NEW sl \in [Slots -> SlotState], NEW st \in Statuses, NEW now \in Nat,
         FinishMatch(sl, st, now),
         slots' = sl, status' = st, actionLog' = actionLog,
         phase = "finished" => sl = slots /\ st = status
  PROVE  PaidIsDecided'
  <1> DEFINE request == [outcomes |-> ParticipantOutcomes(sl, st), replay |-> actionLog]
  <1>1. PICK reply \in {"ok", "failed", "lost"} :
          /\ phase' = "finished"
          /\ stored' = IF stored = NoSettlement /\ reply # "failed" THEN request ELSE stored
          /\ \/ reply = "ok" /\ settled' = TRUE /\ announced' = request.outcomes
             \/ reply # "ok" /\ UNCHANGED <<settled, announced>>
    BY DEF FinishMatch
  <1>2. request.outcomes \in Outcomes /\ request \in Settlement
    BY OutcomesTyped DEF Settlement, TypeOK
  <1>3. request # NoSettlement /\ request.outcomes # NoSettlement
    BY <1>2, NoSettlementAssumption
  <1>4. stored # NoSettlement => stored = request
    BY DEF PaidIsDecided
  <1>5. request = [outcomes |-> ParticipantOutcomes(slots, status)', replay |-> actionLog']
    BY DEF ParticipantOutcomes
  <1>6. request.outcomes = ParticipantOutcomes(sl, st)
    OBVIOUS
  <1> HIDE DEF request
  <1>7. stored' # NoSettlement => phase' = "finished" /\ stored' = request
    BY <1>1, <1>3, <1>4
  <1>8. CASE reply = "ok"
    BY <1>1, <1>3, <1>4, <1>5, <1>7, <1>8 DEF PaidIsDecided
  <1>9. CASE reply # "ok"
    BY <1>1, <1>4, <1>5, <1>7, <1>9 DEF PaidIsDecided
  <1> QED
    BY <1>8, <1>9

LEMMA ForfeitPays ==
  ASSUME TypeOK, PaidIsDecided, phase # "finished",
         NEW sl \in [Slots -> SlotState], NEW now \in Nat,
         CheckTeamForfeit(sl, now), actionLog' = actionLog
  PROVE  PaidIsDecided'
  <1>1. CASE ForfeitStatus(sl) = "playing"
    BY <1>1, UnpaidStaysUnpaid DEF CheckTeamForfeit
  <1>2. CASE ForfeitStatus(sl) # "playing"
    <2>1. ForfeitStatus(sl) \in Statuses
      BY DEF ForfeitStatus, Statuses
    <2>2. /\ FinishMatch(sl, ForfeitStatus(sl), now)
          /\ slots' = sl /\ status' = ForfeitStatus(sl)
      BY <1>2 DEF CheckTeamForfeit
    <2> QED
      BY <2>1, <2>2, FinishPays
  <1> QED
    BY <1>1, <1>2

LEMMA PlayPays ==
  ASSUME TypeOK, PaidIsDecided, phase # "finished", NEW deadline \in Nat,
         PlayOn(deadline), UNCHANGED <<slots, actionLog>>
  PROVE  PaidIsDecided'
  <1>1. PICK st \in {"playing", "victory", "defeat", "draw"} :
          IF st = "playing" /\ tick <= deadline
            THEN status' = st /\ phase' = "playing" /\ UNCHANGED settleVars
            ELSE /\ status' = (IF st = "playing" THEN "draw" ELSE st)
                 /\ FinishMatch(slots, status', tick)
    BY DEF PlayOn
  <1>2. CASE st = "playing" /\ tick <= deadline
    BY <1>1, <1>2, UnpaidStaysUnpaid
  <1>3. CASE ~(st = "playing" /\ tick <= deadline)
    <2>1. FinishMatch(slots, status', tick) /\ status' \in Statuses
      BY <1>1, <1>3 DEF Statuses
    <2>2. slots \in [Slots -> SlotState] /\ tick \in Nat
      BY DEF TypeOK
    <2> QED
      BY <2>1, <2>2, FinishPays
  <1> QED
    BY <1>2, <1>3

LEMMA PaidStep == TypeOK /\ PaidIsDecided /\ [Next]_vars => PaidIsDecided'
  <1> SUFFICES ASSUME TypeOK, PaidIsDecided, [Next]_vars PROVE PaidIsDecided'
    OBVIOUS
  <1>u. \A s \in Sessions : UserOf[s] \in Slots
    BY ConstantsAssumption
  <1>s. slots \in [Slots -> SlotState] /\ status \in Statuses /\ tick \in Nat
    BY DEF TypeOK
  <1>t. LoopStep => tick' \in Nat
    BY DEF LoopStep, TypeOK
  <1>1. ASSUME NEW s \in Sessions, MatchJoinAttempt(s) PROVE PaidIsDecided'
    BY <1>1, SameDead DEF MatchJoinAttempt, streamVars
  <1>2. ASSUME NEW s \in Sessions, MatchJoin(s) PROVE PaidIsDecided'
    <2>1. \A i \in Slots : Dead(slots', i) = Dead(slots, i)
      BY <1>2, <1>s, <1>u DEF MatchJoin, Adopt, Dead, SlotState
    <2>2. CASE phase = "waiting"
      BY <1>2, <2>2, UnpaidStaysUnpaid DEF MatchJoin
    <2>3. CASE phase # "waiting"
      BY <1>2, <2>1, <2>3, SameDead DEF MatchJoin, streamVars
    <2> QED
      BY <2>2, <2>3
  <1>3. ASSUME NEW s \in Sessions, MatchLeave(s) PROVE PaidIsDecided'
    <2>1. \A i \in Slots : Dead(slots', i) = Dead(slots, i)
      BY <1>3, <1>s, <1>u DEF MatchLeave, Detach, Dead, SlotState
    <2> QED
      BY <1>3, <2>1, SameDead DEF MatchLeave, streamVars
  <1>4. ASSUME NEW s \in Sessions, HandleRejected(s) PROVE PaidIsDecided'
    BY <1>4, SameDead DEF HandleRejected
  <1>5. ASSUME NEW s \in Sessions, HandleReady(s) PROVE PaidIsDecided'
    BY <1>5, UnpaidStaysUnpaid DEF HandleReady
  <1>6. ASSUME NEW s \in Sessions, NEW seq \in 0..MaxActions, HandleDispatch(s, seq)
        PROVE PaidIsDecided'
    BY <1>6, UnpaidStaysUnpaid DEF HandleDispatch, MayDispatch
  <1>7. ASSUME NEW s \in Sessions, SurrenderLobby(s) PROVE PaidIsDecided'
    BY <1>7, UnpaidStaysUnpaid DEF SurrenderLobby, CancelMatch
  <1>8. ASSUME NEW s \in Sessions, SurrenderPlaying(s) PROVE PaidIsDecided'
    BY <1>8, <1>s, <1>u, SlotUpdates, ForfeitPays DEF SurrenderPlaying
  <1>9. ASSUME NEW s \in Sessions, HandleRematchVote(s) PROVE PaidIsDecided'
    BY <1>9, SameDead DEF HandleRematchVote
  <1>10. ASSUME LoopBegin PROVE PaidIsDecided'
    <2>1. CASE LoopCancelled
      BY <2>1, SameDead DEF LoopCancelled, streamVars
    <2>2. CASE LoopRetrySettlement
      <3>1. CASE RetryDue(tick')
        <4>1. FinishMatch(slots, status, tick') /\ tick' \in Nat
          BY <1>t, <2>2, <3>1 DEF LoopRetrySettlement
        <4> QED
          BY <1>s, <2>2, <4>1, FinishPays DEF LoopRetrySettlement, streamVars
      <3>2. CASE ~RetryDue(tick')
        BY <2>2, <3>2, SameDead DEF LoopRetrySettlement, streamVars
      <3> QED
        BY <3>1, <3>2
    <2>3. CASE EnforceReconnectGrace
      <3> DEFINE sl == [i \in Slots |->
                          [slots[i] EXCEPT !.abandoned = @ \/ GraceExpired(i, tick')]]
      <3>1. sl \in [Slots -> SlotState]
        BY DEF TypeOK, SlotState
      <3>2. CheckTeamForfeit(sl, tick') /\ tick' \in Nat /\ phase # "finished"
        BY <1>t, <2>3 DEF EnforceReconnectGrace
      <3> QED
        BY <2>3, <3>1, <3>2, ForfeitPays DEF EnforceReconnectGrace, streamVars
    <2>4. CASE LoopDrain
      BY <2>4, SameDead DEF LoopDrain, streamVars
    <2> QED
      BY <1>10, <2>1, <2>2, <2>3, <2>4 DEF LoopBegin
  <1>11. ASSUME LoopEnd PROVE PaidIsDecided'
    <2>0. tick + MaxMatchTime \in Nat /\ deadlineAt \in Nat
      BY ConstantsAssumption DEF TypeOK, Durations
    <2>1. CASE EndWaiting
      BY <2>1, UnpaidStaysUnpaid DEF EndWaiting, CancelMatch
    <2>2. CASE EndCountdown
      <3>1. CASE deadlineAt' = tick + MaxMatchTime /\ PlayOn(deadlineAt')
        BY <2>0, <2>2, <3>1, PlayPays DEF EndCountdown, streamVars
      <3>2. CASE UNCHANGED settleVars
        BY <2>2, <3>2, UnpaidStaysUnpaid DEF EndCountdown
      <3> QED
        BY <2>2, <3>1, <3>2 DEF EndCountdown, StartMatch, CancelMatch
    <2>3. CASE EndPlaying
      BY <2>0, <2>3, PlayPays DEF EndPlaying, streamVars
    <2>4. CASE EndOver
      BY <2>4, SameDead DEF EndOver, streamVars
    <2> QED
      BY <1>11, <2>1, <2>2, <2>3, <2>4 DEF LoopEnd
  <1>12. ASSUME MatchTerminate PROVE PaidIsDecided'
    BY <1>12, UnpaidStaysUnpaid DEF MatchTerminate, CancelMatch
  <1>13. ASSUME Crash PROVE PaidIsDecided'
    BY <1>13, SameDead DEF Crash, streamVars
  <1>14. CASE UNCHANGED vars
    BY <1>14, SameDead DEF vars, streamVars
  <1> QED
    BY <1>1, <1>2, <1>3, <1>4, <1>5, <1>6, <1>7, <1>8, <1>9, <1>10, <1>11, <1>12, <1>13,
       <1>14 DEF Next, HandleMessage

(* PaidIsDecided of Live2v2: a committed settlement stays the settlement   *)
(* the handler would compute, through every retry and late callback.       *)
THEOREM PaymentCorrect == Spec => []PaidIsDecided
  <1>1. Init => PaidIsDecided
    BY DEF Init, PaidIsDecided
  <1> QED
    BY <1>1, PaidStep, TypeCorrect, PTL DEF Spec

-----------------------------------------------------------------------------
(* Presence: NoGhostTeam is inductive with what the fields of a slot say   *)
(* together and with how long a countdown has run.                         *)

(* Who is connected has a session and has joined; who joined and is away   *)
(* has the time he left.                                                   *)
Linked ==
  \A i \in Slots :
    /\ slots[i].connected <=> slots[i].presence # NoSession
    /\ slots[i].presence # NoSession => slots[i].joined
    /\ slots[i].joined /\ slots[i].presence = NoSession /\ ~Dead(slots, i) =>
         slots[i].disconnectedAt # Never

(* Nobody has given up before the match starts.                            *)
LobbyIsAlive ==
  phase \in {"waiting", "countdown"} => \A i \in Slots : ~Dead(slots, i)

(* A countdown began with everybody there and does not outlast its end.    *)
Counting ==
  phase = "countdown" =>
    /\ \A i \in Slots :
         /\ slots[i].joined
         /\ slots[i].presence = NoSession =>
              /\ slots[i].disconnectedAt # Never
              /\ slots[i].disconnectedAt >= countdownEnds - Countdown
    /\ tick >= countdownEnds - Countdown
    /\ LET last == IF pc = "draining" THEN tick - 1 ELSE tick IN
       last < countdownEnds \/ last = countdownEnds - Countdown

Finals == {"victory", "defeat", "draw"}
DecidedHasResult == phase = "finished" => status \in Finals

Present == Linked /\ LobbyIsAlive /\ Counting /\ NoGhostTeam /\ DecidedHasResult

(* What each update of a slot changes.                                     *)
LEMMA Adopted ==
  ASSUME TypeOK, NEW i \in Slots, NEW s \in Sessions
  PROVE  LET sl == Adopt(i, s) IN
         /\ sl[i].presence = s /\ sl[i].joined /\ sl[i].connected
         /\ sl[i].abandoned = slots[i].abandoned /\ sl[i].surrendered = slots[i].surrendered
         /\ sl[i].nextSeq = slots[i].nextSeq
         /\ \A j \in Slots : j # i => sl[j] = slots[j]
  BY DEF TypeOK, SlotState, Adopt

LEMMA Detached ==
  ASSUME TypeOK, NEW i \in Slots
  PROVE  LET sl == Detach(i) IN
         /\ sl[i].presence = NoSession /\ sl[i].disconnectedAt = tick
         /\ sl[i].connected = FALSE /\ sl[i].joined = slots[i].joined
         /\ sl[i].abandoned = slots[i].abandoned /\ sl[i].surrendered = slots[i].surrendered
         /\ sl[i].nextSeq = slots[i].nextSeq
         /\ \A j \in Slots : j # i => sl[j] = slots[j]
  BY DEF TypeOK, SlotState, Detach

Surrendered(i) == [slots EXCEPT ![i].surrendered = TRUE, ![i].connected = FALSE,
                                ![i].presence = NoSession]

LEMMA GaveUp ==
  ASSUME TypeOK, NEW i \in Slots
  PROVE  LET sl == Surrendered(i) IN
         /\ sl[i].presence = NoSession /\ sl[i].surrendered
         /\ sl[i].connected = FALSE /\ sl[i].joined = slots[i].joined
         /\ sl[i].abandoned = slots[i].abandoned /\ sl[i].nextSeq = slots[i].nextSeq
         /\ \A j \in Slots : j # i => sl[j] = slots[j]
  BY DEF TypeOK, SlotState, Surrendered

Aged(now) == [i \in Slots |-> [slots[i] EXCEPT !.abandoned = @ \/ GraceExpired(i, now)]]

LEMMA GrewOlder ==
  ASSUME TypeOK, NEW now \in Nat, NEW i \in Slots
  PROVE  LET sl == Aged(now) IN
         /\ sl[i].presence = slots[i].presence /\ sl[i].joined = slots[i].joined
         /\ sl[i].connected = slots[i].connected /\ sl[i].nextSeq = slots[i].nextSeq
         /\ sl[i].disconnectedAt = slots[i].disconnectedAt
         /\ sl[i].surrendered = slots[i].surrendered
         /\ sl[i].abandoned <=> slots[i].abandoned \/ GraceExpired(i, now)
  <1>1. slots[i] \in SlotState
    BY DEF TypeOK
  <1> DEFINE expired == GraceExpired(i, now)
             row == [slots[i] EXCEPT !.abandoned = @ \/ expired]
  <1>2. Aged(now)[i] = row
    BY DEF Aged
  <1>3. expired \in BOOLEAN
    BY DEF GraceExpired, Expired
  <1> HIDE DEF expired
  <1>4. /\ row.presence = slots[i].presence /\ row.joined = slots[i].joined
        /\ row.connected = slots[i].connected /\ row.nextSeq = slots[i].nextSeq
        /\ row.disconnectedAt = slots[i].disconnectedAt
        /\ row.surrendered = slots[i].surrendered
    BY <1>1 DEF SlotState
  <1>5. row.abandoned = (slots[i].abandoned \/ expired)
    BY <1>1 DEF SlotState
  <1> HIDE DEF row
  <1> QED BY <1>2, <1>4, <1>5 DEF expired

(* A match that is over owes its slots nothing more.                       *)
LEMMA OverIsPresent ==
  ASSUME Linked', phase' \in {"finished", "cancelled"},
         phase' = "finished" => status' \in Finals
  PROVE  Present'
  BY DEF Present, LobbyIsAlive, Counting, NoGhostTeam, DecidedHasResult

LEMMA SameSlots ==
  ASSUME Present, slots' = slots
  PROVE  Linked'
  BY DEF Present, Linked, Dead

LEMMA NothingMoved ==
  ASSUME Present, UNCHANGED <<pc, tick, phase, slots, status, countdownEnds>>
  PROVE  Present'
  BY SameSlots DEF Present, LobbyIsAlive, Counting, NoGhostTeam, DecidedHasResult, Dead, TeamDead

LEMMA FinishIsFinal ==
  ASSUME NEW sl, NEW st, NEW now, FinishMatch(sl, st, now)
  PROVE  phase' = "finished"
  BY DEF FinishMatch

LEMMA ForfeitPresent ==
  ASSUME NEW sl, NEW now, CheckTeamForfeit(sl, now), phase = "playing", Linked',
         \A i \in Slots : sl[i].joined,
         \A i \in Slots : sl[i].presence = NoSession /\ ~Dead(sl, i) =>
           sl[i].disconnectedAt # Never /\ tick' - sl[i].disconnectedAt <= Grace
  PROVE  Present'
  <1>1. CASE ForfeitStatus(sl) = "playing"
    <2>1. slots' = sl /\ phase' = "playing"
      BY <1>1 DEF CheckTeamForfeit
    <2>2. \A team \in Teams : ~TeamDead(sl, team)
      BY <1>1 DEF ForfeitStatus, Teams
    <2>3. NoGhostTeam'
      BY <2>1, <2>2 DEF NoGhostTeam, TeamDead, Dead
    <2> QED BY <2>1, <2>3 DEF Present, LobbyIsAlive, Counting, DecidedHasResult
  <1>2. CASE ForfeitStatus(sl) # "playing"
    <2>1. phase' = "finished" /\ status' = ForfeitStatus(sl)
      BY <1>2, FinishIsFinal DEF CheckTeamForfeit
    <2> QED BY <1>2, <2>1, OverIsPresent DEF ForfeitStatus, Finals
  <1> QED BY <1>1, <1>2

LEMMA PlayPresent ==
  ASSUME Present, NEW deadline, PlayOn(deadline), UNCHANGED <<slots, tick>>,
         phase = "playing" \/ phase = "countdown",
         NoGhostTeam'
  PROVE  Present'
  <1>1. PICK st \in {"playing", "victory", "defeat", "draw"} :
          IF st = "playing" /\ tick <= deadline
            THEN status' = st /\ phase' = "playing" /\ UNCHANGED settleVars
            ELSE /\ status' = (IF st = "playing" THEN "draw" ELSE st)
                 /\ FinishMatch(slots, status', tick)
    BY DEF PlayOn
  <1>2. Linked'
    BY SameSlots
  <1>3. CASE st = "playing" /\ tick <= deadline
    BY <1>1, <1>2, <1>3 DEF Present, LobbyIsAlive, Counting, DecidedHasResult
  <1>4. CASE ~(st = "playing" /\ tick <= deadline)
    BY <1>1, <1>2, <1>4, FinishIsFinal, OverIsPresent DEF Finals
  <1> QED BY <1>3, <1>4

(* The countdown is not longer than the grace: whoever is away when play   *)
(* begins still has time to come back.                                     *)
LEMMA StartsWithinGrace ==
  ASSUME TypeOK, Present, phase = "countdown", pc = "draining", UNCHANGED <<slots, tick>>
  PROVE  NoGhostTeam'
  <1>1. /\ Countdown \in Nat /\ Grace \in Nat /\ Countdown <= Grace /\ Grace > 0
        /\ tick \in Nat /\ countdownEnds \in Nat
    BY ConstantsAssumption DEF TypeOK, Durations
  <1>2. tick - (countdownEnds - Countdown) <= Grace
    BY <1>1 DEF Present, Counting
  <1>3. ASSUME NEW i \in Slots, slots[i].presence = NoSession
        PROVE  slots[i].disconnectedAt # Never /\ tick - slots[i].disconnectedAt <= Grace
    <2>1. /\ slots[i].disconnectedAt # Never
          /\ slots[i].disconnectedAt >= countdownEnds - Countdown
      BY <1>3 DEF Present, Counting
    <2>2. slots[i].disconnectedAt \in Nat
      BY <2>1 DEF TypeOK, SlotState
    <2> QED BY <1>1, <1>2, <2>1, <2>2
  <1>4. \A i \in Slots : slots[i].joined /\ ~Dead(slots, i)
    BY DEF Present, Counting, LobbyIsAlive
  <1>5. \A team \in Teams : \E i \in Slots : TeamOf(i) = team
    BY ConstantsAssumption DEF Teams, TeamOf
  <1>6. \A team \in Teams : ~TeamDead(slots, team)
    BY <1>4, <1>5 DEF TeamDead
  <1> QED BY <1>3, <1>4, <1>6 DEF NoGhostTeam, TeamDead, Dead

(* Nothing of a slot that presence depends on is ready or nextSeq.         *)
LEMMA Untouched ==
  ASSUME TypeOK, Present, NEW i \in Slots,
         slots' \in {[slots EXCEPT ![i].ready = TRUE], [slots EXCEPT ![i].nextSeq = @ + 1]},
         UNCHANGED <<pc, tick, phase, status, countdownEnds>>
  PROVE  Present'
  <1>1. \A j \in Slots :
          /\ slots'[j].presence = slots[j].presence /\ slots'[j].joined = slots[j].joined
          /\ slots'[j].connected = slots[j].connected
          /\ slots'[j].disconnectedAt = slots[j].disconnectedAt
          /\ slots'[j].abandoned = slots[j].abandoned
          /\ slots'[j].surrendered = slots[j].surrendered
    <2>1. CASE slots' = [slots EXCEPT ![i].ready = TRUE]
      BY <2>1 DEF TypeOK, SlotState
    <2>2. CASE slots' = [slots EXCEPT ![i].nextSeq = @ + 1]
      BY <2>2 DEF TypeOK, SlotState
    <2> QED BY <2>1, <2>2
  <1>2. \A j \in Slots : Dead(slots', j) <=> Dead(slots, j)
    BY <1>1 DEF Dead
  <1>3. Linked' /\ LobbyIsAlive' /\ DecidedHasResult'
    BY <1>1, <1>2 DEF Present, Linked, LobbyIsAlive, DecidedHasResult
  <1>4. Counting'
    BY <1>1 DEF Present, Counting
  <1>5. NoGhostTeam'
    BY <1>1, <1>2 DEF Present, NoGhostTeam, TeamDead
  <1> QED BY <1>3, <1>4, <1>5 DEF Present

LEMMA PresentStep == TypeOK /\ Present /\ [Next]_vars => Present'
  <1> SUFFICES ASSUME TypeOK, Present, [Next]_vars PROVE Present'
    OBVIOUS
  <1>u. \A s \in Sessions : UserOf[s] \in Slots /\ s # NoSession
    BY ConstantsAssumption
  <1>t. /\ tick \in Nat /\ tick - tick = 0 /\ Grace \in Nat /\ Countdown \in Nat
        /\ countdownEnds \in Nat
    BY ConstantsAssumption DEF TypeOK, Durations
  <1>1. ASSUME NEW s \in Sessions, MatchJoinAttempt(s) PROVE Present'
    BY <1>1, NothingMoved DEF MatchJoinAttempt, lobbyVars
  <1>2. ASSUME NEW s \in Sessions, MatchJoin(s) PROVE Present'
    <2> DEFINE i == UserOf[s]
    <2>1. i \in Slots /\ s # NoSession
      BY <1>u
    <2> HIDE DEF i
    <2>2. slots' = Adopt(i, s) /\ tick' = tick /\ pc' = pc /\ status' = status
      BY <1>2 DEF MatchJoin, i
    <2>3. /\ slots'[i].presence = s /\ slots'[i].joined /\ slots'[i].connected
          /\ slots'[i].abandoned = slots[i].abandoned
          /\ slots'[i].surrendered = slots[i].surrendered
          /\ \A j \in Slots : j # i => slots'[j] = slots[j]
      BY <2>1, <2>2, Adopted
    <2>4. \A j \in Slots : Dead(slots', j) <=> Dead(slots, j)
      BY <2>3 DEF Dead
    <2>5. Linked'
      BY <2>1, <2>3, <2>4 DEF Present, Linked
    <2>6. LobbyIsAlive' /\ DecidedHasResult' /\ NoGhostTeam'
      <3>1. phase' = phase \/ (phase = "waiting" /\ phase' = "countdown")
        BY <1>2 DEF MatchJoin
      <3>2. LobbyIsAlive' /\ DecidedHasResult'
        BY <2>2, <2>4, <3>1 DEF Present, LobbyIsAlive, DecidedHasResult
      <3>3. NoGhostTeam'
        BY <2>1, <2>2, <2>3, <2>4, <3>1 DEF Present, NoGhostTeam, TeamDead
      <3> QED BY <3>2, <3>3
    <2>7. Counting'
      <3>1. CASE phase = "waiting" /\ AllSlotsJoined(slots')
        <4>1. countdownEnds' = tick + Countdown /\ pc' = "idle"
          BY <1>2, <3>1 DEF MatchJoin
        <4>2. tick' = countdownEnds' - Countdown /\ tick' \in Nat
          BY <1>t, <2>2, <4>1
        <4>3. \A j \in Slots : slots'[j].presence # NoSession /\ slots'[j].joined
          BY <2>5, <3>1 DEF AllSlotsJoined, Linked
        <4>4. tick' >= countdownEnds' - Countdown /\ pc' # "draining"
          BY <4>1, <4>2
        <4> QED BY <4>2, <4>3, <4>4 DEF Counting
      <3>2. CASE ~(phase = "waiting" /\ AllSlotsJoined(slots'))
        <4>1. phase' = phase /\ countdownEnds' = countdownEnds
          BY <1>2, <3>2 DEF MatchJoin
        <4> QED BY <2>1, <2>2, <2>3, <4>1 DEF Present, Counting
      <3> QED BY <3>1, <3>2
    <2> QED BY <2>5, <2>6, <2>7 DEF Present
  <1>3. ASSUME NEW s \in Sessions, MatchLeave(s) PROVE Present'
    <2>1. CASE slots' = slots
      BY <1>3, <2>1, NothingMoved DEF MatchLeave, lobbyVars
    <2>2. CASE slots' # slots
      <3> DEFINE i == UserOf[s]
      <3>1. /\ i \in Slots /\ slots' = Detach(i) /\ slots[i].joined
            /\ UNCHANGED <<pc, tick, phase, status, countdownEnds>>
            /\ phase \notin {"finished", "cancelled"}
        BY <1>3, <1>u, <2>2 DEF MatchLeave, Bound, lobbyVars
      <3> HIDE DEF i
      <3>2. /\ slots'[i].presence = NoSession /\ slots'[i].disconnectedAt = tick
            /\ slots'[i].connected = FALSE /\ slots'[i].joined = slots[i].joined
            /\ slots'[i].abandoned = slots[i].abandoned
            /\ slots'[i].surrendered = slots[i].surrendered
            /\ \A j \in Slots : j # i => slots'[j] = slots[j]
        BY <3>1, Detached
      <3>3. \A j \in Slots : Dead(slots', j) <=> Dead(slots, j)
        BY <3>2 DEF Dead
      <3>4. tick # Never
        BY <1>t, ConstantsAssumption
      <3>5. Linked'
        BY <3>1, <3>2, <3>3, <3>4 DEF Present, Linked
      <3>6. LobbyIsAlive' /\ DecidedHasResult'
        BY <3>1, <3>3 DEF Present, LobbyIsAlive, DecidedHasResult
      <3>7. NoGhostTeam'
        <4> SUFFICES ASSUME phase = "playing" PROVE NoGhostTeam'
          BY <3>1 DEF NoGhostTeam
        <4>1. \A team \in Teams : ~TeamDead(slots', team)
          BY <3>3 DEF Present, NoGhostTeam, TeamDead
        <4>2. \A j \in Slots : slots'[j].joined
          BY <3>1, <3>2 DEF Present, NoGhostTeam
        <4>3. ASSUME NEW j \in Slots, slots'[j].presence = NoSession, ~Dead(slots', j)
              PROVE  /\ slots'[j].disconnectedAt # Never
                     /\ tick' - slots'[j].disconnectedAt <= Grace
          <5>1. CASE j = i
            BY <1>t, <3>1, <3>2, <3>4, <5>1
          <5>2. CASE j # i
            BY <3>1, <3>2, <3>3, <4>3, <5>2 DEF Present, NoGhostTeam
          <5> QED BY <5>1, <5>2
        <4> QED BY <4>1, <4>2, <4>3 DEF NoGhostTeam
      <3>8. Counting'
        <4> SUFFICES ASSUME phase = "countdown" PROVE Counting'
          BY <3>1 DEF Counting
        <4>1. /\ pc = "idle"
              /\ tick < countdownEnds \/ tick = countdownEnds - Countdown
          BY <1>3 DEF MatchLeave, Present, Counting
        <4>2. tick >= countdownEnds - Countdown
          BY DEF Present, Counting
        <4> QED BY <3>1, <3>2, <3>4, <4>1, <4>2 DEF Present, Counting
      <3> QED BY <3>5, <3>6, <3>7, <3>8 DEF Present
    <2> QED BY <2>1, <2>2
  <1>4. ASSUME NEW s \in Sessions, HandleRejected(s) PROVE Present'
    BY <1>4, NothingMoved DEF HandleRejected, lobbyVars
  <1>5. ASSUME NEW s \in Sessions, HandleReady(s) PROVE Present'
    <2> DEFINE i == UserOf[s]
    <2>1. /\ i \in Slots /\ slots' = [slots EXCEPT ![i].ready = TRUE]
          /\ UNCHANGED <<pc, tick, phase, status, countdownEnds>>
      BY <1>5, <1>u DEF HandleReady, lobbyVars
    <2> HIDE DEF i
    <2> QED BY <2>1, Untouched
  <1>6. ASSUME NEW s \in Sessions, NEW seq \in 0..MaxActions, HandleDispatch(s, seq)
        PROVE Present'
    <2> DEFINE i == UserOf[s]
    <2>1. /\ i \in Slots /\ slots' = [slots EXCEPT ![i].nextSeq = @ + 1]
          /\ UNCHANGED <<pc, tick, phase, status, countdownEnds>>
      BY <1>6, <1>u DEF HandleDispatch, lobbyVars
    <2> HIDE DEF i
    <2> QED BY <2>1, Untouched
  <1>7. ASSUME NEW s \in Sessions, SurrenderLobby(s) PROVE Present'
    <2>1. slots' = slots /\ phase' = "cancelled"
      BY <1>7 DEF SurrenderLobby, CancelMatch
    <2> QED BY <2>1, SameSlots, OverIsPresent
  <1>8. ASSUME NEW s \in Sessions, SurrenderPlaying(s) PROVE Present'
    <2> DEFINE i == UserOf[s]
               sl == Surrendered(i)
    <2>1. i \in Slots /\ CheckTeamForfeit(sl, tick) /\ phase = "playing" /\ tick' = tick
      BY <1>8, <1>u DEF SurrenderPlaying, Surrendered
    <2> HIDE DEF i
    <2>2. /\ sl[i].presence = NoSession /\ sl[i].surrendered
          /\ sl[i].connected = FALSE /\ sl[i].joined = slots[i].joined
          /\ \A j \in Slots : j # i => sl[j] = slots[j]
      BY <2>1, GaveUp
    <2> HIDE DEF sl
    <2>3. slots' = sl
      BY <2>1 DEF CheckTeamForfeit
    <2>4. Dead(sl, i) /\ \A j \in Slots : j # i => (Dead(sl, j) <=> Dead(slots, j))
      BY <2>2 DEF Dead
    <2>5. Linked'
      BY <2>1, <2>2, <2>3, <2>4 DEF Present, Linked
    <2>6. \A j \in Slots : sl[j].joined
      BY <2>1, <2>2 DEF Present, NoGhostTeam
    <2>7. \A j \in Slots : sl[j].presence = NoSession /\ ~Dead(sl, j) =>
            sl[j].disconnectedAt # Never /\ tick' - sl[j].disconnectedAt <= Grace
      BY <2>1, <2>2, <2>4 DEF Present, NoGhostTeam
    <2> QED BY <2>1, <2>5, <2>6, <2>7, ForfeitPresent
  <1>9. ASSUME NEW s \in Sessions, HandleRematchVote(s) PROVE Present'
    BY <1>9, NothingMoved DEF HandleRematchVote, lobbyVars
  <1>10. ASSUME LoopBegin PROVE Present'
    <2>1. CASE LoopCancelled
      <3>1. slots' = slots /\ phase' = "cancelled"
        BY <2>1 DEF LoopCancelled
      <3> QED BY <3>1, SameSlots, OverIsPresent
    <2>2. CASE LoopRetrySettlement
      <3>1. slots' = slots /\ phase' = "finished" /\ status' \in Finals
        BY <2>2, FinishIsFinal DEF LoopRetrySettlement, Present, DecidedHasResult
      <3> QED BY <3>1, SameSlots, OverIsPresent
    <2>3. CASE EnforceReconnectGrace
      <3> DEFINE now == tick'
                 sl == Aged(now)
      <3>1. /\ now \in Nat /\ now = tick' /\ phase = "playing"
            /\ CheckTeamForfeit(sl, now)
        BY <2>3, <1>t DEF EnforceReconnectGrace, LoopStep, Aged
      <3> HIDE DEF now
      <3>2. \A j \in Slots :
              /\ sl[j].presence = slots[j].presence /\ sl[j].joined = slots[j].joined
              /\ sl[j].connected = slots[j].connected
              /\ sl[j].disconnectedAt = slots[j].disconnectedAt
              /\ sl[j].surrendered = slots[j].surrendered
              /\ sl[j].abandoned <=> slots[j].abandoned \/ GraceExpired(j, now)
        BY <3>1, GrewOlder
      <3> HIDE DEF sl
      <3>3. slots' = sl
        BY <3>1 DEF CheckTeamForfeit
      <3>4. \A j \in Slots : Dead(sl, j) <=> Dead(slots, j) \/ GraceExpired(j, now)
        BY <3>2 DEF Dead
      <3>5. Linked'
        BY <3>2, <3>3, <3>4 DEF Present, Linked
      <3>6. \A j \in Slots : sl[j].joined
        BY <3>1, <3>2 DEF Present, NoGhostTeam
      <3>7. ASSUME NEW j \in Slots, sl[j].presence = NoSession, ~Dead(sl, j)
            PROVE  sl[j].disconnectedAt # Never /\ tick' - sl[j].disconnectedAt <= Grace
        <4>1. /\ slots[j].presence = NoSession /\ ~Dead(slots, j) /\ ~GraceExpired(j, now)
              /\ sl[j].disconnectedAt = slots[j].disconnectedAt
          BY <3>2, <3>4, <3>7
        <4>2. ~slots[j].connected /\ slots[j].disconnectedAt # Never
          BY <3>1, <4>1 DEF Present, Linked, NoGhostTeam
        <4>3. slots[j].disconnectedAt \in Nat
          BY <4>2 DEF TypeOK, SlotState
        <4>4. ~(now - slots[j].disconnectedAt > Grace)
          BY <4>1, <4>2 DEF GraceExpired, Expired
        <4> QED BY <1>t, <3>1, <4>1, <4>2, <4>3, <4>4
      <3> QED BY <3>1, <3>5, <3>6, <3>7, ForfeitPresent
    <2>4. CASE LoopDrain
      <3>1. /\ UNCHANGED <<phase, slots, status, countdownEnds>> /\ phase # "playing"
            /\ pc = "idle" /\ pc' = "draining" /\ tick' = tick + 1
        BY <2>4 DEF LoopDrain, LoopStep, lobbyVars
      <3>2. Counting'
        BY <1>t, <3>1 DEF Present, Counting
      <3> QED
        BY <3>1, <3>2, SameSlots
        DEF Present, LobbyIsAlive, NoGhostTeam, DecidedHasResult, Dead
    <2> QED BY <1>10, <2>1, <2>2, <2>3, <2>4 DEF LoopBegin
  <1>11. ASSUME LoopEnd PROVE Present'
    <2>0. Linked' /\ slots' = slots /\ tick' = tick
      BY <1>11, SameSlots DEF LoopEnd, EndWaiting, EndCountdown, EndPlaying, EndOver
    <2>1. CASE EndWaiting
      <3>1. CASE phase' = "cancelled"
        BY <2>0, <3>1, OverIsPresent
      <3>2. CASE phase' = "waiting"
        BY <2>0, <2>1, <3>2
        DEF EndWaiting, Present, LobbyIsAlive, Counting, NoGhostTeam, DecidedHasResult, Dead
      <3>3. CASE phase' = "countdown"
        <4>1. AllSlotsJoined(slots) /\ countdownEnds' = tick + Countdown /\ pc' = "idle"
              /\ phase = "waiting"
          BY <2>1, <3>3 DEF EndWaiting, CancelMatch, LoopReturn
        <4>2. \A j \in Slots : slots'[j].presence # NoSession /\ slots'[j].joined
          BY <2>0, <4>1 DEF AllSlotsJoined, Linked
        <4>3. tick' = countdownEnds' - Countdown
          BY <1>t, <2>0, <4>1
        <4>4. Counting'
          BY <4>1, <4>2, <4>3 DEF Counting
        <4> QED
          BY <2>0, <3>3, <4>1, <4>4
          DEF Present, LobbyIsAlive, NoGhostTeam, DecidedHasResult, Dead
      <3> QED BY <2>1, <3>1, <3>2, <3>3 DEF EndWaiting, CancelMatch
    <2>2. CASE EndCountdown
      <3>1. phase = "countdown" /\ pc = "draining" /\ pc' = "idle"
            /\ countdownEnds' = countdownEnds
        BY <2>2 DEF EndCountdown, LoopReturn
      <3>2. CASE PlayOn(deadlineAt')
        BY <2>0, <3>1, <3>2, StartsWithinGrace, PlayPresent
      <3>3. CASE phase' = "cancelled"
        BY <2>0, <3>3, OverIsPresent
      <3>4. CASE tick < countdownEnds /\ UNCHANGED <<phase, status>>
        <4>1. Counting'
          BY <2>0, <3>1, <3>4 DEF Present, Counting
        <4> QED
          BY <2>0, <3>1, <3>4, <4>1
          DEF Present, LobbyIsAlive, NoGhostTeam, DecidedHasResult, Dead
      <3> QED BY <2>2, <3>2, <3>3, <3>4 DEF EndCountdown, StartMatch, CancelMatch
    <2>3. CASE EndPlaying
      <3>1. PlayOn(deadlineAt) /\ phase = "playing"
        BY <2>3 DEF EndPlaying
      <3>2. NoGhostTeam'
        BY <2>0, <3>1 DEF Present, NoGhostTeam, TeamDead, Dead
      <3> QED BY <2>0, <3>1, <3>2, PlayPresent
    <2>4. CASE EndOver
      <3>1. phase' = phase /\ phase \in {"finished", "cancelled"} /\ status' = status
        BY <2>4 DEF EndOver
      <3> QED BY <2>0, <3>1, OverIsPresent DEF Present, DecidedHasResult
    <2> QED BY <1>11, <2>1, <2>2, <2>3, <2>4 DEF LoopEnd
  <1>12. ASSUME MatchTerminate PROVE Present'
    <2>1. slots' = slots /\ phase' = "cancelled"
      BY <1>12 DEF MatchTerminate, CancelMatch
    <2> QED BY <2>1, SameSlots, OverIsPresent
  <1>13. ASSUME Crash PROVE Present'
    BY <1>13, NothingMoved DEF Crash, lobbyVars
  <1>14. CASE UNCHANGED vars
    BY <1>14, NothingMoved DEF vars, lobbyVars
  <1> QED
    BY <1>1, <1>2, <1>3, <1>4, <1>5, <1>6, <1>7, <1>8, <1>9, <1>10, <1>11, <1>12, <1>13,
       <1>14 DEF Next, HandleMessage

LEMMA PresentInit == Init => Present
  <1> SUFFICES ASSUME Init PROVE Present
    OBVIOUS
  <1>1. \A i \in Slots :
          /\ slots[i].connected = FALSE /\ slots[i].presence = NoSession
          /\ slots[i].joined = FALSE /\ slots[i].abandoned = FALSE
          /\ slots[i].surrendered = FALSE
    BY DEF Init, EmptySlot, FreshSlot
  <1>2. \A i \in Slots : ~Dead(slots, i)
    BY <1>1 DEF Dead
  <1>3. Linked /\ LobbyIsAlive
    BY <1>1, <1>2 DEF Linked, LobbyIsAlive
  <1> QED BY <1>3 DEF Init, Present, Counting, NoGhostTeam, DecidedHasResult

(* No match plays on with a whole team gone, or with a player who never    *)
(* came or whose absence no timer ends.                                    *)
THEOREM PresenceCorrect == Spec => []NoGhostTeam
  <1>1. Present => NoGhostTeam
    BY DEF Present
  <1> QED
    BY <1>1, PresentInit, PresentStep, TypeCorrect, PTL DEF Spec

-----------------------------------------------------------------------------
(* What a step may take from a slot.                                       *)

Justified ==
  \A i \in Slots :
    LET old == slots[i].presence IN
    (old # NoSession /\ slots'[i].presence # old) =>
      \/ old \in tracked \ tracked'
      \/ slots'[i].surrendered /\ slots'[i].presence = NoSession
      \/ slots'[i].presence \in pending \ pending'

LEMMA PresenceKept ==
  ASSUME \A i \in Slots : slots'[i].presence = slots[i].presence
  PROVE  Justified
  BY DEF Justified

(* A slot loses its session to its own leave, to a surrender or to a newer *)
(* session of its user; never to the late leave of an evicted one.         *)
THEOREM SessionCorrect == Spec => SessionLossIsJustified
  <1>u. \A s \in Sessions : UserOf[s] \in Slots
    BY ConstantsAssumption
  <1>1. ASSUME TypeOK, [Next]_vars PROVE [Justified]_vars
    <2>1. CASE UNCHANGED vars
      BY <2>1
    <2>2. ASSUME NEW s \in Sessions, MatchJoin(s) PROVE Justified
      <3>1. /\ slots' = Adopt(UserOf[s], s) /\ s \in pending /\ pending' = pending \ {s}
        BY <2>2 DEF MatchJoin
      <3>2. /\ slots'[UserOf[s]].presence = s
            /\ \A j \in Slots : j # UserOf[s] => slots'[j] = slots[j]
        BY <1>1, <1>u, <3>1, Adopted
      <3> QED BY <3>1, <3>2 DEF Justified
    <2>3. ASSUME NEW s \in Sessions, MatchLeave(s) PROVE Justified
      <3>1. s \in tracked /\ tracked' = tracked \ {s}
        BY <2>3 DEF MatchLeave
      <3>2. CASE slots' = slots
        BY <3>2, PresenceKept
      <3>3. CASE slots' = Detach(UserOf[s]) /\ slots[UserOf[s]].presence = s
        <4>1. \A j \in Slots : j # UserOf[s] => slots'[j] = slots[j]
          BY <1>1, <1>u, <3>3, Detached
        <4> QED BY <3>1, <3>3, <4>1 DEF Justified
      <3> QED BY <2>3, <3>2, <3>3 DEF MatchLeave, Bound
    <2>4. ASSUME NEW s \in Sessions, HandleReady(s) PROVE Justified
      <3>1. slots' = [slots EXCEPT ![UserOf[s]].ready = TRUE]
        BY <2>4 DEF HandleReady
      <3>2. \A i \in Slots : slots'[i].presence = slots[i].presence
        BY <1>1, <1>u, <3>1 DEF TypeOK, SlotState
      <3> QED BY <3>2, PresenceKept
    <2>5. ASSUME NEW s \in Sessions, NEW seq \in 0..MaxActions, HandleDispatch(s, seq)
          PROVE  Justified
      <3>1. slots' = [slots EXCEPT ![UserOf[s]].nextSeq = @ + 1]
        BY <2>5 DEF HandleDispatch
      <3>2. \A i \in Slots : slots'[i].presence = slots[i].presence
        BY <1>1, <1>u, <3>1 DEF TypeOK, SlotState
      <3> QED BY <3>2, PresenceKept
    <2>6. ASSUME NEW s \in Sessions, SurrenderPlaying(s) PROVE Justified
      <3>1. slots' = Surrendered(UserOf[s])
        BY <2>6 DEF SurrenderPlaying, CheckTeamForfeit, Surrendered
      <3>2. /\ slots'[UserOf[s]].presence = NoSession /\ slots'[UserOf[s]].surrendered
            /\ \A j \in Slots : j # UserOf[s] => slots'[j] = slots[j]
        BY <1>1, <1>u, <3>1, GaveUp
      <3> QED BY <3>2 DEF Justified
    <2>7. CASE EnforceReconnectGrace
      <3>1. slots' = Aged(tick') /\ tick' \in Nat
        BY <1>1, <2>7 DEF EnforceReconnectGrace, CheckTeamForfeit, Aged, LoopStep, TypeOK
      <3>2. \A i \in Slots : slots'[i].presence = slots[i].presence
        BY <1>1, <3>1, GrewOlder
      <3> QED BY <3>2, PresenceKept
    <2>8. ASSUME slots' = slots PROVE Justified
      BY <2>8, PresenceKept
    <2> QED
      BY <1>1, <2>1, <2>2, <2>3, <2>4, <2>5, <2>6, <2>7, <2>8
      DEF Next, MatchJoinAttempt, HandleMessage, HandleRejected, SurrenderLobby,
          HandleRematchVote, LoopBegin, LoopCancelled, LoopRetrySettlement, LoopDrain,
          LoopEnd, EndWaiting, EndCountdown, EndPlaying, EndOver, MatchTerminate, Crash
  <1> QED
    BY <1>1, TypeCorrect, PTL DEF Spec, SessionLossIsJustified, Justified

Earned ==
  (phase = "playing" /\ phase' = "finished" /\ ~(pc = "draining" /\ pc' = "idle")) =>
    LET loser == IF status' = "defeat" THEN "A" ELSE "B" IN
    /\ status' \in {"victory", "defeat"}
    /\ \A i \in Slots : TeamOf(i) = loser =>
         \/ slots'[i].surrendered
         \/ slots'[i].abandoned
    /\ \A i \in Slots : slots'[i].abandoned /\ ~slots[i].abandoned =>
         slots[i].presence = NoSession /\ ~slots[i].surrendered

(* checkTeamForfeit ends a match only with a team that is dead.            *)
LEMMA ForfeitEarned ==
  ASSUME NEW sl, NEW now, CheckTeamForfeit(sl, now),
         \A i \in Slots : sl[i].abandoned /\ ~slots[i].abandoned =>
           slots[i].presence = NoSession /\ ~slots[i].surrendered
  PROVE  Earned
  <1>1. CASE ForfeitStatus(sl) = "playing"
    BY <1>1 DEF CheckTeamForfeit, Earned
  <1>2. CASE ForfeitStatus(sl) = "defeat" /\ TeamDead(sl, "A")
    BY <1>2 DEF CheckTeamForfeit, TeamDead, Dead, Earned
  <1>3. CASE ForfeitStatus(sl) = "victory" /\ TeamDead(sl, "B")
    BY <1>3 DEF CheckTeamForfeit, TeamDead, Dead, Earned
  <1> QED BY <1>1, <1>2, <1>3 DEF ForfeitStatus

(* A match that is not played to its end is lost by a team all of whose    *)
(* players surrendered or stayed away longer than their grace.             *)
THEOREM ForfeitCorrect == Spec => ForfeitIsEarned
  <1>u. \A s \in Sessions : UserOf[s] \in Slots
    BY ConstantsAssumption
  <1>1. ASSUME TypeOK, Present, [Next]_vars PROVE [Earned]_vars
    <2>1. CASE UNCHANGED vars
      BY <2>1
    <2>2. CASE EnforceReconnectGrace
      <3> DEFINE now == tick'
      <3>1. /\ now \in Nat /\ CheckTeamForfeit(Aged(now), now) /\ phase = "playing"
        BY <1>1, <2>2 DEF EnforceReconnectGrace, Aged, LoopStep, TypeOK
      <3> HIDE DEF now
      <3>2. \A i \in Slots :
              Aged(now)[i].abandoned <=> slots[i].abandoned \/ GraceExpired(i, now)
        BY <1>1, <3>1, GrewOlder
      <3>3. \A i \in Slots : GraceExpired(i, now) =>
              slots[i].presence = NoSession /\ ~slots[i].surrendered
        BY <1>1 DEF GraceExpired, Expired, Dead, Present, Linked
      <3> QED BY <3>1, <3>2, <3>3, ForfeitEarned
    <2>3. ASSUME NEW s \in Sessions, SurrenderPlaying(s) PROVE Earned
      <3>1. CheckTeamForfeit(Surrendered(UserOf[s]), tick)
        BY <2>3 DEF SurrenderPlaying, Surrendered
      <3>2. \A i \in Slots : Surrendered(UserOf[s])[i].abandoned = slots[i].abandoned
        BY <1>1, <1>u, GaveUp
      <3> QED BY <3>1, <3>2, ForfeitEarned
    <2>4. CASE LoopEnd
      BY <2>4 DEF LoopEnd, EndWaiting, EndCountdown, EndPlaying, EndOver, LoopReturn, Earned
    <2>5. ASSUME phase # "playing" \/ phase' # "finished" PROVE Earned
      BY <2>5 DEF Earned
    <2> QED
      BY <1>1, <2>1, <2>2, <2>3, <2>4, <2>5
      DEF Next, MatchJoinAttempt, MatchJoin, MatchLeave, HandleMessage, HandleRejected,
          HandleReady, HandleDispatch, SurrenderLobby, HandleRematchVote, LoopBegin,
          LoopCancelled, LoopRetrySettlement, LoopDrain, MatchTerminate, CancelMatch, Crash
  <1> QED
    BY <1>1, PresentInit, PresentStep, TypeCorrect, PTL
    DEF Spec, ForfeitIsEarned, Earned

-----------------------------------------------------------------------------
(* The replay.                                                             *)

(* What was accepted is older than what may be accepted next.              *)
LogIsPast ==
  \A k \in DOMAIN actionLog :
    /\ actionLog[k].serverSeq <= serverSeq /\ actionLog[k].tick <= tick
    /\ actionLog[k].clientSeq < slots[actionLog[k].slot].nextSeq

(* All but an accepted dispatch leave the log and the sequences alone.     *)
Quiet ==
  /\ actionLog' = actionLog /\ serverSeq' >= serverSeq /\ tick' >= tick
  /\ \A i \in Slots : slots'[i].nextSeq = slots[i].nextSeq

LEMMA QuietOrDispatch ==
  ASSUME TypeOK, [Next]_vars
  PROVE  Quiet \/ \E s \in Sessions, seq \in 0..MaxActions : HandleDispatch(s, seq)
  <1>u. \A s \in Sessions : UserOf[s] \in Slots
    BY ConstantsAssumption
  <1>t. /\ tick \in Nat /\ serverSeq \in Nat /\ tick >= tick /\ serverSeq >= serverSeq
        /\ serverSeq + 1 >= serverSeq /\ tick + 1 >= tick
    BY DEF TypeOK
  <1>1. CASE UNCHANGED vars
    BY <1>1, <1>t DEF vars, streamVars, Quiet
  <1>2. ASSUME NEW s \in Sessions, MatchJoin(s) PROVE Quiet
    <2>1. \A i \in Slots : slots'[i].nextSeq = slots[i].nextSeq
      BY <1>2, <1>u, Adopted DEF MatchJoin
    <2> QED BY <1>2, <1>t, <2>1 DEF MatchJoin, streamVars, Quiet
  <1>3. ASSUME NEW s \in Sessions, MatchLeave(s) PROVE Quiet
    <2>1. \A i \in Slots : slots'[i].nextSeq = slots[i].nextSeq
      BY <1>3, <1>u, Detached DEF MatchLeave
    <2> QED BY <1>3, <1>t, <2>1 DEF MatchLeave, streamVars, Quiet
  <1>4. ASSUME NEW s \in Sessions, HandleReady(s) PROVE Quiet
    <2>1. slots' = [slots EXCEPT ![UserOf[s]].ready = TRUE]
      BY <1>4 DEF HandleReady
    <2>2. \A i \in Slots : slots'[i].nextSeq = slots[i].nextSeq
      BY <1>u, <2>1 DEF TypeOK, SlotState
    <2> QED BY <1>4, <1>t, <2>2 DEF HandleReady, Received, Quiet
  <1>5. ASSUME NEW s \in Sessions, SurrenderPlaying(s) PROVE Quiet
    <2>1. slots' = Surrendered(UserOf[s])
      BY <1>5 DEF SurrenderPlaying, CheckTeamForfeit, Surrendered
    <2>2. \A i \in Slots : slots'[i].nextSeq = slots[i].nextSeq
      BY <1>u, <2>1, GaveUp
    <2> QED BY <1>5, <1>t, <2>2 DEF SurrenderPlaying, Received, Quiet
  <1>6. CASE EnforceReconnectGrace
    <2>1. slots' = Aged(tick') /\ tick' = tick + 1 /\ tick' \in Nat
      BY <1>6 DEF EnforceReconnectGrace, CheckTeamForfeit, Aged, LoopStep, TypeOK
    <2>2. \A i \in Slots : slots'[i].nextSeq = slots[i].nextSeq
      BY <2>1, GrewOlder
    <2> QED BY <1>6, <1>t, <2>1, <2>2 DEF EnforceReconnectGrace, streamVars, Quiet
  <1>7. ASSUME slots' = slots, actionLog' = actionLog,
               serverSeq' \in {serverSeq, serverSeq + 1}, tick' \in {tick, tick + 1}
        PROVE  Quiet
    BY <1>7, <1>t DEF Quiet
  <1>8. ASSUME NEW s \in Sessions,
               MatchJoinAttempt(s) \/ HandleRejected(s) \/ SurrenderLobby(s)
                 \/ HandleRematchVote(s)
        PROVE  Quiet
    BY <1>7, <1>8 DEF MatchJoinAttempt, HandleRejected, SurrenderLobby, HandleRematchVote,
       Received, streamVars
  <1>9. CASE LoopCancelled \/ LoopRetrySettlement \/ LoopDrain
    BY <1>7, <1>9 DEF LoopCancelled, LoopRetrySettlement, LoopDrain, LoopStep, streamVars
  <1>10. CASE LoopEnd
    BY <1>7, <1>10 DEF LoopEnd, EndWaiting, EndCountdown, EndPlaying, EndOver, streamVars
  <1>11. CASE MatchTerminate \/ Crash
    BY <1>7, <1>11 DEF MatchTerminate, Crash, streamVars
  <1> QED
    BY <1>1, <1>2, <1>3, <1>4, <1>5, <1>6, <1>8, <1>9, <1>10, <1>11
    DEF Next, HandleMessage, LoopBegin

LEMMA LogStep ==
  TypeOK /\ LogIsPast /\ ActionLogIsCanonical /\ [Next]_vars
    => LogIsPast' /\ ActionLogIsCanonical'
  <1> SUFFICES ASSUME TypeOK, LogIsPast, ActionLogIsCanonical, [Next]_vars
               PROVE  LogIsPast' /\ ActionLogIsCanonical'
    OBVIOUS
  <1>t. /\ tick \in Nat /\ serverSeq \in Nat /\ actionLog \in Seq(Action)
        /\ slots \in [Slots -> SlotState] /\ \A i \in Slots : slots[i].nextSeq \in Nat
    BY DEF TypeOK, SlotState
  <1>p. TypeOK'
    BY TypeStep
  <1>q. tick' \in Nat /\ serverSeq' \in Nat
    BY <1>p DEF TypeOK
  <1>e. \A k \in DOMAIN actionLog :
          /\ actionLog[k] \in Action /\ actionLog[k].slot \in Slots
          /\ actionLog[k].serverSeq \in Nat /\ actionLog[k].tick \in Nat
          /\ actionLog[k].clientSeq \in Nat
    <2> SUFFICES ASSUME NEW k \in DOMAIN actionLog
                 PROVE  /\ actionLog[k] \in Action /\ actionLog[k].slot \in Slots
                        /\ actionLog[k].serverSeq \in Nat /\ actionLog[k].tick \in Nat
                        /\ actionLog[k].clientSeq \in Nat
      OBVIOUS
    <2>1. actionLog[k] \in Action
      BY <1>t
    <2> QED BY <2>1 DEF Action
  <1>1. CASE Quiet
    <2>1. LogIsPast'
      BY <1>1, <1>t, <1>q, <1>e DEF LogIsPast, Quiet
    <2>2. ActionLogIsCanonical'
      BY <1>1, <1>e DEF ActionLogIsCanonical, Quiet
    <2> QED BY <2>1, <2>2
  <1>2. ASSUME NEW s \in Sessions, NEW seq \in 0..MaxActions, HandleDispatch(s, seq)
        PROVE  LogIsPast' /\ ActionLogIsCanonical'
    <2> DEFINE i == UserOf[s]
               a == [tick |-> tick, serverSeq |-> serverSeq', slot |-> i, clientSeq |-> seq]
               n == Len(actionLog)
    <2>1. /\ i \in Slots /\ serverSeq' = serverSeq + 1 /\ tick' = tick
          /\ seq = slots[i].nextSeq
          /\ slots' = [slots EXCEPT ![i].nextSeq = @ + 1]
          /\ actionLog' = Append(actionLog, a)
      BY <1>2, ConstantsAssumption DEF HandleDispatch, Received, InSequence
    <2>2. /\ a.tick = tick /\ a.serverSeq = serverSeq' /\ a.slot = i /\ a.clientSeq = seq
      OBVIOUS
    <2> HIDE DEF i, a
    <2>3. /\ n \in Nat /\ DOMAIN actionLog = 1..n /\ DOMAIN actionLog' = 1..(n + 1)
          /\ actionLog'[n + 1] = a
          /\ \A k \in 1..n : actionLog'[k] = actionLog[k]
      BY <1>t, <2>1
    <2>4. slots'[i].nextSeq = seq + 1 /\ seq \in Nat
          /\ \A j \in Slots : j # i => slots'[j].nextSeq = slots[j].nextSeq
      BY <1>t, <2>1 DEF SlotState
    <2> HIDE DEF n
    <2>5. \A k \in 1..(n + 1) : k = n + 1 \/ k \in 1..n
      BY <2>3
    <2>6. LogIsPast'
      <3>1. ASSUME NEW k \in 1..n
            PROVE  /\ actionLog'[k].serverSeq <= serverSeq' /\ actionLog'[k].tick <= tick'
                   /\ actionLog'[k].clientSeq < slots'[actionLog'[k].slot].nextSeq
        <4>1. /\ actionLog[k].serverSeq <= serverSeq /\ actionLog[k].tick <= tick
              /\ actionLog[k].clientSeq < slots[actionLog[k].slot].nextSeq
              /\ actionLog'[k] = actionLog[k] /\ actionLog[k].slot \in Slots
              /\ actionLog[k].serverSeq \in Nat /\ actionLog[k].clientSeq \in Nat
          BY <1>e, <2>3 DEF LogIsPast
        <4>2. /\ actionLog'[k].serverSeq <= serverSeq' /\ actionLog'[k].tick <= tick'
          BY <1>t, <2>1, <4>1
        <4>3. actionLog'[k].clientSeq < slots'[actionLog'[k].slot].nextSeq
          <5>1. actionLog'[k].slot = actionLog[k].slot
                /\ actionLog'[k].clientSeq = actionLog[k].clientSeq
            BY <4>1
          <5>2. slots[i].nextSeq = seq
            BY <2>1
          <5> QED BY <2>4, <4>1, <5>1, <5>2
        <4> QED BY <4>2, <4>3
      <3>2. /\ a.serverSeq <= serverSeq' /\ a.tick <= tick'
            /\ a.clientSeq < slots'[a.slot].nextSeq
        BY <1>t, <1>q, <2>1, <2>2, <2>4
      <3> QED BY <2>3, <2>5, <3>1, <3>2 DEF LogIsPast
    <2>7. ASSUME NEW j \in 1..(n + 1), NEW k \in 1..(n + 1), j < k
          PROVE  /\ actionLog'[j].serverSeq < actionLog'[k].serverSeq
                 /\ actionLog'[j].tick <= actionLog'[k].tick
                 /\ actionLog'[j].slot = actionLog'[k].slot =>
                      actionLog'[j].clientSeq < actionLog'[k].clientSeq
      <3>1. j \in 1..n
        BY <2>3, <2>7
      <3>2. CASE k \in 1..n
        BY <2>3, <2>7, <3>1, <3>2 DEF ActionLogIsCanonical
      <3>3. CASE k = n + 1
        <4>1. /\ actionLog[j].serverSeq <= serverSeq /\ actionLog[j].tick <= tick
              /\ actionLog[j].clientSeq < slots[actionLog[j].slot].nextSeq
              /\ actionLog'[j] = actionLog[j] /\ actionLog'[k] = a
              /\ actionLog[j].serverSeq \in Nat
          BY <1>e, <2>3, <3>1, <3>3 DEF LogIsPast
        <4> QED BY <1>t, <2>1, <2>2, <4>1
      <3> QED BY <2>5, <3>2, <3>3
    <2>8. ASSUME NEW j \in Slots, NEW q \in 0..MaxActions
          PROVE  q < slots'[j].nextSeq <=>
                   \E k \in 1..(n + 1) : actionLog'[k].slot = j /\ actionLog'[k].clientSeq = q
      <3>1. q < slots[j].nextSeq <=>
              \E k \in 1..n : actionLog'[k].slot = j /\ actionLog'[k].clientSeq = q
        BY <2>3 DEF ActionLogIsCanonical
      <3>2. q \in Nat /\ n + 1 \in 1..(n + 1) /\ \A k \in 1..n : k \in 1..(n + 1)
        BY <2>3, ConstantsAssumption DEF Durations
      <3>3. CASE j = i
        <4>1. q < slots'[j].nextSeq <=> q < slots[j].nextSeq \/ q = seq
          BY <2>1, <2>4, <3>2, <3>3
        <4> QED BY <2>2, <2>3, <2>5, <3>1, <3>2, <3>3, <4>1
      <3>4. CASE j # i
        BY <2>2, <2>3, <2>4, <2>5, <3>1, <3>2, <3>4
      <3> QED BY <3>3, <3>4
    <2>9. ActionLogIsCanonical'
      BY <2>3, <2>7, <2>8 DEF ActionLogIsCanonical
    <2> QED BY <2>6, <2>9
  <1> QED BY <1>1, <1>2, QuietOrDispatch

(* The log of accepted actions is a replay, however many sessions,         *)
(* rejected messages and lost settlements there were: ordered by server    *)
(* sequence, and with every slot's own sequence without gap or repetition. *)
THEOREM ReplayCorrect == Spec => []ActionLogIsCanonical
  <1>1. Init => LogIsPast /\ ActionLogIsCanonical
    <2> SUFFICES ASSUME Init PROVE LogIsPast /\ ActionLogIsCanonical
      OBVIOUS
    <2>1. DOMAIN actionLog = {} /\ \A i \in Slots : slots[i].nextSeq = 0
      BY DEF Init, EmptySlot, FreshSlot
    <2>2. \A seq \in 0..MaxActions : ~(seq < 0)
      BY ConstantsAssumption DEF Durations
    <2> QED BY <2>1, <2>2 DEF LogIsPast, ActionLogIsCanonical
  <1> QED
    BY <1>1, LogStep, TypeCorrect, PTL DEF Spec

-----------------------------------------------------------------------------
(* The refinement of MatchOutcome: what is open stays unpaid, what is      *)
(* cancelled stays so, what is decided keeps its terms and is paid once.   *)

Terms == ParticipantOutcomes(slots, status)

LEMMA TermsAreAgreed ==
  ASSUME TypeOK, status \in Finals
  PROVE  Terms \in Outcome!Terms
  <1>1. ASSUME NEW i \in Slots
        PROVE  /\ Dead(slots, i) \in BOOLEAN
               /\ StatusForRole(status, TeamOf(i)) \in Finals
               /\ StatusForRole(status, TeamOf(i)) =
                    IF i \in TeamA THEN Outcome!Agreed(status).a ELSE Outcome!Agreed(status).b
    <2>1. Dead(slots, i) \in BOOLEAN
      BY DEF TypeOK, SlotState, Dead
    <2>2. CASE i \in TeamA
      BY <2>1, <2>2 DEF StatusForRole, TeamOf, Outcome!Agreed
    <2>3. CASE i \notin TeamA
      BY <2>1, <2>3 DEF StatusForRole, Flip, TeamOf, Finals, Outcome!Agreed
    <2> QED BY <2>2, <2>3
  <1>2. \A i \in Slots :
          /\ Terms[i].abandoned = Dead(slots, i)
          /\ Terms[i].status = IF Dead(slots, i) THEN "defeat"
                               ELSE StatusForRole(status, TeamOf(i))
    BY DEF Terms, ParticipantOutcomes
  <1>3. Terms \in [Slots -> Outcome!Outcome]
    BY <1>1 DEF Terms, ParticipantOutcomes, Outcome!Outcome, Finals
  <1> QED BY <1>1, <1>2, <1>3 DEF Outcome!Terms, Finals

DecidedIsAgreed == phase = "finished" => Terms \in Outcome!Terms

(* What a step may do to a match that is over.                             *)
Frozen ==
  /\ phase = "cancelled" => phase' = "cancelled"
  /\ phase = "finished" =>
       phase' = "finished" /\ status' = status /\ \A i \in Slots : Dead(slots', i) = Dead(slots, i)
  /\ stored # NoSettlement => stored' = stored

LEMMA OverIsFrozen ==
  ASSUME TypeOK, [Next]_vars
  PROVE  Frozen
  <1>u. \A s \in Sessions : UserOf[s] \in Slots
    BY ConstantsAssumption
  <1>f. ASSUME NEW sl, NEW st, NEW now, FinishMatch(sl, st, now)
        PROVE  phase' = "finished" /\ (stored # NoSettlement => stored' = stored)
    BY <1>f DEF FinishMatch
  <1>o. ASSUME phase \notin {"finished", "cancelled"}, stored # NoSettlement => stored' = stored
        PROVE  Frozen
    BY <1>o DEF Frozen
  <1>k. ASSUME slots' = slots, status' = status, phase' = phase, stored' = stored
        PROVE  Frozen
    BY <1>k DEF Frozen, Dead
  <1>1. CASE UNCHANGED vars
    BY <1>1, <1>k DEF vars, settleVars
  <1>2. ASSUME NEW s \in Sessions, MatchJoin(s) PROVE Frozen
    <2>1. \A i \in Slots : Dead(slots', i) = Dead(slots, i)
      BY <1>2, <1>u, Adopted DEF MatchJoin, Dead
    <2> QED BY <1>2, <2>1 DEF MatchJoin, settleVars, Frozen
  <1>3. ASSUME NEW s \in Sessions, MatchLeave(s) PROVE Frozen
    <2>1. \A i \in Slots : Dead(slots', i) = Dead(slots, i)
      BY <1>3, <1>u, Detached DEF MatchLeave, Dead
    <2> QED BY <1>3, <2>1 DEF MatchLeave, settleVars, Frozen
  <1>4. ASSUME NEW s \in Sessions,
               HandleReady(s) \/ SurrenderLobby(s)
                 \/ \E seq \in 0..MaxActions : HandleDispatch(s, seq)
        PROVE  Frozen
    BY <1>4, <1>o DEF HandleReady, SurrenderLobby, HandleDispatch, MayDispatch, CancelMatch,
       settleVars
  <1>5. ASSUME NEW s \in Sessions, SurrenderPlaying(s) PROVE Frozen
    BY <1>5, <1>f, <1>o DEF SurrenderPlaying, CheckTeamForfeit, settleVars
  <1>6. ASSUME NEW s \in Sessions,
               MatchJoinAttempt(s) \/ HandleRejected(s) \/ HandleRematchVote(s)
        PROVE  Frozen
    BY <1>6, <1>k DEF MatchJoinAttempt, HandleRejected, HandleRematchVote, settleVars
  <1>7. CASE LoopCancelled \/ LoopDrain
    BY <1>7, <1>k DEF LoopCancelled, LoopDrain, settleVars
  <1>8. CASE LoopRetrySettlement
    BY <1>8, <1>f DEF LoopRetrySettlement, settleVars, Frozen, Dead
  <1>9. CASE EnforceReconnectGrace
    BY <1>9, <1>f, <1>o DEF EnforceReconnectGrace, CheckTeamForfeit, settleVars
  <1>10. CASE LoopEnd
    <2>1. CASE EndWaiting
      BY <2>1, <1>o DEF EndWaiting, CancelMatch, settleVars
    <2>2. ASSUME NEW deadline, PlayOn(deadline) PROVE stored # NoSettlement => stored' = stored
      BY <2>2, <1>f DEF PlayOn, settleVars
    <2>3. CASE EndCountdown
      BY <2>2, <2>3, <1>o DEF EndCountdown, StartMatch, CancelMatch, settleVars
    <2>4. CASE EndPlaying
      BY <2>2, <2>4, <1>o DEF EndPlaying
    <2>5. CASE EndOver
      BY <2>5, <1>k DEF EndOver, settleVars
    <2> QED BY <1>10, <2>1, <2>3, <2>4, <2>5 DEF LoopEnd
  <1>11. CASE MatchTerminate
    BY <1>11, <1>o DEF MatchTerminate, CancelMatch, settleVars
  <1>12. CASE Crash
    BY <1>12, <1>k DEF Crash, settleVars
  <1> QED
    BY <1>1, <1>2, <1>3, <1>4, <1>5, <1>6, <1>7, <1>8, <1>9, <1>10, <1>11, <1>12
    DEF Next, HandleMessage, LoopBegin

(* The team handler implements MatchOutcome: every match is decided or     *)
(* cancelled at most once, and its fixed, agreed terms are paid to all     *)
(* players in one step, at most once.                                      *)
THEOREM OutcomeCorrect == Spec => OutcomeSpec
  <1> DEFINE V == CASE phase = "finished"  -> "decided"
                    [] phase = "cancelled" -> "cancelled"
                    [] OTHER               -> "open"
             T == IF phase = "finished" THEN ParticipantOutcomes(slots, status)
                                        ELSE NoSettlement
             P == IF stored = NoSettlement THEN NoSettlement ELSE stored.outcomes
  <1>1. Init => Outcome!Init
    BY DEF Init, Outcome!Init
  <1>a. TypeOK /\ Present => DecidedIsAgreed
    BY TermsAreAgreed DEF Present, DecidedHasResult, DecidedIsAgreed
  <1>2. ASSUME TypeOK, PaidIsDecided, TypeOK', PaidIsDecided', DecidedIsAgreed', [Next]_vars
        PROVE  [Outcome!Next]_(Outcome!outcomeVars)
    <2>f. Frozen
      BY <1>2, OverIsFrozen
    <2>1. phase \in Phases /\ phase' \in Phases
      BY <1>2 DEF TypeOK
    <2>p. /\ stored # NoSettlement => phase = "finished" /\ P = T
          /\ stored' # NoSettlement => phase' = "finished" /\ P' = T'
          /\ stored = NoSettlement => P = NoSettlement
          /\ stored' = NoSettlement => P' = NoSettlement
      BY <1>2 DEF PaidIsDecided
    <2>2. CASE phase = "finished"
      <3>1. phase' = "finished" /\ T' = T
        <4>1. /\ phase' = "finished" /\ status' = status
              /\ \A i \in Slots : Dead(slots', i) = Dead(slots, i)
          BY <2>f, <2>2 DEF Frozen
        <4>2. ParticipantOutcomes(slots, status)' = ParticipantOutcomes(slots, status)
          BY <4>1 DEF ParticipantOutcomes
        <4> QED BY <2>2, <4>1, <4>2
      <3>2. V = "decided" /\ V' = "decided"
        BY <2>2, <3>1
      <3>3. P' = P \/ (P = NoSettlement /\ P' = T)
        BY <2>f, <2>p, <3>1 DEF Frozen
      <3> QED BY <3>1, <3>2, <3>3 DEF Outcome!Next, Outcome!Pay, Outcome!outcomeVars
    <2>3. CASE phase # "finished" /\ phase' # "finished"
      <3>1. P = NoSettlement /\ P' = NoSettlement /\ T = NoSettlement /\ T' = NoSettlement
        BY <2>p, <2>3
      <3>2. CASE phase = "cancelled"
        <4>1. V = "cancelled" /\ V' = "cancelled"
          BY <2>f, <3>2 DEF Frozen
        <4> QED BY <3>1, <4>1 DEF Outcome!outcomeVars
      <3>3. CASE phase # "cancelled" /\ phase' = "cancelled"
        <4>1. V = "open" /\ V' = "cancelled"
          BY <2>3, <3>3
        <4> QED BY <3>1, <4>1 DEF Outcome!Next, Outcome!Cancel
      <3>4. CASE phase # "cancelled" /\ phase' # "cancelled"
        <4>1. V = "open" /\ V' = "open"
          BY <2>3, <3>4
        <4> QED BY <3>1, <4>1 DEF Outcome!outcomeVars
      <3> QED BY <3>2, <3>3, <3>4
    <2>4. CASE phase # "finished" /\ phase' = "finished"
      <3>1. V = "open" /\ V' = "decided"
        BY <2>f, <2>4 DEF Frozen
      <3>2. T' \in Outcome!Terms'
        BY <1>2, <2>4 DEF DecidedIsAgreed, Terms
      <3>3. P' \in {NoSettlement, T'}
        BY <2>p
      <3> QED BY <3>1, <3>2, <3>3 DEF Outcome!Next, Outcome!Decide
    <2> QED BY <2>2, <2>3, <2>4
  <1> QED
    BY <1>1, <1>2, <1>a, PresentInit, PresentStep, TypeCorrect, PaymentCorrect, PTL
    DEF Spec, OutcomeSpec, Outcome!Spec

(* A verdict is final: a cancelled match is never decided, a decided one   *)
(* keeps its status and who is dead in it, and a stored settlement is kept *)
(* as it is, whatever joins, leaves, messages and retries still come.      *)
THEOREM VerdictCorrect == Spec => [][Frozen]_vars
  <1>1. TypeOK /\ [Next]_vars => Frozen
    BY OverIsFrozen
  <1> QED BY <1>1, TypeCorrect, PTL DEF Spec

-----------------------------------------------------------------------------
(* How long each phase can last, in ticks.  A duration of zero still takes *)
(* the loop iteration in which it is noticed.                              *)
AtLeastOne(d) == IF d = 0 THEN 1 ELSE d

LobbyEnd == AtLeastOne(WaitingTimeout)
StartEnd == LobbyEnd + AtLeastOne(Countdown)
PlayEnd == StartEnd + MaxMatchTime + 1
PayEnd == PlayEnd + failures * AtLeastOne(RetryDelay)
LastTick == PayEnd + AtLeastOne(RematchWindow)

Paying ==
  phase = "finished" =>
    IF settled
      THEN /\ rematchEnds <= PayEnd + RematchWindow
           /\ tick <= LastTick /\ (pc = "idle" /\ ~stopped => tick < LastTick)
      ELSE settlementRetryAt <= PayEnd /\ tick < PayEnd

OnTime ==
  /\ phase = "waiting" => tick <= LobbyEnd /\ (pc = "idle" => tick < LobbyEnd)
  /\ phase = "countdown" =>
       /\ countdownEnds <= LobbyEnd + Countdown
       /\ tick <= StartEnd /\ (pc = "idle" => tick < StartEnd)
  /\ phase = "playing" =>
       /\ deadlineAt <= StartEnd + MaxMatchTime
       /\ tick <= PlayEnd /\ (pc = "idle" => tick < PlayEnd)
  /\ phase = "cancelled" => tick <= PlayEnd + 1 /\ (~stopped => tick <= PlayEnd)
  /\ phase # "finished" => ~settled
  /\ Paying

(* MatchTerminate and the loss of the process fall between two callbacks.  *)
Running == pc = "draining" => ~stopped

ProcessIsMortal == tick <= LastTick

LEMMA EndsTyped ==
  ASSUME TypeOK
  PROVE  /\ LobbyEnd \in Nat /\ LobbyEnd >= 1
         /\ StartEnd \in Nat /\ LobbyEnd < StartEnd /\ LobbyEnd + Countdown <= StartEnd
         /\ PlayEnd \in Nat /\ PlayEnd = StartEnd + MaxMatchTime + 1
         /\ PayEnd \in Nat /\ PlayEnd <= PayEnd
         /\ LastTick \in Nat /\ PayEnd < LastTick /\ PayEnd + RematchWindow <= LastTick
         /\ {WaitingTimeout, Countdown, MaxMatchTime, RetryDelay, RematchWindow} \subseteq Nat
  <1>1. {WaitingTimeout, Countdown, MaxMatchTime, RetryDelay, RematchWindow} \subseteq Nat
    BY ConstantsAssumption DEF Durations
  <1>2. \A d \in Nat : AtLeastOne(d) \in Nat /\ AtLeastOne(d) >= 1 /\ AtLeastOne(d) >= d
    BY DEF AtLeastOne
  <1>3. failures * AtLeastOne(RetryDelay) \in Nat
    <2>1. AtLeastOne(RetryDelay) \in Nat /\ failures \in Nat
      BY <1>1, <1>2 DEF TypeOK
    <2>2. \A m, n \in Nat : m * n \in Nat
      OBVIOUS
    <2> QED
      BY <2>1, <2>2
  <1> QED
    BY <1>1, <1>2, <1>3 DEF LobbyEnd, StartEnd, PlayEnd, PayEnd, LastTick

(* What a failed settlement adds.                                          *)
LEMMA EndsMove ==
  ASSUME TypeOK
  PROVE  /\ failures' = failures => PayEnd' = PayEnd /\ LastTick' = LastTick
         /\ failures' = failures + 1 =>
              /\ PayEnd' \in Nat /\ PayEnd < PayEnd' /\ PayEnd + RetryDelay <= PayEnd'
              /\ LastTick' \in Nat /\ PayEnd' < LastTick'
  <1>1. ASSUME failures' = failures PROVE PayEnd' = PayEnd /\ LastTick' = LastTick
    BY <1>1 DEF PayEnd, LastTick
  <1>2. ASSUME failures' = failures + 1
        PROVE  /\ PayEnd' \in Nat /\ PayEnd < PayEnd' /\ PayEnd + RetryDelay <= PayEnd'
               /\ LastTick' \in Nat /\ PayEnd' < LastTick'
    <2> DEFINE more == AtLeastOne(RetryDelay)
               window == AtLeastOne(RematchWindow)
    <2>1. /\ more \in Nat /\ more >= 1 /\ more >= RetryDelay /\ RetryDelay \in Nat
          /\ window \in Nat /\ window >= 1
      BY EndsTyped DEF AtLeastOne
    <2>2. PayEnd = PlayEnd + failures * more /\ PayEnd' = PlayEnd + (failures + 1) * more
      BY <1>2 DEF PayEnd
    <2>3. LastTick' = PayEnd' + window
      BY DEF LastTick
    <2>4. PayEnd \in Nat /\ PlayEnd \in Nat /\ failures \in Nat
      BY EndsTyped DEF TypeOK
    <2> HIDE DEF more, window
    <2>5. (failures + 1) * more = failures * more + more /\ failures * more \in Nat
      BY <2>1, <2>4
    <2>6. PayEnd' = PayEnd + more
      BY <2>1, <2>2, <2>4, <2>5
    <2> QED
      BY <2>1, <2>3, <2>4, <2>6
  <1> QED
    BY <1>1, <1>2

(* A match finished, or tried again, by then keeps to the new bound.       *)
LEMMA FinishOnTime ==
  ASSUME TypeOK, NEW sl, NEW st, NEW now \in Nat, FinishMatch(sl, st, now),
         now <= PayEnd, tick' = now, ~settled
  PROVE  OnTime'
  <1>1. phase' = "finished"
    BY DEF FinishMatch
  <1>2. CASE settled' = TRUE /\ rematchEnds' = now + RematchWindow /\ failures' = failures
    <2>1. PayEnd' = PayEnd /\ LastTick' = LastTick
      BY <1>2, EndsMove
    <2> QED
      BY <1>1, <1>2, <2>1, EndsTyped DEF OnTime, Paying
  <1>3. CASE /\ failures' = failures + 1 /\ settlementRetryAt' = now + RetryDelay
             /\ settled' = settled
    <2>1. /\ PayEnd' \in Nat /\ PayEnd < PayEnd' /\ PayEnd + RetryDelay <= PayEnd'
      BY <1>3, EndsMove
    <2> QED
      BY <1>1, <1>3, <2>1, EndsTyped DEF OnTime, Paying
  <1> QED
    BY <1>2, <1>3 DEF FinishMatch

(* A step that moves no clock and no deadline.                             *)
LEMMA Punctual ==
  ASSUME TypeOK, OnTime, UNCHANGED <<tick, phase, pc, lobbyVars, settleVars>>,
         stopped' \in BOOLEAN, stopped => stopped'
  PROVE  OnTime'
  <1>1. PayEnd' = PayEnd /\ LastTick' = LastTick
    BY EndsMove DEF settleVars
  <1>2. /\ tick' = tick /\ phase' = phase /\ pc' = pc
        /\ countdownEnds' = countdownEnds /\ deadlineAt' = deadlineAt
        /\ settled' = settled /\ settlementRetryAt' = settlementRetryAt
        /\ rematchEnds' = rematchEnds
    BY DEF lobbyVars, settleVars
  <1> QED
    BY <1>1, <1>2 DEF OnTime, Paying

LEMMA CancelOnTime ==
  ASSUME TypeOK, OnTime, phase \notin {"finished", "cancelled"},
         CancelMatch, tick' = tick
  PROVE  OnTime'
  <1>1. phase \in {"waiting", "countdown", "playing"}
    BY DEF TypeOK, Phases
  <1>2. tick <= PlayEnd
    BY <1>1, EndsTyped DEF OnTime, TypeOK
  <1>3. phase' = "cancelled" /\ settled' = settled
    BY DEF CancelMatch, settleVars
  <1> QED
    BY <1>2, <1>3, EndsTyped DEF OnTime, Paying, TypeOK

(* playing: the step of the simulation in time, or the end of the match.   *)
LEMMA PlayOnTime ==
  ASSUME TypeOK, ~settled, tick <= PlayEnd, NEW deadline \in Nat, PlayOn(deadline),
         deadline <= StartEnd + MaxMatchTime, deadlineAt' = deadline, tick' = tick
  PROVE  OnTime'
  <1>1. CASE \E st : FinishMatch(slots, st, tick)
    <2>1. tick \in Nat /\ tick <= PayEnd
      BY EndsTyped DEF TypeOK
    <2> QED
      BY <1>1, <2>1, FinishOnTime
  <1>2. CASE tick <= deadline /\ phase' = "playing" /\ UNCHANGED settleVars
    <2>1. settled' = settled
      BY <1>2 DEF settleVars
    <2>2. tick \in Nat
      BY DEF TypeOK
    <2> QED
      BY <1>2, <2>1, <2>2, EndsTyped DEF OnTime, Paying
  <1> QED
    BY <1>1, <1>2 DEF PlayOn

LEMMA OnTimeInit == Init => OnTime /\ Running
  <1>1. ASSUME Init PROVE OnTime /\ Running
    <2>1. TypeOK
      BY <1>1, TypeInit
    <2> QED
      BY <1>1, <2>1, EndsTyped DEF Init, OnTime, Paying, Running
  <1> QED
    BY <1>1

LEMMA RunningStep == Running /\ [Next]_vars => Running'
  BY DEF Running, Next, vars, MatchJoinAttempt, MatchJoin, MatchLeave, HandleMessage, Received,
     HandleRejected, HandleReady, HandleDispatch, SurrenderLobby, SurrenderPlaying,
     HandleRematchVote, LoopBegin, LoopStep, LoopCancelled, LoopRetrySettlement,
     EnforceReconnectGrace, LoopDrain, LoopEnd, LoopReturn, EndWaiting, EndCountdown,
     EndPlaying, EndOver, MatchTerminate, Crash

LEMMA OnTimeStep == TypeOK /\ Running /\ OnTime /\ [Next]_vars => OnTime'
  <1> SUFFICES ASSUME TypeOK, Running, OnTime, [Next]_vars PROVE OnTime'
    OBVIOUS
  <1>t. tick \in Nat /\ stopped \in BOOLEAN /\ settled \in BOOLEAN
    BY DEF TypeOK
  <1>e. /\ LobbyEnd \in Nat /\ LobbyEnd >= 1
        /\ StartEnd \in Nat /\ LobbyEnd < StartEnd /\ LobbyEnd + Countdown <= StartEnd
        /\ PlayEnd \in Nat /\ PlayEnd = StartEnd + MaxMatchTime + 1
        /\ PayEnd \in Nat /\ PlayEnd <= PayEnd
        /\ LastTick \in Nat /\ PayEnd < LastTick /\ PayEnd + RematchWindow <= LastTick
        /\ {WaitingTimeout, Countdown, MaxMatchTime, RetryDelay, RematchWindow} \subseteq Nat
    BY EndsTyped
  <1>1. CASE UNCHANGED vars
    <2>1. UNCHANGED <<tick, phase, pc, lobbyVars, settleVars>> /\ stopped' = stopped
      BY <1>1 DEF vars
    <2> QED
      BY <1>t, <2>1, Punctual
  <1>2. ASSUME NEW s \in Sessions, MatchJoinAttempt(s) \/ MatchLeave(s) PROVE OnTime'
    <2>1. UNCHANGED <<tick, phase, pc, lobbyVars, settleVars>> /\ stopped' = stopped
      BY <1>2 DEF MatchJoinAttempt, MatchLeave
    <2> QED
      BY <1>t, <2>1, Punctual
  <1>3. ASSUME NEW s \in Sessions, MatchJoin(s) PROVE OnTime'
    <2>1. CASE UNCHANGED <<phase, countdownEnds>>
      <3>1. UNCHANGED <<tick, phase, pc, lobbyVars, settleVars>> /\ stopped' = stopped
        BY <1>3, <2>1 DEF MatchJoin, lobbyVars
      <3> QED
        BY <1>t, <3>1, Punctual
    <2>2. CASE phase = "waiting" /\ phase' = "countdown" /\ countdownEnds' = tick + Countdown
      <3>1. tick' = tick /\ pc = "idle" /\ settled' = settled
        BY <1>3 DEF MatchJoin, settleVars
      <3> QED
        BY <1>t, <1>e, <2>2, <3>1 DEF OnTime, Paying
    <2> QED
      BY <1>3, <2>1, <2>2 DEF MatchJoin
  <1>4. ASSUME NEW s \in Sessions, NEW seq,
               \/ HandleRejected(s) \/ HandleReady(s) \/ HandleDispatch(s, seq)
               \/ HandleRematchVote(s)
        PROVE  OnTime'
    <2>1. UNCHANGED <<tick, phase, pc, lobbyVars, settleVars>> /\ stopped' = stopped
      BY <1>4 DEF HandleRejected, HandleReady, HandleDispatch, HandleRematchVote
    <2> QED
      BY <1>t, <2>1, Punctual
  <1>5. ASSUME NEW s \in Sessions, SurrenderLobby(s) PROVE OnTime'
    <2>1. tick' = tick /\ CancelMatch /\ phase \notin {"finished", "cancelled"}
      BY <1>5 DEF SurrenderLobby
    <2> QED
      BY <2>1, CancelOnTime
  <1>6. ASSUME NEW s \in Sessions, SurrenderPlaying(s) PROVE OnTime'
    <2>1. tick' = tick /\ pc' = pc /\ phase = "playing" /\ stopped' = stopped
          /\ UNCHANGED lobbyVars
      BY <1>6 DEF SurrenderPlaying
    <2>2. PICK sl : CheckTeamForfeit(sl, tick)
      BY <1>6 DEF SurrenderPlaying
    <2>3. CASE UNCHANGED <<phase, settleVars>>
      BY <1>t, <2>1, <2>3, Punctual
    <2>4. CASE FinishMatch(sl, ForfeitStatus(sl), tick)
      <3>1. tick <= PayEnd /\ ~settled
        BY <1>t, <1>e, <2>1 DEF OnTime
      <3> QED
        BY <1>t, <2>1, <2>4, <3>1, FinishOnTime
    <2> QED
      BY <2>2, <2>3, <2>4 DEF CheckTeamForfeit
  <1>7. CASE LoopCancelled
    <2>1. /\ phase = "cancelled" /\ phase' = phase /\ tick' = tick + 1 /\ ~stopped
          /\ stopped' /\ settled' = settled
      BY <1>7 DEF LoopCancelled, LoopStep, settleVars
    <2> QED
      BY <1>t, <1>e, <2>1 DEF OnTime, Paying
  <1>8. CASE LoopRetrySettlement
    <2>1. /\ phase = "finished" /\ ~settled /\ tick' = tick + 1 /\ pc' = pc
          /\ tick < PayEnd /\ settlementRetryAt <= PayEnd
      BY <1>8 DEF LoopRetrySettlement, LoopStep, OnTime, Paying
    <2>2. CASE FinishMatch(slots, status, tick')
      <3>1. tick' \in Nat /\ tick' <= PayEnd
        BY <1>t, <1>e, <2>1
      <3> QED
        BY <2>1, <2>2, <3>1, FinishOnTime
    <2>3. CASE ~RetryDue(tick') /\ UNCHANGED <<phase, settleVars>>
      <3>1. tick' < settlementRetryAt
        BY <1>t, <2>1, <2>3 DEF RetryDue, TypeOK
      <3>2. PayEnd' = PayEnd
        BY <2>3, EndsMove DEF settleVars
      <3>3. tick' < PayEnd
        BY <1>t, <1>e, <2>1, <3>1 DEF TypeOK
      <3> QED
        BY <2>1, <2>3, <3>2, <3>3 DEF OnTime, Paying, settleVars
    <2> QED
      BY <1>8, <2>2, <2>3 DEF LoopRetrySettlement
  <1>9. CASE EnforceReconnectGrace
    <2>1. /\ phase = "playing" /\ pc = "idle" /\ tick' = tick + 1 /\ stopped' = stopped
          /\ tick' <= PlayEnd /\ UNCHANGED lobbyVars
      BY <1>9, <1>t, <1>e DEF EnforceReconnectGrace, LoopStep, OnTime
    <2>2. PICK sl : CheckTeamForfeit(sl, tick')
      BY <1>9 DEF EnforceReconnectGrace
    <2>3. CASE ForfeitStatus(sl) = "playing"
      <3>1. phase' = "playing" /\ pc' = "draining" /\ settled' = settled
            /\ deadlineAt' = deadlineAt
        BY <1>9, <2>1, <2>2, <2>3 DEF EnforceReconnectGrace, CheckTeamForfeit, settleVars, lobbyVars
      <3> QED
        BY <2>1, <3>1 DEF OnTime, Paying
    <2>4. CASE FinishMatch(sl, ForfeitStatus(sl), tick')
      <3>1. tick' \in Nat /\ tick' <= PayEnd /\ ~settled
        BY <1>t, <1>e, <2>1 DEF OnTime
      <3> QED
        BY <2>4, <3>1, FinishOnTime
    <2> QED
      BY <2>2, <2>3, <2>4 DEF CheckTeamForfeit
  <1>10. CASE LoopDrain
    <2>1. /\ pc = "idle" /\ ~stopped /\ tick' = tick + 1 /\ phase' = phase
          /\ pc' = "draining"
          /\ phase \in {"waiting", "countdown"} \/ (phase = "finished" /\ settled)
          /\ UNCHANGED <<lobbyVars, settleVars>>
      BY <1>10 DEF LoopDrain, LoopStep
    <2>2. PayEnd' = PayEnd /\ LastTick' = LastTick
      BY <2>1, EndsMove DEF settleVars
    <2>3. /\ settled' = settled /\ rematchEnds' = rematchEnds
          /\ countdownEnds' = countdownEnds
      BY <2>1 DEF lobbyVars, settleVars
    <2> QED
      BY <1>t, <1>e, <2>1, <2>2, <2>3 DEF OnTime, Paying
  <1>11. CASE EndWaiting
    <2>0. phase = "waiting" /\ tick' = tick /\ pc' = "idle" /\ ~settled
      BY <1>11 DEF EndWaiting, LoopReturn, OnTime
    <2>1. CASE phase' = "countdown" /\ countdownEnds' = tick + Countdown /\ UNCHANGED settleVars
      <3>1. settled' = settled
        BY <2>1 DEF settleVars
      <3> QED
        BY <1>t, <1>e, <2>0, <2>1, <3>1 DEF OnTime, Paying
    <2>2. CASE CancelMatch
      BY <2>0, <2>2, CancelOnTime
    <2>3. CASE tick < WaitingTimeout /\ UNCHANGED <<phase, countdownEnds, settleVars>>
      <3>1. settled' = settled /\ phase' = phase
        BY <2>3 DEF settleVars
      <3>2. tick < LobbyEnd
        BY <1>t, <1>e, <2>3 DEF LobbyEnd, AtLeastOne
      <3> QED
        BY <1>t, <1>e, <2>0, <3>1, <3>2 DEF OnTime, Paying
    <2> QED
      BY <1>11, <2>1, <2>2, <2>3 DEF EndWaiting
  <1>12. CASE EndCountdown
    <2>0. /\ phase = "countdown" /\ tick' = tick /\ pc' = "idle" /\ ~settled
          /\ tick <= StartEnd /\ countdownEnds <= LobbyEnd + Countdown
          /\ countdownEnds' = countdownEnds /\ countdownEnds \in Nat
      BY <1>12 DEF EndCountdown, LoopReturn, OnTime, TypeOK
    <2>1. CASE CancelMatch
      BY <2>0, <2>1, CancelOnTime
    <2>2. CASE deadlineAt' = tick + MaxMatchTime /\ PlayOn(deadlineAt')
      <3>1. /\ tick + MaxMatchTime \in Nat /\ tick <= PlayEnd
            /\ tick + MaxMatchTime <= StartEnd + MaxMatchTime
        BY <1>t, <1>e, <2>0
      <3> QED
        BY <2>0, <2>2, <3>1, PlayOnTime
    <2>3. CASE tick < countdownEnds /\ UNCHANGED <<phase, status, deadlineAt, settleVars>>
      <3>1. settled' = settled /\ phase' = phase
        BY <2>3 DEF settleVars
      <3> QED
        BY <1>t, <1>e, <2>0, <2>3, <3>1 DEF OnTime, Paying
    <2> QED
      BY <1>12, <2>1, <2>2, <2>3 DEF EndCountdown, StartMatch
  <1>13. CASE EndPlaying
    <2>1. /\ phase = "playing" /\ tick' = tick /\ PlayOn(deadlineAt)
          /\ deadlineAt' = deadlineAt /\ deadlineAt \in Nat
          /\ ~settled /\ tick <= PlayEnd /\ deadlineAt <= StartEnd + MaxMatchTime
      BY <1>13 DEF EndPlaying, LoopReturn, OnTime, TypeOK, lobbyVars
    <2> QED
      BY <2>1, PlayOnTime
  <1>14. CASE EndOver
    <2>1. /\ phase' = phase /\ tick' = tick /\ pc = "draining"
          /\ phase \in {"finished", "cancelled"}
          /\ stopped' = (phase = "finished" /\ WindowClosed)
          /\ settled' = settled /\ rematchEnds' = rematchEnds
          /\ settlementRetryAt' = settlementRetryAt /\ failures' = failures
      BY <1>14 DEF EndOver, LoopReturn, settleVars
    <2>2. PayEnd' = PayEnd /\ LastTick' = LastTick
      BY <2>1, EndsMove
    <2>3. ~stopped' /\ phase = "finished" /\ settled => tick < rematchEnds
      <3>1. ~stopped' /\ phase = "finished" => ~WindowClosed
        BY <2>1
      <3>2. tick \in Nat /\ rematchEnds \in Nat
        BY DEF TypeOK
      <3>3. ~WindowClosed /\ settled => tick < rematchEnds
        BY <1>t, <3>2 DEF WindowClosed
      <3> QED
        BY <3>1, <3>3
    <2>4. ~stopped
      BY <2>1 DEF Running
    <2>5. CASE phase = "cancelled"
      BY <1>t, <1>e, <2>1, <2>2, <2>4, <2>5 DEF OnTime, Paying
    <2>6. CASE phase = "finished"
      <3>1. phase' = "finished" /\ rematchEnds \in Nat
        BY <2>1, <2>6 DEF TypeOK
      <3>2. CASE settled
        BY <1>t, <1>e, <2>1, <2>2, <2>3, <2>6, <3>1, <3>2 DEF OnTime, Paying
      <3>3. CASE ~settled
        BY <1>t, <1>e, <2>1, <2>2, <2>6, <3>1, <3>3 DEF OnTime, Paying
      <3> QED
        BY <3>2, <3>3
    <2> QED
      BY <2>1, <2>5, <2>6
  <1>15. CASE MatchTerminate
    <2>1. tick' = tick /\ CancelMatch /\ phase \notin {"finished", "cancelled"}
      BY <1>15 DEF MatchTerminate
    <2> QED
      BY <2>1, CancelOnTime
  <1>16. CASE Crash
    <2>1. UNCHANGED <<tick, phase, pc, lobbyVars, settleVars>> /\ stopped' = TRUE
      BY <1>16 DEF Crash
    <2> QED
      BY <2>1, Punctual
  <1> QED
    BY <1>1, <1>2, <1>3, <1>4, <1>5, <1>6, <1>7, <1>8, <1>9, <1>10, <1>11, <1>12, <1>13,
       <1>14, <1>15, <1>16 DEF Next, HandleMessage, LoopBegin, LoopEnd

(* A match process lives a bounded number of ticks, whoever joins, leaves, *)
(* surrenders or sends messages meanwhile: the lobby, the countdown, the   *)
(* match and the rematch window each take their time once, and only a      *)
(* settlement that fails adds a retry delay.  No callback renews a         *)
(* deadline.                                                               *)
THEOREM LifetimeCorrect == Spec => []ProcessIsMortal
  <1>1. TypeOK /\ OnTime => ProcessIsMortal
    <2> SUFFICES ASSUME TypeOK, OnTime PROVE ProcessIsMortal
      OBVIOUS
    <2>1. phase \in {"waiting", "countdown", "playing", "finished", "cancelled"} /\ tick \in Nat
      BY DEF TypeOK, Phases
    <2> QED
      BY <2>1, EndsTyped DEF OnTime, Paying, ProcessIsMortal
  <1> QED
    BY <1>1, OnTimeInit, RunningStep, OnTimeStep, TypeCorrect, PTL DEF Spec
=============================================================================
